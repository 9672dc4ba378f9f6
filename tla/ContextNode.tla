----------------------------- MODULE ContextNode -----------------------------
(***************************************************************************)
(* The context commands that own state on a node (buzz-cli/src/commands/   *)
(* context): which layout a profile resolves to and the migration of a     *)
(* legacy one (profile.rs, migrate.rs), the authored root of a durable     *)
(* context and its presence in the journal (durable.rs), and the sync      *)
(* agreements (agreement.rs).  Commands are processes of a shell: several  *)
(* run at once, each may be killed between two of its steps, and the local *)
(* relay may be away.                                                      *)
(***************************************************************************)
EXTENDS Integers, Sequences, FiniteSets

CONSTANTS Plans,   \* records [calls, profile, legacy, data, explicit, cloud, foreign, kills, flaps, ticks, solo]
          MaxTime

VARIABLES plan,
          disk,    \* the profile file, the migration's temporary file, and the two data roots
          root,    \* the context root: its opt-in and its charter
          posts,   \* the presence records each relay holds, as <<context id, by which command>>
          decls,   \* the agreement heads each relay holds
          up,      \* whether the local relay answers
          clock, call, budget

vars == <<plan, disk, root, posts, decls, up, clock, call, budget>>

None == [root |-> "none", opt |-> "none", by |-> 0]
\* A file that the migration c has created and not yet written.
Empty(c) == [root |-> "torn", opt |-> "none", by |-> c]
Torn(f) == f.root = "torn"
Calls == DOMAIN plan.calls
Fresh == [pc |-> "start", ready |-> FALSE, mine |-> 0, pin |-> 0, event |-> 0, when |-> 0, verdict |-> "none", saw |-> {}]

Init ==
  /\ plan \in Plans
  /\ disk = [profile |-> plan.profile, tmp |-> None, legacy |-> plan.legacy, data |-> plan.data]
  /\ root = [opt |-> 0, slug |-> "none", charter |-> 0]
  /\ posts = [r \in {"local", "cloud"} |-> {}] /\ decls = [r \in {"local", "cloud"} |-> plan.foreign]
  /\ up = TRUE /\ clock = 1 /\ call = [c \in DOMAIN plan.calls |-> Fresh]
  /\ budget = [kills |-> plan.kills, flaps |-> plan.flaps]

To(c, pc) == call' = [call EXCEPT ![c].pc = pc]
Kind(c) == plan.calls[c].kind
Ended(c) == call[c].pc \in {"done", "refused", "failed", "killed", "planned", "already"}
-----------------------------------------------------------------------------
(***************************************************************************)
(* resolve_profile, which every command calls first, and require_ready,    *)
(* which refuses what it resolved.  An opt-in of -1 is one cut short.      *)
(***************************************************************************)
\* A mutant: a configured profile is ready whatever else is on the disk.
layout_Configured(d) ==
  CASE plan.explicit -> "Ready" [] d.profile # None -> "Ready"
    [] d.legacy -> "LegacyUnmigrated" [] OTHER -> "FreshUnconfigured"
layout(d) ==
  CASE plan.explicit -> "Ready"
    [] d.profile = None /\ d.legacy -> "LegacyUnmigrated"
    [] d.profile = None /\ ~d.legacy -> "FreshUnconfigured"
    [] d.profile # None /\ d.legacy /\ d.profile.root # "legacy" -> "Conflicting"
    [] OTHER -> "Ready"

require_ready == ~Torn(disk.profile) /\ layout(disk) = "Ready"

\* path_has_entries of the default data root, which the relay fills when it starts.
relay_starts == ~disk.data /\ budget.flaps > 0 /\ disk' = [disk EXCEPT !.data = TRUE]
                /\ budget' = [budget EXCEPT !.flaps = @ - 1] /\ UNCHANGED <<plan, root, posts, decls, up, clock, call>>

Planned(c) == [root |-> "legacy", opt |-> plan.calls[c].opt, by |-> 0]

\* A mutant: an existing profile is not looked at.
Decision_Overwrites(c) ==
  CASE ~disk.legacy -> "refused" [] disk.data -> "refused" [] OTHER -> IF plan.calls[c].apply THEN "inspect" ELSE "planned"
\* migrate, up to the installation.
Decision(c) ==
  CASE ~disk.legacy -> "refused"
    [] disk.legacy /\ Torn(disk.profile) -> "refused"
    [] disk.legacy /\ disk.profile # None /\ ~Torn(disk.profile) -> IF disk.profile.root = "legacy" THEN "already" ELSE "refused"
    [] disk.legacy /\ disk.profile = None /\ disk.data -> "refused"
    [] OTHER -> IF plan.calls[c].apply THEN "inspect" ELSE "planned"

migrate(c) ==
  /\ Kind(c) = "migrate" /\ call[c].pc = "start"
  /\ To(c, Decision(c)) /\ UNCHANGED <<plan, disk, root, posts, decls, up, clock, budget>>

\* write_all fills the file that c created, under whichever name it has by now.
Filled(f, c) == IF f = Empty(c) THEN Planned(c) ELSE f
\* A mutant: the profile itself is created and then filled.
Installed_InPlace(c, pc) ==
  IF pc = "create" THEN [disk EXCEPT !.tmp = Empty(c), !.profile = Empty(c)]
  ELSE [disk EXCEPT !.tmp = Filled(@, c), !.profile = Filled(@, c)]
\* What create_new and write_all leave.
Installed(c, pc) ==
  IF pc = "create" THEN [disk EXCEPT !.tmp = Empty(c)]
  ELSE [disk EXCEPT !.tmp = Filled(@, c), !.profile = Filled(@, c)]

install_profile(c) ==
  /\ Kind(c) = "migrate"
  /\ \/ /\ call[c].pc = "inspect" /\ UNCHANGED disk
        /\ To(c, IF disk.tmp = None THEN "create" ELSE IF disk.tmp = Planned(c) THEN "rename" ELSE "refused")
     \/ /\ call[c].pc = "create"
        /\ IF disk.tmp = None THEN disk' = Installed(c, "create") /\ To(c, "write")
           ELSE To(c, "failed") /\ UNCHANGED disk
     \/ /\ call[c].pc = "write"
        /\ disk' = Installed(c, "write") /\ To(c, "rename")
     \/ /\ call[c].pc = "rename"
        /\ IF disk.tmp = None THEN To(c, "failed") /\ UNCHANGED disk
           ELSE disk' = [disk EXCEPT !.profile = disk.tmp, !.tmp = None] /\ To(c, "done")
  /\ UNCHANGED <<plan, root, posts, decls, up, clock, budget>>
-----------------------------------------------------------------------------
(***************************************************************************)
(* buzz context init.                                                      *)
(***************************************************************************)
Authored == root.opt > 0

\* A mutant: every run mints an identity.
Mine_Fresh(c) == c
Mine(c) == IF Authored THEN root.opt ELSE c

init_reads(c) ==
  /\ Kind(c) = "init" /\ call[c].pc = "start"
  /\ CASE root.opt = -1 \/ Torn(disk.profile) -> To(c, "failed")
       [] Authored /\ root.slug # plan.calls[c].slug -> To(c, "refused")
       [] OTHER -> call' = [call EXCEPT ![c].mine = Mine(c), ![c].ready = require_ready, ![c].pc = "opt_in"]
  /\ UNCHANGED <<plan, disk, root, posts, decls, up, clock, budget>>

\* write_root_files: each file only when it is not there; fs::write empties it first.
write_root_files(c) ==
  /\ Kind(c) = "init"
  /\ \/ call[c].pc = "opt_in" /\ To(c, IF root.opt # 0 THEN "charter" ELSE "empty") /\ UNCHANGED root
     \/ call[c].pc = "empty" /\ To(c, "fill") /\ root' = [root EXCEPT !.opt = -1]
     \/ call[c].pc = "fill" /\ To(c, "charter") /\ root' = [root EXCEPT !.opt = call[c].mine, !.slug = plan.calls[c].slug]
     \/ call[c].pc = "charter" /\ root.charter # 0 /\ To(c, "ready") /\ UNCHANGED root
     \/ call[c].pc = "charter" /\ root.charter = 0 /\ To(c, "describe") /\ root' = [root EXCEPT !.charter = -1]
     \/ call[c].pc = "describe" /\ To(c, "ready") /\ root' = [root EXCEPT !.charter = call[c].mine]
     \/ call[c].pc = "ready" /\ To(c, IF call[c].ready THEN "query" ELSE "failed") /\ UNCHANGED root
  /\ UNCHANGED <<plan, disk, posts, decls, up, clock, budget>>

\* query_preferred: the local relay, and the rendezvous when it does not answer.
Asked == IF up THEN "local" ELSE IF plan.cloud THEN "cloud" ELSE "none"

\* A mutant: only the run that created the root posts its presence.
Presence_Created(c) == root.opt # c
\* A mutant: nothing is looked up.
Presence_Never(c) == FALSE
Presence(c) == \E p \in posts[Asked] : p[1] = call[c].mine

init_presence(c) ==
  /\ Kind(c) = "init"
  /\ \/ /\ call[c].pc = "query"
        /\ To(c, IF Asked = "none" THEN "failed" ELSE IF Presence(c) THEN "done" ELSE "post")
        /\ UNCHANGED posts
     \/ /\ call[c].pc = "post"
        /\ IF ~up THEN To(c, "failed") /\ UNCHANGED posts
           ELSE /\ posts' = [posts EXCEPT !["local"] = @ \cup {<<call[c].mine, c>>}]
                /\ \/ To(c, "done")
                   \/ budget.flaps > 0 /\ To(c, "failed")      \* the answer is lost
  /\ UNCHANGED <<plan, disk, root, decls, up, clock, budget>>
-----------------------------------------------------------------------------
(***************************************************************************)
(* Agreements: a declaration is a replaceable event, so the local relay    *)
(* keeps the newest of an author's declarations of one coordinate, and the *)
(* smaller id of two of the same second.  The newest export of any author  *)
(* is the one admit and read pin, and match compares.                      *)
(***************************************************************************)
Later(d, e) == d.at > e.at \/ (d.at = e.at /\ d.id > e.id)
newest_head(r, role) ==
  LET ds == {d \in decls[r] : d.role = role} IN
  IF ds = {} THEN {} ELSE {CHOOSE d \in ds : \A e \in ds : e = d \/ Later(d, e)}

Kept(r, d) ==
  LET old == {e \in decls[r] : e.author = d.author /\ e.role = d.role} IN
  IF \A e \in old : d.at > e.at \/ (d.at = e.at /\ d.id < e.id) THEN (decls[r] \ old) \cup {d} ELSE decls[r]

Ids == {d.id : d \in decls["local"] \cup decls["cloud"]}

pin_for_export(c) ==
  /\ Kind(c) \in {"admit", "read"} /\ call[c].pc = "start"
  /\ IF ~require_ready \/ Asked = "none" THEN To(c, "failed")
     ELSE call' = [call EXCEPT ![c].pc = "declare", ![c].pin = IF newest_head(Asked, "export") = {} THEN 0
                                                   ELSE (CHOOSE d \in newest_head(Asked, "export") : TRUE).id]
  /\ UNCHANGED <<plan, disk, root, posts, decls, up, clock, budget>>

\* A mutant: a declaration takes the time of its author's first one.
Stamp_Old(c) == 1
Stamp(c) == clock
post_declaration(c) ==
  /\ \/ Kind(c) \in {"admit", "read"} /\ call[c].pc = "declare"
     \/ Kind(c) \in {"export", "steward"} /\ call[c].pc = "start"
  /\ IF (call[c].pc = "start" /\ ~require_ready) \/ ~up THEN To(c, "failed") /\ UNCHANGED decls
     ELSE \E i \in {2 * c, 20 - 2 * c} :
            /\ decls' = [decls EXCEPT !["local"] = Kept("local",
                 [author |-> plan.calls[c].author, role |-> Kind(c), at |-> Stamp(c), id |-> i, pin |-> call[c].pin,
                  status |-> "active", offered |-> plan.calls[c].offered])]
            /\ call' = [call EXCEPT ![c].pc = "done", ![c].event = i, ![c].when = clock]
  /\ UNCHANGED <<plan, disk, root, posts, up, clock, budget>>

\* A mutant: any pin will do.
verdict_AnyPin(export, admit) ==
  CASE export.status # "active" \/ admit.status # "active" -> "UNMATCHED"
    [] admit.pin = 0 -> "UNPINNED" [] admit.author \notin export.offered -> "UNMATCHED" [] OTHER -> "MATCHED"
verdict(export, admit) ==
  CASE export.status # "active" \/ admit.status # "active" -> "UNMATCHED"
    [] admit.pin = 0 -> "UNPINNED"
    [] admit.pin # 0 /\ admit.pin # export.id -> "DRIFT"
    [] admit.pin = export.id /\ admit.author \notin export.offered -> "UNMATCHED"
    [] OTHER -> "MATCHED"

match_stream(c) ==
  /\ Kind(c) = "match" /\ call[c].pc = "start"
  /\ IF ~require_ready \/ Asked = "none" THEN To(c, "failed")
     ELSE LET export == newest_head(Asked, "export")
              admit == newest_head(Asked, "admit")
          IN call' = [call EXCEPT ![c].pc = "done", ![c].saw = decls[Asked], ![c].verdict =
               CASE export = {} -> "UNMATCHED" [] export # {} /\ admit = {} -> "OFFER OPEN"
                 [] OTHER -> verdict(CHOOSE d \in export : TRUE, CHOOSE d \in admit : TRUE)]
  /\ UNCHANGED <<plan, disk, root, posts, decls, up, clock, budget>>
-----------------------------------------------------------------------------
replicate ==
  /\ plan.cloud /\ (posts["cloud"] # posts["local"] \/ decls["cloud"] # decls["local"])
  /\ posts' = [posts EXCEPT !["cloud"] = posts["local"]] /\ decls' = [decls EXCEPT !["cloud"] = decls["local"]]
  /\ UNCHANGED <<plan, disk, root, up, clock, call, budget>>

flap ==
  /\ budget.flaps > 0 \/ ~up
  /\ up' = ~up /\ budget' = [budget EXCEPT !.flaps = IF up THEN @ - 1 ELSE @]
  /\ UNCHANGED <<plan, disk, root, posts, decls, clock, call>>

kill(c) ==
  /\ budget.kills > 0 /\ call[c].pc # "start" /\ ~Ended(c)
  /\ budget' = [budget EXCEPT !.kills = @ - 1] /\ To(c, "killed")
  /\ UNCHANGED <<plan, disk, root, posts, decls, up, clock>>

tick ==
  /\ clock < MaxTime /\ plan.ticks
  /\ clock' = clock + 1 /\ UNCHANGED <<plan, disk, root, posts, decls, up, call, budget>>

\* A command of a sequential plan starts when the ones before it have ended.
May(c) == plan.solo => \A d \in Calls : d < c => Ended(d)

Next ==
  \/ \E c \in Calls : May(c) /\ (\/ migrate(c) \/ install_profile(c) \/ init_reads(c) \/ write_root_files(c)
       \/ init_presence(c) \/ pin_for_export(c) \/ post_declaration(c) \/ match_stream(c) \/ kill(c))
  \/ relay_starts \/ replicate \/ flap \/ tick

Spec == Init /\ [][Next]_vars
-----------------------------------------------------------------------------
(***************************************************************************)
(* Properties.                                                             *)
(***************************************************************************)
\* The migrations that found nothing in their way.
Installing == {c \in Calls : Kind(c) = "migrate" /\ call[c].pc \in
                 {"inspect", "create", "write", "rename", "done", "failed", "killed"}}

\* Whatever is killed, and whoever migrates at the same time, a profile is never
\* half written, never loses the root it points at, and never makes a command
\* work on one root while the legacy one holds state (migrate's refusals and
\* install_profile's rename; resolve_profile's layouts).  With one exception:
\* install_profile renames whatever has the temporary name, so of three migrations
\* that passed the checks one can put the still empty file of the second over the
\* profile of the third; it is whole again when the second has written it.
ProfileWhole ==
  Torn(disk.profile) => /\ Cardinality(Installing) > 2
                        /\ call[disk.profile.by].pc \in {"write", "killed"}

NoMixedState ==
  \A c \in Calls : Kind(c) # "migrate" /\ ~plan.explicit
      /\ (call[c].pc \in {"query", "post", "declare"} \/ (call[c].pc = "done" /\ Kind(c) \in {"init", "match", "export"})) =>
    disk.profile # None /\ (disk.legacy => disk.profile.root = "legacy" \/ Torn(disk.profile))

ProfileKept ==
  [][disk.profile # None /\ ~Torn(disk.profile) => disk.profile'.root = disk.profile.root \/ Torn(disk.profile')]_<<disk>>

\* When every init of a root has ended well, the authored context is present in
\* the journal, also when several ran at once or earlier ones failed (init's
\* re-run completes the record); and runs one after the other against a local
\* relay that answers, or whose answer to a post was lost, leave exactly one.
InitPresent ==
  LET inits == {c \in Calls : Kind(c) = "init"} IN
  /\ inits # {} /\ (\A c \in inits : call[c].pc = "done") =>
       \E p \in posts["local"] : p[1] = root.opt
  /\ plan.solo /\ (\E c \in inits : call[c].pc = "done") => \E p \in posts["local"] : p[1] = root.opt
  /\ plan.solo /\ ~plan.cloud => \A p, q \in posts["local"] : p[1] = q[1] => p = q

\* The context a finished init reports is the authored one, and its charter
\* names it, when the runs do not overlap (authored opt-in is authority); only
\* a run killed while it wrote the charter leaves one that is cut short.
InitAuthored ==
  plan.solo => \A c \in Calls : Kind(c) = "init" /\ call[c].pc = "done" =>
    /\ call[c].mine = root.opt
    /\ root.charter = root.opt \/ (root.charter = -1 /\ \E d \in Calls : call[d].pc = "killed")

\* A declaration reported as made is in force, unless one of the same second or
\* a later one replaced it (post_declaration gives it the current time).
DeclaredCounts ==
  \A c \in Calls : Kind(c) \in {"export", "admit", "read", "steward"} /\ call[c].pc = "done" =>
    \E d \in decls["local"] : d.author = plan.calls[c].author /\ d.role = Kind(c)
      /\ (d.id = call[c].event \/ \E e \in Calls \ {c} : call[e].event = d.id /\ call[e].when >= call[c].when)

\* A match is only reported while the admission pins the very export in force
\* at the relay that was asked: an export declared anew between the moment the
\* pin was read and the admission, or after it, shows as drift.
MatchedIsPinned ==
  \A c \in Calls : Kind(c) = "match" /\ call[c].verdict = "MATCHED" =>
    \E e, a \in call[c].saw :
      /\ e.role = "export" /\ a.role = "admit" /\ a.author \in e.offered
      /\ \A d \in call[c].saw : d.role = "export" /\ d # e => Later(e, d)
      /\ a.id \in {call[x].event : x \in {y \in Calls : call[y].pin = e.id}}
=============================================================================
