------------------------------ MODULE GitRepos ------------------------------
(***************************************************************************)
(* Repositories on the relay: the announcement (kind 30617) with its       *)
(* branch protection, which the CLI's `repos` commands read, rebuild and   *)
(* publish (buzz-cli/commands/repos.rs), the push policy computed from it  *)
(* (buzz-core/git_perms.rs), and the patches, pull requests, issues and    *)
(* statuses published about it (patches.rs, pr.rs, issues.rs and the       *)
(* builders of buzz-sdk).                                                  *)
(*                                                                         *)
(* A ref and a ref pattern are sequences of segments.  A tag is a record   *)
(* [name, arg, rules]; an announcement is the set of its tags with the     *)
(* second it claims and an id.  Several writers with one identity (one     *)
(* key on several machines) run one command each, interleaved between the  *)
(* read and the write.                                                     *)
(***************************************************************************)
EXTENDS Integers, Sequences, FiniteSets

CONSTANTS
    Plans,          \* what each writer runs, the pushes tried, the work published
    Ids,            \* event ids, numbers; the smaller one wins a tie
    MaxRules,       \* MAX_PROTECTION_RULES
    MaxWildcards,   \* MAX_WILDCARDS_PER_PATTERN
    MaxPattern,     \* MAX_PATTERN_LENGTH, in segments
    MaxTime

VARIABLES
    plan,     \* the situation, fixed at the start
    head,     \* the announcement the relay serves
    writers,  \* per writer: the phase, the head it read, the answer it got
    free,     \* ids not used yet
    clock,
    pushes,   \* the last push judged: the tags in force, the updates, the verdict
    work      \* published patches, pull requests, issues and statuses

vars == <<plan, head, writers, free, clock, pushes, work>>

NoHead == [id |-> 0, at |-> 0, tags |-> {}, base |-> 0, seen |-> 0, by |-> "nobody"]

MaxOf(S) == CHOOSE m \in S : \A n \in S : n <= m

---------------------------------------------------------------------------
(* Ref patterns.                                                           *)

Wild(seg) == seg \in {"*", "**"}

\* RefPattern::parse
PatternParses(p) ==
    /\ p # <<>> /\ Len(p) <= MaxPattern
    /\ p[1] = "refs"
    /\ \A i \in 1..Len(p) : p[i] \notin {"", "v*"} /\ (p[i] = "**" => i = Len(p))
    /\ Cardinality({i \in 1..Len(p) : Wild(p[i])}) <= MaxWildcards

SegmentsMatch(p, ref, n) == \A i \in 1..n : p[i] = "*" \/ p[i] = ref[i]

Matches_Deeper(p, ref) == Len(ref) >= Len(p) /\ SegmentsMatch(p, ref, Len(p) - 1)

\* RefPattern::matches: a final ** stands for one segment or more.
Matches(p, ref) ==
    IF p[Len(p)] = "**"
    THEN Len(ref) > Len(p) - 1 /\ SegmentsMatch(p, ref, Len(p) - 1)
    ELSE Len(ref) = Len(p) /\ SegmentsMatch(p, ref, Len(p))

---------------------------------------------------------------------------
(* Protection rules.                                                       *)

permission_level(role) ==
    CASE role = "owner" -> 4 [] role = "admin" -> 3 [] role = "member" -> 2
      [] role = "guest" -> 1 [] OTHER -> 0

PushWords == [w \in {"push:owner", "push:admin", "push:member"} |->
                CASE w = "push:owner" -> 4 [] w = "push:admin" -> 3 [] OTHER -> 2]

Protects(t) == t.name = "buzz-protect"

\* parse_protection_tag_with_warnings: unknown words are passed over; a role
\* that is unknown, or bot or guest, is an error.
TagParses(t) ==
    /\ t.rules # {}
    /\ PatternParses(t.arg)
    /\ t.rules \cap {"push:bot", "push:guest", "push:other"} = {}

Strictest_Weakest(levels) ==
    IF levels = {} THEN 0 ELSE CHOOSE l \in levels : \A m \in levels : l <= m

\* Of several push roles the highest counts; 0 is none.
Strictest(levels) == MaxOf({0} \cup levels)

Rule(t) ==
    [pattern |-> t.arg,
     push    |-> Strictest({PushWords[w] : w \in t.rules \cap DOMAIN PushWords}),
     noforce |-> "no-force-push" \in t.rules,
     nodel   |-> "no-delete" \in t.rules,
     patch   |-> "require-patch" \in t.rules]

\* parse_protection_tags
RulesParse(tags) ==
    LET protect == {t \in tags : Protects(t)}
    IN  Cardinality(protect) <= MaxRules /\ \A t \in protect : TagParses(t)

Rules(tags) == {Rule(t) : t \in {u \in tags : Protects(u)}}

---------------------------------------------------------------------------
(* The push policy.                                                        *)

\* UpdateKind::classify
classify(old, new, ancestor) ==
    IF old = 0 THEN "create" ELSE IF new = 0 THEN "delete"
    ELSE IF ancestor THEN "ff" ELSE "force"

\* default_min_role
default_min_role(ref, kind) ==
    LET branch == Len(ref) > 2 /\ ref[1] = "refs" /\ ref[2] = "heads"
        tag == Len(ref) > 2 /\ ref[1] = "refs" /\ ref[2] = "tags"
    IN  IF \/ kind = "create" /\ (branch \/ tag)
           \/ kind = "ff" /\ branch
        THEN 2 ELSE 3

\* EffectiveRules::for_ref: the union of every matching rule.
for_ref(ref, rules) ==
    LET m == {r \in rules : Matches(r.pattern, ref)}
    IN  [match   |-> m # {},
         push    |-> Strictest({r.push : r \in m}),
         noforce |-> \E r \in m : r.noforce,
         nodel   |-> \E r \in m : r.nodel,
         patch   |-> \E r \in m : r.patch]

min_role_Explicit(push, default) == IF push > 0 THEN push ELSE default

\* An explicit push role never weakens the built-in one.
min_role(push, default) == IF push >= default THEN push ELSE default

\* evaluate_ref_update
evaluate_ref_update(u, role, rules) ==
    LET e == for_ref(u.ref, rules)
        kind == classify(u.old, u.new, u.ancestor)
        default == default_min_role(u.ref, kind)
    IN  IF ~e.match THEN permission_level(role) >= default
        ELSE /\ ~e.patch
             /\ permission_level(role) >= min_role(e.push, default)
             /\ ~(e.noforce /\ kind = "force")
             /\ ~(e.nodel /\ kind = "delete")

evaluate_push_Each(updates, role, rules) ==
    \E u \in updates : evaluate_ref_update(u, role, rules)

\* evaluate_push: all of it or nothing.
evaluate_push(updates, role, rules) ==
    \A u \in updates : evaluate_ref_update(u, role, rules)

\* A git server that calls evaluate_push, which nothing in the repository but the
\* tests does: it judges a push by the announcement it has; rules that do not
\* parse leave it nothing to judge by.
push ==
    /\ head # NoHead
    /\ RulesParse(head.tags)
    /\ \E p \in plan.pushes :
         pushes' = {[tags |-> head.tags, push |-> p,
                     ok |-> evaluate_push(p.updates, p.role, Rules(head.tags))]}
    /\ UNCHANGED <<plan, head, writers, free, clock, work>>

---------------------------------------------------------------------------
(* The announcement.                                                       *)

Wins(e, h) == e.at > h.at \/ (e.at = h.at /\ e.id < h.id)

Publish(e) == head' = IF head = NoHead \/ Wins(e, head) THEN e ELSE head

\* How a relay answers a replaceable event that lost: hosted ones call it a
\* duplicate, portable ones accept it as superseded.
Answer(e) ==
    IF head = NoHead \/ Wins(e, head) THEN "ok"
    ELSE IF plan.portable THEN "superseded" ELSE "duplicate"

Reported_Accepted(answer) == "done"

\* validate_write_response
Reported(answer) == IF answer = "duplicate" THEN "conflict" ELSE "done"

Tick ==
    /\ clock < MaxTime
    /\ clock' = clock + 1
    /\ UNCHANGED <<plan, head, writers, free, pushes, work>>

Settle(w, phase) == writers' = [writers EXCEPT ![w].phase = phase]

\* build_repo_announcement: bounded name, description, URLs and relays.
build_repo_announcement(tags) == \A t \in tags : t.arg # <<"long">>

\* cmd_create_repo: the tags of the command line and the clock, whatever the
\* announcement held before.
cmd_create_repo(w) ==
    /\ plan.cmds[w].op = "create"
    /\ build_repo_announcement(plan.cmds[w].tags)
    /\ writers[w].phase = "start"
    /\ \E id \in free :
         LET e == [id |-> id, at |-> clock, base |-> 0, seen |-> 0, by |-> "create",
                   tags |-> {[name |-> "d", arg |-> <<"r">>, rules |-> {}]}
                            \cup plan.cmds[w].tags]
         IN  /\ Publish(e)
             /\ free' = free \ {id}
             /\ Settle(w, "done")
    /\ UNCHANGED <<plan, clock, pushes, work>>

\* build_protection_tag and RefPattern::parse come before the read.
ArgumentsParse(c) ==
    IF c.op = "set" THEN TagParses(c.tag) ELSE PatternParses(c.tag.arg)

refuse_arguments(w) ==
    /\ plan.cmds[w].op \in {"set", "remove"}
    /\ writers[w].phase = "start"
    /\ ~ArgumentsParse(plan.cmds[w])
    /\ Settle(w, "usage")
    /\ UNCHANGED <<plan, head, free, clock, pushes, work>>

\* current_repo, and for a removal that there is such a rule.
current_repo(w) ==
    LET c == plan.cmds[w]
        lacks == c.op = "remove" /\ ~\E t \in head.tags : Protects(t) /\ t.arg = c.tag.arg
    IN  /\ c.op \in {"set", "remove"}
        /\ writers[w].phase = "start"
        /\ ArgumentsParse(c)
        /\ writers' = [writers EXCEPT ![w] =
                         IF head = NoHead \/ lacks
                         THEN [phase |-> "not_found", read |-> NoHead]
                         ELSE [phase |-> "read", read |-> head]]
        /\ UNCHANGED <<plan, head, free, clock, pushes, work>>

Rebuilt_Fresh(c, old) ==
    {t \in old.tags : t.name = "d"} \cup (IF c.op = "set" THEN {c.tag} ELSE {})

\* build_updated_repo_announcement: everything read but the attestation and
\* the rules for this pattern, plus the replacement; one canonical d tag.
Rebuilt(c, old) ==
    {t \in old.tags : t.name # "auth" /\ ~(Protects(t) /\ t.arg = c.tag.arg)}
        \cup (IF c.op = "set" THEN {c.tag} ELSE {})

next_created_at_Now(old) == clock

\* Only the head that was read is advanced.
next_created_at(old) == old.at + 1

submit_repo_update(w) ==
    LET c == plan.cmds[w]
        old == writers[w].read
    IN  /\ writers[w].phase = "read"
        /\ IF ~RulesParse(Rebuilt(c, old))
           THEN Settle(w, "refused") /\ UNCHANGED <<head, free>>
           ELSE \E id \in free :
                  LET e == [id |-> id, at |-> next_created_at(old), base |-> old.id,
                            seen |-> old.at, by |-> "protect", tags |-> Rebuilt(c, old)]
                  IN  /\ Publish(e)
                      /\ free' = free \ {id}
                      /\ Settle(w, Reported(Answer(e)))
        /\ UNCHANGED <<plan, clock, pushes, work>>

---------------------------------------------------------------------------
(* Patches, pull requests, issues, statuses.  A key given on the command   *)
(* line is [key, upper]: hexadecimal in either case is accepted.           *)

lower(k) == [k EXCEPT !.upper = FALSE]

Coordinate_AsGiven(c) == <<c.owner, c.repo>>

\* GitRepoCoord::to_a_tag_value, by way of check_pubkey_hex
to_a_tag_value(c) == <<lower(c.owner), c.repo>>

\* The recipients of a status: the owner when the repository is named, then
\* every --to not there already.
StatusRecipients(c) == (IF c.repo # "none" THEN {lower(c.owner)} ELSE {})
                          \cup {lower(k) : k \in c.to}

\* check_content and check_commit_hex: bounded content, full commit ids.
FieldsCheck(c) == c.content # "huge" /\ c.commit # "short"

\* What each builder demands besides a coordinate.  Merge data goes with the
\* merged status only.
build_git_patch(c) == c.content # "" /\ ~(c.root /\ c.revision)
build_git_pull_request(c) == c.subject # "" /\ c.clone
build_git_pr_update(c) == c.clone
build_git_issue(c) == c.subject # ""
build_git_status(c) == c.merge => c.status \in {"merged", "resolved"}

Publishes(c, tags) ==
    /\ FieldsCheck(c)
    /\ \A e \in work : e.cmd # c
    /\ work' = work \cup {tags}
    /\ UNCHANGED <<plan, head, writers, free, clock, pushes>>

\* The tags patches, pull requests, their updates and issues share.
WorkEvent(c) == [cmd |-> c, kind |-> c.kind, a |-> {to_a_tag_value(c)},
                 p |-> {lower(c.owner)} \cup {lower(k) : k \in c.to}]

cmd_send_patch(c) == c.kind = "patch" /\ build_git_patch(c) /\ Publishes(c, WorkEvent(c))
cmd_open_pr(c) == c.kind = "pr" /\ build_git_pull_request(c) /\ Publishes(c, WorkEvent(c))
cmd_update_pr(c) == c.kind = "update" /\ build_git_pr_update(c) /\ Publishes(c, WorkEvent(c))
cmd_create_issue(c) == c.kind = "issue" /\ build_git_issue(c) /\ Publishes(c, WorkEvent(c))

\* The repository of a status is optional, so then are its coordinate and its
\* owner.
StatusEvent(c) == [cmd |-> c, kind |-> c.kind,
                   a |-> IF c.repo # "none" THEN {to_a_tag_value(c)} ELSE {},
                   p |-> StatusRecipients(c)]

cmd_patch_status(c) == c.kind = "patch_status" /\ build_git_status(c) /\ Publishes(c, StatusEvent(c))
cmd_pr_status(c) == c.kind = "pr_status" /\ build_git_status(c) /\ Publishes(c, StatusEvent(c))
cmd_issue_status(c) == c.kind = "issue_status" /\ ~c.merge /\ Publishes(c, StatusEvent(c))

\* The lists: the coordinate exactly as it was typed.
Of(kind, owner, repo) == {e \in work : e.kind = kind /\ <<owner, repo>> \in e.a}
cmd_list_patches(owner, repo) == Of("patch", owner, repo)
cmd_list_prs(owner, repo) == Of("pr", owner, repo)
cmd_list_issues(owner, repo) == Of("issue", owner, repo)

---------------------------------------------------------------------------

Init ==
    /\ plan \in Plans
    /\ head = plan.head
    /\ writers = [w \in DOMAIN plan.cmds |-> [phase |-> "start", read |-> NoHead]]
    /\ free = Ids \ {plan.head.id}
    /\ clock = plan.clock
    /\ pushes = {}
    /\ work = {}

Next ==
    \/ push \/ Tick
    \/ \E c \in plan.work :
         \/ cmd_send_patch(c) \/ cmd_open_pr(c) \/ cmd_update_pr(c)
         \/ cmd_create_issue(c) \/ cmd_patch_status(c)
         \/ cmd_pr_status(c) \/ cmd_issue_status(c)
    \/ \E w \in DOMAIN plan.cmds :
         \/ cmd_create_repo(w) \/ refuse_arguments(w) \/ current_repo(w)
         \/ submit_repo_update(w)

Spec == Init /\ [][Next]_vars

---------------------------------------------------------------------------
(* Properties.                                                             *)

\* A final ** as so many single-segment wildcards, one or more.
Expansions(p, n) ==
    IF p[Len(p)] # "**" THEN {p}
    ELSE {SubSeq(p, 1, Len(p) - 1) \o [i \in 1..k |-> "*"] : k \in 1..n}
Covers(p, ref) ==
    \E q \in Expansions(p, Len(ref)) :
      Len(q) = Len(ref) /\ \A i \in 1..Len(q) : q[i] \in {"*", ref[i]}

\* A push is let through exactly when no update of it is forbidden by any
\* rule whose pattern covers the ref or by the built-in role: rule by rule,
\* tag by tag, which is what evaluate_push computes by a union of rules and a
\* maximum of roles.
PushRespectsRules ==
    \A q \in pushes :
      LET level == permission_level(q.push.role)
          Forbids(t, u) ==
            /\ Covers(t.arg, u.ref)
            /\ \/ "require-patch" \in t.rules
               \/ \E w \in t.rules \cap DOMAIN PushWords : level < PushWords[w]
               \/ "no-force-push" \in t.rules /\ u.old # 0 /\ u.new # 0 /\ ~u.ancestor
               \/ "no-delete" \in t.rules /\ u.old # 0 /\ u.new = 0
          Unqualified(u) ==
            \/ level < 2
            \/ level < 3 /\ ~(/\ u.ref[2] \in {"heads", "tags"}
                              /\ u.old = 0 \/ (u.new # 0 /\ u.ancestor /\ u.ref[2] = "heads"))
      IN  q.ok <=> \A u \in q.push.updates :
                     /\ ~Unqualified(u)
                     /\ \A t \in q.tags : Protects(t) => ~Forbids(t, u)

\* A protection command that becomes the head kept every tag of the
\* announcement it was built from, other than the attestation and the rules
\* for its own pattern, and the repository keeps one name.
MetadataKept ==
    \A w \in DOMAIN plan.cmds :
      (head.by = "protect" /\ head.base = writers[w].read.id /\ writers[w].phase = "done") =>
        /\ \A t \in writers[w].read.tags :
             (t.name \in {"d", "clone", "name"}
                \/ (Protects(t) /\ \A v \in DOMAIN plan.cmds : plan.cmds[v].tag.arg # t.arg))
               => t \in head.tags
        /\ Cardinality({t \in head.tags : t.name = "d"}) = 1
        /\ RulesParse(head.tags)

\* A delayed protection command never leapfrogs updates it has not seen: the
\* head it replaces is at most one second newer than the announcement it was
\* built from (build_updated_repo_announcement advances the observed head by
\* one, never to the clock).
NoLeapfrog ==
    [][(head' # head /\ head'.by = "protect") => head'.seen >= head.at - 1]_vars

\* On a relay that calls a lost replacement a duplicate, a writer told its
\* rule is set wrote the head, at the moment of the answer.
SetIsHead ==
    [][\A w \in DOMAIN plan.cmds :
         (writers[w].phase = "read" /\ writers'[w].phase = "done" /\ ~plan.portable) =>
            /\ head'.base = writers[w].read.id
            /\ plan.cmds[w].op = "set" => plan.cmds[w].tag \in head'.tags]_vars

\* Whatever case the owner's key was typed in when a patch, pull request or
\* issue was published, listing the repository by the key in lower case finds
\* it, its owner is notified, and another repository's list does not show it.
WorkFound ==
    \A e \in work :
      LET listed == CASE e.kind = "patch" -> cmd_list_patches(lower(e.cmd.owner), e.cmd.repo)
                      [] e.kind = "pr" -> cmd_list_prs(lower(e.cmd.owner), e.cmd.repo)
                      [] e.kind = "issue" -> cmd_list_issues(lower(e.cmd.owner), e.cmd.repo)
                      [] OTHER -> {e}
      IN  /\ e \in listed
          /\ e.cmd.repo # "none" => lower(e.cmd.owner) \in e.p
          /\ \A f \in listed : f.cmd.repo = e.cmd.repo
=============================================================================
