----------------------------- MODULE MCClients -----------------------------
(***************************************************************************)
(* The programs of one invocation for TLC: the pairing programs, buzz-cli's *)
(* commands and the git helpers.  They meet at the relay, which each one's *)
(* model holds as far as it uses it, so a behaviour follows one of them,   *)
(* chosen at the start, through one of its plans.                          *)
(***************************************************************************)
EXTENDS Integers, Sequences, FiniteSets

\* The two ends of a pairing.
CONSTANTS Source, Targets, NoDevice, MaxFaults, MaxStray
VARIABLES dev, shown, yes, last, strays, pairFaults
Pair == INSTANCE Pairing WITH Nobody <- NoDevice, faults <- pairFaults
pairVars == <<dev, shown, yes, last, strays, pairFaults>>
ASSUME DevicesFit == Pair!DevicesDistinct

\* The relay they pair over.
CONSTANTS MaxConns, ChannelCap, MaxPerP, DedupCap, MapCap, Ttl, Freshness, RateWindow, RateMsgMax,
          RateEventMax
VARIABLES slotPlan, slotNow, count, conns, subs, seen, delivered, handed
slotVars == <<slotPlan, slotNow, count, conns, subs, seen, delivered, handed>>
Sends(op, id, p, at, ok) == [op |-> op, id |-> id, p |-> p, at |-> at, ok |-> ok]
REQ(p) == Sends("REQ", "-", p, 1, TRUE)
CLOSE == Sends("CLOSE", "-", "none", 1, TRUE)
EVENT(id, p, at) == Sends("EVENT", id, p, at, TRUE)
Other(op) == Sends(op, "-", "none", 1, TRUE)
Visit(f, m, t) == [frames |-> f, max |-> m, time |-> t]
\* A subscriber and an event from the future; two that ask for one key and two
\* copies of an event; a subscription closed and taken; frames over the rate;
\* events over the caps.
Visits == {
  Visit([a |-> {REQ("x")}, b |-> {EVENT("e1", "x", 2)}], 2, 3),
  Visit([a |-> {REQ("x"), CLOSE}, b |-> {REQ("x"), EVENT("e1", "x", 1)}, c |-> {EVENT("e1", "x", 1)}],
        1, 1),
  Visit([a |-> {REQ("x"), CLOSE}, b |-> {REQ("x"), EVENT("e1", "x", 1)}], 2, 1),
  Visit([a |-> {REQ("x"), Other("TEXT"), Other("PING"), Other("BINARY")}], 3, 3),
  Visit([a |-> {REQ("x"), Sends("REQ", "-", "y", 1, FALSE), EVENT("e1", "x", 1), EVENT("e2", "x", 1),
                EVENT("e3", "x", 3), EVENT("e4", "y", 1)}], 4, 1)}
Slots == INSTANCE PairRelay WITH
  plan <- slotPlan, now <- slotNow, Scenarios <- Visits, MaxEvents <- 3
ASSUME SlotsFit == Slots!ConstantsFit

\* Work handed over between agents, and the state read back from it.
CONSTANTS Nodes, MaxEvents, MaxTargets
VARIABLES handPlan, journal, pushed, cloud, blobs, handNow, handCall, handFaults
handVars == <<handPlan, journal, pushed, cloud, blobs, handNow, handCall, handFaults>>
Opened == [id |-> 1, kind |-> "open", key |-> "o", at |-> 2, ctx |-> "c", root |-> 0, link |-> 0,
           targets |-> {}, claimants |-> {"a", "b"}, hashes |-> {}, ok |-> TRUE]
Claimed == [Opened EXCEPT !.id = 2, !.kind = "claim", !.key = "a", !.at = 3, !.root = 1,
                          !.claimants = {}]
Broken(i, ctx) == [Opened EXCEPT !.id = i, !.ok = FALSE, !.ctx = ctx, !.at = 3]
Hand(kind, node, key) ==
  [kind |-> kind, node |-> node, key |-> key, open |-> 1, hashes |-> {}, targets |-> {},
   claimants |-> {}, ctx |-> "c", ok |-> TRUE]
With(call, hashes) == [call EXCEPT !.hashes = hashes]
Ack(node, key, t) == [Hand("ack", node, key) EXCEPT !.targets = t]
Passing(start, calls, m, n, ticks, up, f) ==
  [start |-> start, calls |-> calls, now |-> [x \in Nodes |-> IF x = "m" THEN m ELSE n],
   ticks |-> ticks, up |-> up, faults |-> f, owner |-> [k \in {"o", "a", "b"} |-> "o"],
   limit |-> [k \in {"o", "a", "b"} |-> IF k = "b" THEN 4 ELSE 0]]
\* Two claimants, also under skewed clocks; two returns and closes; artifacts
\* announced, returned and synchronised; acknowledged invalid events; opens.
Handoffs == {
  Passing({Opened}, <<Hand("claim", "m", "a"), Hand("claim", "n", "b"), Hand("return", "m", "a"),
                      Hand("close", "m", "o")>>, 3, 2, 0, TRUE, 1),
  Passing({Opened}, <<Hand("claim", "m", "a"), Hand("claim", "n", "a"), Hand("return", "m", "a"),
                      Hand("close", "m", "o")>>, 6, 3, 0, TRUE, 0),
  Passing({Opened, Claimed}, <<Hand("return", "m", "a"), Hand("return", "n", "a"),
                               Hand("close", "m", "o"), Hand("close", "n", "o")>>, 3, 4, 0, FALSE, 0),
  Passing({Opened, Claimed},
          <<With(Hand("announce", "m", "a"), {"x"}), With(Hand("return", "m", "a"), {"x"}),
            Hand("close", "n", "o"), Hand("artifact_sync", "n", "o")>>, 4, 4, 0, TRUE, 1),
  Passing({Opened, Claimed},
          <<With(Hand("announce", "m", "a"), {"x"}), With(Hand("return", "n", "a"), {"x"}),
            Hand("artifact_sync", "n", "o"), Hand("close", "n", "o")>>, 4, 4, 0, TRUE, 1),
  Passing({[Broken(1, "c") EXCEPT !.at = 2], Broken(2, "c")},
          <<Ack("m", "o", {1, 2}), Ack("n", "o", {2})>>, 3, 4, 1, TRUE, 1),
  Passing({Broken(2, "c"), Broken(3, "d")}, <<Ack("m", "o", {2, 3}), Ack("n", "b", {2})>>,
          3, 3, 1, TRUE, 0),
  Passing({Opened},
          <<[Hand("open", "m", "o") EXCEPT !.claimants = {"a"}, !.ok = FALSE],
            [Hand("open", "n", "b") EXCEPT !.claimants = {"a"}, !.hashes = {"x"}],
            Hand("claim", "n", "b"), With(Hand("artifact_sync", "n", "o"), {"x"})>>, 3, 3, 1, TRUE, 0)}
Hands == INSTANCE Handoff WITH
  plan <- handPlan, now <- handNow, call <- handCall, faults <- handFaults, Plans <- Handoffs

\* A context on one machine: profile, data roots, opt-in, declarations.
VARIABLES ctxPlan, disk, root, posts, decls, up, ctxClock, ctxCall, budget
ctxVars == <<ctxPlan, disk, root, posts, decls, up, ctxClock, ctxCall, budget>>
Does(k) ==
  [kind |-> k, apply |-> TRUE, opt |-> "p", slug |-> "s", author |-> "a", offered |-> {"b"}]
By(k, author) == [Does(k) EXCEPT !.author = author]
Legacy == [root |-> "legacy", opt |-> "p", by |-> 0]
Fresh == [calls |-> <<>>, profile |-> [root |-> "none", opt |-> "none", by |-> 0],
          legacy |-> TRUE, data |-> FALSE, explicit |-> FALSE, cloud |-> FALSE, foreign |-> {}, kills |-> 0,
          flaps |-> 0, ticks |-> FALSE, solo |-> FALSE]
\* Migrations, two and three at once, killed and over an existing profile; inits, killed and
\* with a relay that comes and goes; declarations, matched by their peers.
Contexts == {
  [Fresh EXCEPT !.calls = <<Does("migrate"), [Does("migrate") EXCEPT !.opt = "q"], Does("init")>>,
                !.kills = 1, !.flaps = 1],
  [Fresh EXCEPT !.calls = <<Does("migrate"), Does("migrate"), Does("export"),
                            [Does("migrate") EXCEPT !.apply = FALSE]>>, !.kills = 1],
  [Fresh EXCEPT !.calls = <<Does("migrate"), Does("migrate"), Does("migrate"), Does("export")>>,
                !.kills = 1],
  [Fresh EXCEPT !.calls = <<Does("migrate"), Does("init"), Does("export")>>,
                !.profile = [root |-> "data", opt |-> "h", by |-> 0], !.flaps = 1],
  [Fresh EXCEPT !.calls = <<Does("init"), Does("migrate"), Does("match")>>, !.legacy = FALSE,
                !.explicit = TRUE],
  [Fresh EXCEPT !.calls = <<Does("init"), Does("init")>>, !.profile = Legacy, !.kills = 1],
  [Fresh EXCEPT !.calls = <<Does("init"), Does("init"), [Does("init") EXCEPT !.slug = "t"]>>,
                !.profile = Legacy, !.kills = 2, !.flaps = 3, !.solo = TRUE],
  [Fresh EXCEPT !.calls = <<Does("init"), Does("init")>>, !.profile = Legacy, !.cloud = TRUE,
                !.kills = 1, !.flaps = 2, !.solo = TRUE],
  [Fresh EXCEPT !.calls = <<Does("export"), By("admit", "b"), Does("export"), Does("match")>>,
                !.profile = Legacy, !.ticks = TRUE],
  [Fresh EXCEPT !.calls = <<Does("export"), By("admit", "b"), Does("match")>>, !.profile = Legacy,
                !.cloud = TRUE, !.flaps = 1],
  [Fresh EXCEPT !.calls = <<Does("export"), By("read", "b"), Does("steward"), By("export", "b"),
                            Does("match")>>, !.profile = Legacy]}
Context == INSTANCE ContextNode WITH
  plan <- ctxPlan, clock <- ctxClock, call <- ctxCall, Plans <- Contexts, MaxTime <- 3

\* buzz-cli's HTTP and WebSocket client.
CONSTANTS MaxAttempts, PageSize
VARIABLES cliPlan, cmd, cliRelay, cliFaults, page, ws
cliVars == <<cliPlan, cmd, cliRelay, cliFaults, page, ws>>
Stored(a, i) == [at |-> a, id |-> i, address |-> 0]
Addressed(a, i) == [at |-> a, id |-> i, address |-> 1]
Asks(op, f) == [op |-> op, faults |-> f, reruns |-> 0, modern |-> TRUE, events |-> {},
                arrivals |-> {}, limit |-> 0, sends |-> 0]
Exchanges == {
  [Asks("stored", 4) EXCEPT !.reruns = 1], [Asks("moderation", 4) EXCEPT !.reruns = 1],
  [Asks("upload", 3) EXCEPT !.reruns = 1], [Asks("upload", 3) EXCEPT !.modern = FALSE],
  [Asks("pages", 1) EXCEPT
     !.events = {Stored(1, 1), Stored(2, 2), Stored(2, 3), Stored(2, 4), Stored(3, 1)},
     !.arrivals = {Stored(2, 1), Stored(4, 1), Stored(1, 2)}],
  [Asks("pages", 1) EXCEPT
     !.events = {Stored(3, 1), Stored(3, 2), Stored(2, 3), Addressed(2, 5), Stored(1, 6)},
     !.arrivals = {Addressed(2, 4), Addressed(4, 7), Stored(2, 8)}],
  [Asks("pages", 3) EXCEPT
     !.events = {Stored(1, 1), Stored(1, 2), Stored(1, 3), Stored(1, 4)}, !.limit = 3],
  [Asks("ephemeral", 1) EXCEPT !.sends = 5]}
Client == INSTANCE CliClient WITH
  plan <- cliPlan, relay <- cliRelay, faults <- cliFaults, Plans <- Exchanges

\* Its read-modify-write commands.
CONSTANTS Writers
VARIABLES writePlan, writeLog, writeNow, writeCall, writeFaults
writeVars == <<writePlan, writeLog, writeNow, writeCall, writeFaults>>
Held(i, a, b) == [id |-> i, at |-> a, by |-> 0, ok |-> TRUE, body |-> b]
Unreadable == [Held(2, 1, [tomb |-> FALSE, lines |-> <<>>]) EXCEPT !.ok = FALSE]
Mem(l) == [tomb |-> FALSE, lines |-> l]
Runs(c, arg, skew, after) ==
  [cmd |-> c, arg |-> arg, skew |-> skew, after |-> after, piped |-> FALSE]
Piped(c) == [Runs(c, <<>>, 0, FALSE) EXCEPT !.piped = TRUE]
Nothing == [cmd |-> "none"]
Writing(what, relay, init, calls, f, t) ==
  [what |-> what, relay |-> relay, init |-> init, calls |-> calls, faults |-> f, time |-> t]
Hunk(s, pre, post) == [start |-> s, pre |-> pre, post |-> post]
Note(t, keep, tags) == [title |-> t, keep |-> keep, tags |-> tags]
Codes(s, replace) == [codes |-> s, replace |-> replace]
\* Memory set, removed and patched by several calls under skewed clocks; the
\* core memory's section; notes; emoji lists; a profile.
Writes == {
  Writing("mem", "portable", {Held(2, 2, Mem(<<1, 2>>))},
          <<Runs("mem_set", <<3>>, 1, FALSE), Runs("mem_rm", <<>>, 0, FALSE), Nothing>>, 1, 2),
  Writing("mem", "portable", {Held(2, 1, Mem(<<1, 2>>))},
          <<Runs("mem_patch", Hunk(2, <<2>>, <<3>>), 0, FALSE), Runs("mem_set", <<1, 2, 2>>, 1, FALSE),
            Runs("mem_patch", Hunk(1, <<2>>, <<>>), 0, TRUE)>>, 0, 2),
  Writing("mem", "hosted", {},
          <<Runs("mem_set", <<1>>, 1, FALSE), Runs("mem_set", <<2>>, 0, FALSE),
            Runs("mem_patch", Hunk(1, <<1>>, <<>>), 0, FALSE)>>, 0, 2),
  Writing("mem", "portable", {Held(2, 1, Mem(<<1>>))},
          <<Piped("mem_set"), Runs("mem_set", <<>>, 0, FALSE),
            Runs("mem_patch", Hunk(1, <<1>>, <<2>>), 0, FALSE)>>, 0, 2),
  Writing("core", "hosted", {Unreadable},
          <<Runs("core_section", <<>>, 0, FALSE), Runs("mem_set", <<1>>, 0, FALSE),
            Runs("mem_rm", <<>>, 0, FALSE)>>, 1, 2),
  Writing("core", "portable", {Unreadable},
          <<Runs("core_section", <<>>, 0, FALSE), Runs("mem_set", <<1>>, 0, FALSE), Nothing>>, 1, 1),
  Writing("note", "hosted", {},
          <<Runs("note_set", Note(1, TRUE, {}), 1, FALSE), Runs("note_set", Note(0, TRUE, {}), 0, FALSE),
            Runs("note_set", Note(2, FALSE, {1}), 0, FALSE)>>, 0, 2),
  Writing("emoji", "portable", {Held(2, 1, {<<1, 0>>, <<2, 0>>})},
          <<Runs("emoji_set", 1, 0, FALSE), Runs("emoji_import", Codes({1, 3}, FALSE), 0, FALSE),
            Runs("emoji_rm", 3, 1, FALSE)>>, 0, 2),
  Writing("emoji", "portable", {},
          <<Runs("emoji_import", Codes({1}, TRUE), 0, FALSE), Runs("emoji_rm", 1, 0, TRUE), Nothing>>,
          1, 2),
  Writing("profile", "portable", {Held(2, 1, [display |-> 0, about |-> 9, name |-> 9])},
          <<Runs("profile_set", {"about"}, 0, FALSE), Runs("profile_set", {"display"}, 0, FALSE),
            Nothing>>, 1, 2)}
Writer == INSTANCE CliWrites WITH
  Calls <- Writers, plan <- writePlan, log <- writeLog, now <- writeNow, call <- writeCall, faults <- writeFaults,
  Plans <- Writes

\* The git signing and credential helpers.
CONSTANTS MaxDamage
VARIABLES signPlan, env, signNow, object, made, check, cred, signLeft
signVars == <<signPlan, env, signNow, object, made, check, cred, signLeft>>
Tag(o, k, c) == [owner |-> o, conds |-> c, sig |-> [key |-> o, over |-> <<k, c>>], form |-> "ok"]
Bare == [args |-> "git", shim |-> FALSE, nostr |-> "none", buzz |-> "none",
         keyfile |-> [key |-> "none", kind |-> "absent"], signingkey |-> "none", tagenv |-> <<>>,
         tagconf |-> <<>>, conferror |-> FALSE, othertag |-> <<>>, payload |-> <<"tree", "x">>,
         oversized |-> FALSE, signfd |-> 2, verifyfd |-> "open", requests |-> {}]
Req(a, c, p) == [authtype |-> a, challenge |-> c, path |-> p]
Reqs == {Req(TRUE, TRUE, <<"r", "info/refs">>), Req(TRUE, TRUE, <<"r", "git-receive-pack">>)}
\* Keys from each source, alone and together; attestations that hold until or
\* from a time, of another key, of another form; closed descriptors.
Signings == {
  [Bare EXCEPT !.nostr = "k1", !.tagenv = <<Tag("o", "k1", {<<"lt", 3>>})>>,
               !.othertag = <<Tag("o", "k1", {<<"odd", 0>>})>>],
  [Bare EXCEPT !.shim = TRUE, !.nostr = "k1", !.requests = Reqs \cup {Req(FALSE, TRUE, <<"r", "">>)}],
  [Bare EXCEPT !.shim = TRUE, !.nostr = "k1", !.buzz = "k2", !.requests = Reqs],
  [Bare EXCEPT !.shim = TRUE, !.nostr = "k1", !.buzz = "k1", !.signfd = 1,
               !.tagconf = <<Tag("o", "k1", {<<"gt", 1>>, <<"kind", 1>>})>>],
  [Bare EXCEPT !.keyfile = [key |-> "k1", kind |-> "link"], !.requests = Reqs],
  [Bare EXCEPT !.keyfile = [key |-> "k1", kind |-> "mid"], !.verifyfd = "closed",
               !.requests = {Req(TRUE, FALSE, <<"r", "">>)}],
  [Bare EXCEPT !.keyfile = [key |-> "k1", kind |-> "mode"],
               !.requests = Reqs \cup {Req(TRUE, FALSE, <<>>)}],
  [Bare EXCEPT !.buzz = "k1", !.signingkey = "k1", !.tagconf = <<Tag("o", "k2", {})>>,
               !.requests = {Req(TRUE, TRUE, <<>>)}],
  [Bare EXCEPT !.nostr = "k1", !.args = "twice"],
  [Bare EXCEPT !.nostr = "k1", !.tagenv = <<Tag("o", "k1", {<<"kind", 1>>})>>,
               !.othertag = <<Tag("o", "k1", {})>>],
  [Bare EXCEPT !.buzz = "k1", !.signingkey = "odd", !.conferror = TRUE],
  [Bare EXCEPT !.buzz = "k1", !.signingkey = "k1",
               !.tagenv = <<[Tag("o", "k1", {}) EXCEPT !.form = "shape"]>>, !.requests = Reqs]}
Sign == INSTANCE GitSign WITH
  plan <- signPlan, now <- signNow, left <- signLeft, Plans <- Signings, MaxTime <- 3

\* Repository announcements, protection rules, pushes, and work on a repository.
CONSTANTS RepoIds, MaxRules, MaxWildcards
VARIABLES repoPlan, head, writers, free, repoClock, pushes, work
repoVars == <<repoPlan, head, writers, free, repoClock, pushes, work>>
Branch(x) == <<"refs", "heads", x>>
Protect(p, r) == [name |-> "buzz-protect", arg |-> p, rules |-> r]
Plain(n, a) == [name |-> n, arg |-> <<a>>, rules |-> {}]
SetRule(p, r) == [op |-> "set", tag |-> Protect(p, r), tags |-> {}]
Remove(p) == [op |-> "remove", tag |-> Protect(p, {}), tags |-> {}]
Create(t) == [op |-> "create", tag |-> Plain("none", "none"), tags |-> t]
Announced(tags) == [id |-> 5, at |-> 1, tags |-> {Plain("d", "r"), Plain("clone", "u")} \cup tags,
               base |-> 0, seen |-> 0, by |-> "create"]
Update(ref, m) == [ref |-> ref, old |-> m[1], new |-> m[2], ancestor |-> m[3]]
Pushes(roles, refs, moves) ==
  {[role |-> r, updates |-> {Update(f, m)}] : r \in roles, f \in refs, m \in moves}
Both(r) == [role |-> r, updates |-> {Update(Branch("main"), <<1, 2, FALSE>>),
                                     Update(Branch("x"), <<0, 1, FALSE>>)}]
Quiet == [portable |-> FALSE, head |-> Announced({}), cmds |-> <<>>, clock |-> 2, pushes |-> {}, work |-> {}]
Key(k, u) == [key |-> k, upper |-> u]
Item(kind, o, r) ==
  [kind |-> kind, owner |-> o, repo |-> r, to |-> {Key("b", TRUE)}, content |-> "x",
   subject |-> "s", clone |-> TRUE, commit |-> "full", root |-> TRUE, revision |-> FALSE,
   status |-> "open", merge |-> FALSE]
deep == <<"refs", "heads", "x", "y">>
Roles == {"owner", "admin", "member"}
Ruled == Announced({Plain("auth", "o"), Protect(Branch("main"), {"no-delete", "push:admin"})})
upperA == Key("a", TRUE)
\* Writers that race on an announcement at both kinds of relay; pushes under
\* overlapping, nested and wildcard rules; patches, pull requests and issues.
Repos == {
  [Quiet EXCEPT !.head = Ruled,
     !.cmds = <<SetRule(Branch("main"), {"push:owner", "no-force-push"}),
                SetRule(Branch("*"), {"require-patch"}), Remove(Branch("main"))>>],
  [Quiet EXCEPT !.portable = TRUE, !.head = Ruled,
     !.cmds = <<SetRule(Branch("*"), {"no-delete", "later-rule"}), Remove(Branch("main")),
                Create({Plain("name", "n")}), Create({Plain("name", "long")})>>],
  [Quiet EXCEPT !.head = [id |-> 0, at |-> 0, tags |-> {}, base |-> 0, seen |-> 0, by |-> "nobody"],
     !.cmds = <<Create({Plain("clone", "v")}), SetRule(Branch("main"), {"push:member"}),
                SetRule(Branch("v*"), {"push:member"})>>,
     !.pushes = Pushes(Roles, {Branch("main")}, {<<1, 2, FALSE>>}) \cup {Both("member")}],
  [Quiet EXCEPT !.head = Announced({Protect(Branch("x"), {"push:guest"})}),
     !.cmds = <<SetRule(Branch("main"), {"push:owner"}), SetRule(Branch("x"), {}), Remove(Branch("x"))>>],
  [Quiet EXCEPT !.cmds = <<SetRule(deep \o <<"z">>, {"no-delete"}), SetRule(deep, {"no-delete"})>>],
  [Quiet EXCEPT
     !.head = Announced({Protect(Branch("*"), {"push:member"}),
                    Protect(Branch("main"), {"push:owner", "push:member"})}),
     !.cmds = <<SetRule(<<"refs", "tags", "**">>, {"no-delete"}), SetRule(Branch("y"), {"require-patch"})>>,
     !.pushes = Pushes(Roles, {Branch("main")}, {<<1, 2, TRUE>>})],
  [Quiet EXCEPT
     !.head = Announced({Protect(<<"refs", "heads", "**">>, {"no-force-push"}),
                    Protect(<<"refs", "*", "v">>, {"no-delete", "push:owner"})}),
     !.pushes = Pushes(Roles, {deep, <<"refs", "tags", "v">>}, {<<1, 2, FALSE>>, <<1, 0, FALSE>>})],
  [Quiet EXCEPT
     !.head = Announced({Protect(<<"refs", "heads", "*">>, {"no-force-push"}),
                    Protect(Branch("z"), {"require-patch"})}),
     !.pushes = {Both(r) : r \in Roles} \cup
                Pushes({"member", "admin"}, {deep, <<"refs", "notes", "n">>},
                       {<<1, 2, FALSE>>, <<1, 2, TRUE>>})],
  [Quiet EXCEPT !.work =
     {Item("patch", upperA, "r"), Item("pr", Key("a", FALSE), "q"), Item("issue", upperA, "q"),
      [Item("patch_status", upperA, "none") EXCEPT !.merge = TRUE, !.status = "merged"],
      Item("pr_status", upperA, "r"), Item("issue_status", upperA, "r"),
      [Item("pr_status", upperA, "r") EXCEPT !.merge = TRUE],
      [Item("update", upperA, "r") EXCEPT !.clone = FALSE], Item("update", upperA, "r"),
      [Item("issue", upperA, "q") EXCEPT !.content = "huge"]}]}
Repo == INSTANCE GitRepos WITH
  Ids <- RepoIds, plan <- repoPlan, clock <- repoClock, Plans <- Repos, MaxTime <- 4, MaxPattern <- 4

\* Channel and membership commands, and channels from templates.
CONSTANTS MaxTtl, MaxReruns
VARIABLES chanPlan, chanRelay, chanRun, chanLeft, old
chanVars == <<chanPlan, chanRelay, chanRun, chanLeft, old>>
Agent(k, p) == [key |-> k, persona |-> p]
Cmd(op) == [op |-> op, template |-> "t", type |-> "stream", visibility |-> "open", ttl |-> <<>>,
            nottl |-> FALSE, name |-> "none", about |-> "none", text |-> "x", who |-> "you",
            role |-> "none", policy |-> "anyone", member |-> TRUE, limit |-> 5, all |-> FALSE,
            prompt |-> "none", model |-> "none"]
Chan(n, t, m) == [members |-> m, canvas |-> "none", name |-> n, about |-> "none", topic |-> "none",
                  purpose |-> "none", ttl |-> <<5>>, archived |-> FALSE, tag |-> t]
Town == [cmd |-> Cmd("template"), templates |-> {"t"}, personas |-> {"p"}, teams |-> <<>>,
         team |-> [t1 |-> {"q"}], agents |-> {Agent("a", "p")}, archived |-> {}, snapshot |-> "good",
         canvas |-> FALSE,
         before |-> <<Chan("n", "public", {"me", "you"}), Chan("m", "private", {"you"})>>,
         owner |-> TRUE, allowed |-> {}, profile |-> <<>>, faults |-> 1, later |-> {}, laterkeys |-> {}]
Single(c) == [Town EXCEPT !.cmd = c]
\* Templates with ambiguous, archived and late agents; every other command.
Towns == {
  [Town EXCEPT !.personas = {"p", "r"}, !.teams = <<"t1">>, !.archived = {"c"}, !.canvas = TRUE,
     !.agents = {Agent("a", "p"), Agent("b", "q"), Agent("c", "q")}, !.faults = 2],
  [Town EXCEPT !.agents = {Agent("a", "p"), Agent("b", "p")}, !.archived = {"a"},
     !.later = {Agent("d", "p")}, !.laterkeys = {"b"}],
  [Town EXCEPT !.agents = {Agent("a", "p"), Agent("b", "p")}, !.archived = {"a", "b"},
     !.snapshot = "forged"],
  [Town EXCEPT !.archived = {"a"}, !.snapshot = "untagged"],
  [Town EXCEPT !.snapshot = "absent", !.teams = <<"t2">>], [Town EXCEPT !.archived = {"a"}, !.faults = 0],
  [Town EXCEPT !.personas = {}, !.canvas = TRUE], [Town EXCEPT !.templates = {}],
  Single([Cmd("template") EXCEPT !.name = "#"]), Single([Cmd("template") EXCEPT !.ttl = <<0>>]),
  Single([Cmd("list") EXCEPT !.member = FALSE, !.visibility = "private"]),
  Single([Cmd("list") EXCEPT !.visibility = "none", !.member = FALSE, !.limit = 1]),
  Single([Cmd("search") EXCEPT !.name = "m"]), Single([Cmd("search") EXCEPT !.name = ""]),
  Single([Cmd("draft_update") EXCEPT !.model = "m"]), [Single(Cmd("draft_update")) EXCEPT !.owner = FALSE],
  Single([Cmd("update") EXCEPT !.name = "m"]), Single([Cmd("update") EXCEPT !.nottl = TRUE, !.about = "x"]),
  Single([Cmd("update") EXCEPT !.ttl = <<9>>]), Single([Cmd("update") EXCEPT !.ttl = <<3>>, !.nottl = TRUE]),
  [Single(Cmd("policy")) EXCEPT !.allowed = {"nobody"}],
  [Single(Cmd("archive_identity")) EXCEPT !.profile = <<"me">>],
  [Single(Cmd("unarchive_identity")) EXCEPT !.profile = <<"me", "x">>],
  Single([Cmd("archive_identity") EXCEPT !.who = "me"])} \cup
  {Single(Cmd(op)) : op \in {"list", "draft_create", "draft_update", "update", "topic", "purpose", "canvas",
                            "join", "leave", "add", "remove", "archive", "delete", "unarchive", "create",
                            "policy"}}
Chans == INSTANCE Channels WITH
  plan <- chanPlan, relay <- chanRelay, run <- chanRun, left <- chanLeft, Plans <- Towns

\* Messages: threads, mentions, authors, diffs.
CONSTANTS Uris, MentionCap, MaxDiff, Notice, ThreadLimit, ThreadMax, SearchLimit, MaxMessages
VARIABLES msgPlan, msgLog, msgRun, msgLeft
msgVars == <<msgPlan, msgLog, msgRun, msgLeft>>
Post(op) == [op |-> op, files |-> 0, text |-> <<"w">>, kind |-> "message", channel |-> 1, diff |-> <<>>,
             oneBranch |-> FALSE, metaValid |-> TRUE]
Talk(op) == [cmd |-> Post(op), commands |-> 1, others |-> 0, deletes |-> 0, faults |-> 0, reads |-> 0,
             limit |-> 0, depth |-> FALSE,
             profiles |-> [m1 |-> <<"ann">>, m2 |-> <<"ann", "sp", "lee">>, m3 |-> <<"bo">>],
             plain |-> [m1 |-> <<"x">>, m2 |-> <<"bo">>, m3 |-> <<"y">>]]
Texts == {
  <<"@", "ann", "sp", "lee", ",", "sp", "u1">>, <<"w", "@", "bo">>, <<"@", "bo", ".">>,
  <<"@", "bo", "tick">>, <<"@", "ann", "nl", "@", "bo", "sp", "u1", "u2">>,
  <<"u1", "tick", "u2", "tick", "u3">>, <<"tick", "u1", "nl", "u2", "tick">>,
  <<"u1", "nl", "fence", "w", "nl", "u2", "nl", "fence", "u3">>,
  <<"fence", "u1", "nl", "fence", "nl", "u2">>, <<"sp", "fence", "u2">>,
  <<"w", "fence", "u1", "tick", "u2", "tick">>,
  <<"@", "ann", "sp", "@", "ann", "sp", "lee", "sp", "@", "bo">>}
Diffs == [1..7 -> {"n", "a"}] \cup
         {<<"x", "c", "x", "c", "x", "c", "x">>, <<"x", "n", "a", "a", "c", "x", "x">>,
          <<"x", "x", "x", "x", "x">>, <<"a", "x", "n", "x", "a", "n", "x">>}
\* Replies to replies while others write and delete; texts with names, profile
\* references, code spans and fences; searches by author; diffs over the limit.
Talks == {
  [Talk("send") EXCEPT !.commands = 2, !.others = 2, !.reads = 1],
  [Talk("send") EXCEPT !.commands = 2, !.others = 1, !.deletes = 1, !.reads = 1, !.limit = 1],
  [Talk("send") EXCEPT !.commands = 2, !.faults = 1, !.reads = 1, !.limit = 9],
  [Talk("send") EXCEPT !.reads = 1, !.depth = TRUE],
  [Talk("send") EXCEPT !.others = 1, !.deletes = 1, !.faults = 1, !.cmd.files = 1, !.cmd.kind = "comment"],
  [Talk("send") EXCEPT !.cmd.kind = "post", !.others = 1, !.reads = 1],
  [Talk("send") EXCEPT !.cmd.kind = "x"],
  [Talk("edit") EXCEPT !.others = 1, !.deletes = 1, !.faults = 1],
  [Talk("vote") EXCEPT !.others = 1], [Talk("delete") EXCEPT !.others = 1],
  [Talk("search") EXCEPT !.cmd.text = <<"bo">>, !.faults = 1], [Talk("search") EXCEPT !.cmd.text = <<"ann">>],
  [Talk("search") EXCEPT !.cmd.text = <<"ann">>, !.plain.m3 = <<"ann">>],
  [Talk("diff") EXCEPT !.cmd.oneBranch = TRUE], [Talk("diff") EXCEPT !.cmd.metaValid = FALSE],
  [Talk("diff") EXCEPT !.faults = 1, !.others = 1, !.reads = 1]} \cup
  {[Talk("send") EXCEPT !.cmd.text = t, !.faults = 1] : t \in Texts} \cup
  {[Talk("diff") EXCEPT !.cmd.diff = d] : d \in Diffs}
Msgs == INSTANCE Messages WITH
  plan <- msgPlan, log <- msgLog, run <- msgRun, left <- msgLeft, Plans <- Talks

\* The context journal and the explorer.
VARIABLES jrnPlan, store, jrnClock, streams, jrnCmd, jrnLeft
jrnVars == <<jrnPlan, store, jrnClock, streams, jrnCmd, jrnLeft>>
Command(op, key) == [op |-> op, key |-> key, limit |-> 1, explicit |-> FALSE]
Elsewhere(r, k, key, c) == [relay |-> r, kind |-> k, key |-> key, ctx |-> c, open |-> FALSE]
Home(id, slug, links) == [opt |-> "good", id |-> id, slug |-> slug, paths |-> {}, links |-> links]
Journal(script) ==
  [rendezvous |-> TRUE, names |-> FALSE, lists |-> FALSE, default |-> TRUE, ctx |-> "c1",
   streams |-> "absent", paths |-> {"p", "q", "r", "j", "none"}, script |-> script, writes |-> {},
   edits |-> {}, faults |-> 0, ticks |-> FALSE,
   roots |-> <<[Home("c1", "a", {"p", "q"}) EXCEPT !.paths = {"r"}], Home("c2", "a", {"p"}),
               [Home("c3", "j", {}) EXCEPT !.opt = "junk", !.paths = {"j"}]>>]
\* Saves, loads and a removal with answers lost; a replication between them; a
\* selection file that is edited, one only listed, no rendezvous; the explorer
\* over contexts of every age, and each way of naming one.
Journals == {
  [Journal(<<Command("save", "s"), Command("load", "s"), Command("ls", "s"), Command("load", "bad")>>) EXCEPT
     !.faults = 1, !.writes = {Elsewhere("local", "tombstone", "s", "-"),
                               Elsewhere("cloud", "memory", "s", "-")}],
  [Journal(<<Command("save", "s"), Command("sync", "-"), Command("save", "s"), Command("load", "s")>>) EXCEPT
     !.faults = 1],
  [Journal(<<Command("log", "t"), Command("share", "t"), Command("sync", "-"), Command("sessions", "t")>>) EXCEPT
     !.names = TRUE, !.streams = "filter", !.edits = {"absent", "mirror", "junk"},
     !.writes = {Elsewhere("cloud", "session", "t", "c2")}],
  [Journal(<<Command("log", "t"), Command("sync", "-"), Command("sync", "-")>>) EXCEPT
     !.lists = TRUE, !.edits = {"filter"}],
  [Journal(<<Command("log", "t"), Command("sync", "-")>>) EXCEPT !.rendezvous = FALSE, !.default = FALSE],
  [Journal(<<Command("log", "t"), Command("explore", "all")>>) EXCEPT
     !.ticks = TRUE, !.faults = 1, !.writes = {Elsewhere("local", "session", "t", "c1"),
                                               Elsewhere("cloud", "session", "t", "c2")}]} \cup
  {[Journal(<<Command("log", "t"), Command("explore", k)>>) EXCEPT !.faults = 1, !.rendezvous = z] :
     k \in {"p", "q", "r", "j", "none", "a", "c1", "c3"}, z \in BOOLEAN} \cup
  {[Journal(<<Command("explore", "all")>>) EXCEPT !.faults = 4]}
Jrn == INSTANCE ContextJournal WITH
  plan <- jrnPlan, clock <- jrnClock, cmd <- jrnCmd, left <- jrnLeft, Plans <- Journals,
  FreshAge <- 1, AccretingAge <- 2, StaleAge <- 3, MaxTime <- 5

VARIABLE focus
vars == <<focus, pairVars, slotVars, handVars, ctxVars, cliVars, writeVars, signVars, repoVars, chanVars, msgVars,
          jrnVars>>

\* A component that is not followed starts with a plan of its own.
Some(x, plans) == x = CHOOSE p \in plans : TRUE
Init ==
  /\ focus \in {"pair", "slot", "hand", "ctx", "cli", "write", "sign", "repo", "chan", "msg", "jrn"}
  /\ Pair!Init
  /\ Slots!Init /\ (focus # "slot" => Some(slotPlan, Visits))
  /\ Hands!Init /\ (focus # "hand" => Some(handPlan, Handoffs))
  /\ Context!Init /\ (focus # "ctx" => Some(ctxPlan, Contexts))
  /\ Client!Init /\ (focus # "cli" => Some(cliPlan, Exchanges))
  /\ Writer!Init /\ (focus # "write" => Some(writePlan, Writes))
  /\ Sign!Init /\ (focus # "sign" => Some(signPlan, Signings))
  /\ Repo!Init /\ (focus # "repo" => Some(repoPlan, Repos))
  /\ Chans!Init /\ (focus # "chan" => Some(chanPlan, Towns))
  /\ Msgs!Init /\ (focus # "msg" => Some(msgPlan, Talks))
  /\ Jrn!Init /\ (focus # "jrn" => Some(jrnPlan, Journals))

Next ==
  \/ focus = "pair" /\ Pair!Next
     /\ UNCHANGED <<focus, slotVars, handVars, ctxVars, cliVars, writeVars, signVars, repoVars, chanVars, msgVars, jrnVars>>
  \/ focus = "slot" /\ Slots!Next
     /\ UNCHANGED <<focus, pairVars, handVars, ctxVars, cliVars, writeVars, signVars, repoVars, chanVars, msgVars, jrnVars>>
  \/ focus = "hand" /\ Hands!Next
     /\ UNCHANGED <<focus, pairVars, slotVars, ctxVars, cliVars, writeVars, signVars, repoVars, chanVars, msgVars, jrnVars>>
  \/ focus = "ctx" /\ Context!Next
     /\ UNCHANGED <<focus, pairVars, slotVars, handVars, cliVars, writeVars, signVars, repoVars, chanVars, msgVars, jrnVars>>
  \/ focus = "cli" /\ Client!Next
     /\ UNCHANGED <<focus, pairVars, slotVars, handVars, ctxVars, writeVars, signVars, repoVars, chanVars, msgVars, jrnVars>>
  \/ focus = "write" /\ Writer!Next
     /\ UNCHANGED <<focus, pairVars, slotVars, handVars, ctxVars, cliVars, signVars, repoVars, chanVars, msgVars, jrnVars>>
  \/ focus = "sign" /\ Sign!Next
     /\ UNCHANGED <<focus, pairVars, slotVars, handVars, ctxVars, cliVars, writeVars, repoVars, chanVars, msgVars, jrnVars>>
  \/ focus = "repo" /\ Repo!Next
     /\ UNCHANGED <<focus, pairVars, slotVars, handVars, ctxVars, cliVars, writeVars, signVars, chanVars, msgVars, jrnVars>>
  \/ focus = "chan" /\ Chans!Next
     /\ UNCHANGED <<focus, pairVars, slotVars, handVars, ctxVars, cliVars, writeVars, signVars, repoVars, msgVars, jrnVars>>
  \/ focus = "msg" /\ Msgs!Next
     /\ UNCHANGED <<focus, pairVars, slotVars, handVars, ctxVars, cliVars, writeVars, signVars, repoVars, chanVars, jrnVars>>
  \/ focus = "jrn" /\ Jrn!Next
     /\ UNCHANGED <<focus, pairVars, slotVars, handVars, ctxVars, cliVars, writeVars, signVars, repoVars, chanVars, msgVars>>

Spec == Init /\ [][Next]_vars /\ Pair!Fairness

-----------------------------------------------------------------------------

\* A device that holds the secret is the one whose code the source's user
\* confirmed, its own user confirmed too, and a source that reports success is
\* right about it (buzz-core pairing/session.rs, buzz-pairing-cli).
PairedAgree == Pair!PairedAgree

\* Once the source shows a code, both users confirm and nothing fails, the secret
\* arrives and both sides end well (buzz-pairing-cli run_source, run_target).
PairingCompletes == Pair!PairingCompletes

\* The pair relay hands no event over twice, however often and through however
\* many connections it is published (PairOnce), a key has one subscriber, on an
\* open connection (OneSubscriber), and every slot is given back exactly once,
\* also by a failed upgrade (SlotsReturned): buzz-pair-relay lib.rs.
PairRelayExact == Slots!PairRelayExact

\* Handoffs: what a command posts is heard when it reaches the reader
\* (PostedIsHeard), a handoff is closed on verified artifacts and the right
\* person's word (ClosedOnEvidence), a rival claim is never passed over
\* (NoClaimPassedOver), an announced manifest is backed by its blobs
\* (ManifestsBacked), and only new evidence changes a derived state
\* (OnlyEvidenceMoves): buzz-handoff-state.rs, context/handoff.rs, artifact_sync.rs.
HandoffsEvidenced ==
  /\ [](/\ Hands!PostedIsHeard /\ Hands!ClosedOnEvidence /\ Hands!NoClaimPassedOver
        /\ Hands!ManifestsBacked)
  /\ Hands!OnlyEvidenceMoves

\* A context: the profile is whole or absent and never mixes two layouts
\* (ProfileWhole, NoMixedState), a migration keeps a profile that is there
\* (ProfileKept), a finished init is present once and by its author (InitPresent,
\* InitAuthored), a declaration counts (DeclaredCounts) and a match is one of
\* pinned peers (MatchedIsPinned): context/migrate.rs, durable.rs, agreement.rs.
\* Its journal: a load prints the newest memory of the relay that answered
\* (LoadsCurrent), a selection of streams is never exceeded (SelectionKept), and
\* the explorer's ages and bindings are true (ExploreTrue): journal.rs, durable.rs.
ContextKept ==
  /\ [](/\ Context!ProfileWhole /\ Context!NoMixedState /\ Context!InitPresent
        /\ Context!InitAuthored /\ Context!DeclaredCounts /\ Context!MatchedIsPinned)
  /\ [](Jrn!LoadsCurrent /\ Jrn!ExploreTrue)
  /\ Context!ProfileKept /\ Jrn!SelectionKept

\* A command of buzz-cli says what happened.  Client.rs: a moderation command is
\* executed at most once (ModerationOnce), success means the relay holds the
\* event or blob (ReportedIsHeld), a paged query lists each match that stays once
\* (PagesExact).  The read-modify-write commands: a memory write takes effect
\* (MemoryTakes), reported success is real (SuccessIsReal), what a command does
\* not name is kept (OthersKept), a patch is applied to the text it was made for
\* (PatchOnBase), and the nudge about a missing core memory is true (NudgeIsTrue).
WritesTrue ==
  /\ Client!ModerationOnce /\ Client!ReportedIsHeld /\ Client!PagesExact
  /\ Writer!MemoryTakes /\ Writer!SuccessIsReal /\ Writer!OthersKept
  /\ Writer!PatchOnBase /\ Writer!NudgeIsTrue

\* git-sign-nostr and git-credential-nostr: a good signature was made by the key
\* shown over that object under a valid attestation (GoodIsSigned), git reads
\* whole status lines (StatusWhole), one session signs with one key (OneKey), a
\* credential fits the request it answers (CredentialFits).  Repositories: a push
\* that is let through breaks no rule that matches (PushRespectsRules), a rule
\* change keeps the rest of the announcement (MetadataKept), never jumps over a
\* newer one (NoLeapfrog) and is the head when it is reported (SetIsHead), and
\* published work is found by its repository's coordinate (WorkFound).
GitFaithful ==
  /\ [](/\ Sign!GoodIsSigned /\ Sign!StatusWhole /\ Sign!OneKey /\ Sign!CredentialFits
        /\ Repo!PushRespectsRules /\ Repo!MetadataKept /\ Repo!WorkFound)
  /\ Repo!NoLeapfrog /\ Repo!SetIsHead

\* Channels: an ambiguous template creates nothing (AmbiguityCreatesNothing), its
\* report is true (ReportTrue), archived identities stay out (ArchivedStayOut), a
\* listing is exact (ListingExact), an edit changes what it names
\* (EditsNamedOnly).  Messages: a thread lists every reply below its root
\* (ThreadComplete), the tags are the text's mentions (TagsMatchText), an author
\* name means one member (AuthorUnambiguous), a cut diff fits and is cut at a
\* character (DiffFits): channels.rs, channel_templates.rs, messages.rs.
ChannelsTrue ==
  /\ [](/\ Chans!AmbiguityCreatesNothing /\ Chans!ReportTrue /\ Chans!ArchivedStayOut
        /\ Chans!ListingExact /\ Msgs!ThreadComplete /\ Msgs!TagsMatchText
        /\ Msgs!AuthorUnambiguous /\ Msgs!DiffFits)
  /\ Chans!EditsNamedOnly
=============================================================================
