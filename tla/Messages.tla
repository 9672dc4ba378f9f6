------------------------------ MODULE Messages ------------------------------
(***************************************************************************)
(* The CLI's message commands (buzz-cli/commands/messages.rs), the mention *)
(* helpers and message builders of buzz-sdk, and the diff truncation of    *)
(* validate.rs.  A send is a sequence of requests: uploads, the parent's   *)
(* tags, the channel's members, their profiles, the event.  Text is a      *)
(* sequence of tokens: words, "@", "sp" and "nl", ",", ".", "tick", "fence" and *)
(* profile references.  A diff is a sequence of bytes of four classes.     *)
(***************************************************************************)
EXTENDS Integers, Sequences, FiniteSets

CONSTANTS
    Plans,        \* the command, who else writes, the channel's members
    Uris,         \* tokens that are nostr: references to a profile
    MentionCap,   \* MENTION_CAP
    MaxDiff,      \* MAX_DIFF_BYTES
    Notice,       \* bytes of the truncation notice
    ThreadLimit,  \* replies `messages thread` asks for by default
    ThreadMax,    \* and at most
    SearchLimit,  \* profiles resolve_author asks for
    MaxMessages

VARIABLES
    plan,
    log,     \* the messages the relay holds, by number
    run,     \* the command being executed
    left     \* commands, other clients' messages and faults still to come

vars == <<plan, log, run, left>>

Idle == [pc |-> "start", uploads |-> 0, root |-> 0, members |-> {}, mentions |-> <<>>,
         looked |-> FALSE, channel |-> 0, listed |-> {}, limit |-> 0, author |-> "none", exit |-> "none"]

\* A message; top, which no client sees, is the first of its conversation.
Event(channel, tags, p, mine) ==
    [channel |-> channel, tags |-> tags, p |-> p, gone |-> FALSE, mine |-> mine,
     edits |-> <<0, FALSE>>, votes |-> 0,
     top |-> IF tags = <<>> \/ tags[Len(tags)][2] = 0 THEN Len(log) + 1
             ELSE log[tags[Len(tags)][2]].top]

\* What a query by id does not find.
Missing(t) == IF t \in 1..Len(log) THEN log[t].gone ELSE TRUE

Fault == left.faults > 0 /\ left' = [left EXCEPT !.faults = @ - 1]
Exit(code) == run' = [run EXCEPT !.pc = "end", !.exit = code]

---------------------------------------------------------------------------
(* Threads.  A message's "e" tags are marker and target; target 0 is not   *)
(* an event id.                                                            *)

Marked(tags, m) == {i \in 1..Len(tags) : tags[i][1] = m /\ tags[i][2] # 0}
LastOf(S) == CHOOSE i \in S : \A j \in S : j <= i

find_root_from_tags_ReplyFirst(tags) ==
    LET reply == Marked(tags, "reply") root == Marked(tags, "root")
    IN  IF reply # {} THEN tags[LastOf(reply)][2]
        ELSE IF root # {} THEN tags[LastOf(root)][2] ELSE 0

\* find_root_from_tags: the root marker, else the reply marker, else none.
find_root_from_tags(tags) ==
    LET reply == Marked(tags, "reply") root == Marked(tags, "root")
    IN  IF root # {} THEN tags[LastOf(root)][2]
        ELSE IF reply # {} THEN tags[LastOf(reply)][2] ELSE 0

\* resolve_thread_ref
RootFor(parent) ==
    LET r == find_root_from_tags(log[parent].tags) IN IF r = 0 THEN parent ELSE r

\* thread_tags
thread_tags(root, parent) ==
    IF root = parent THEN << <<"reply", parent>> >>
    ELSE << <<"root", root>>, <<"reply", parent>> >>

---------------------------------------------------------------------------
(* Mentions.                                                               *)

NonWords == {"@", "sp", "nl", ",", ".", "tick", "fence"} \cup Uris
Preceded(c, i) == i = 1 \/ c[i - 1] \in {"sp", "nl"}

\* is_word_boundary
is_word_boundary(c, i) == i > Len(c) \/ c[i] \in {"sp", "nl", ",", "."}

StartsAt(c, i, name) ==
    /\ i + Len(name) - 1 <= Len(c)
    /\ SubSeq(c, i, i + Len(name) - 1) = name
    /\ is_word_boundary(c, i + Len(name))

Better_Shorter(a, b) == Len(a) < Len(b)
Better(a, b) == Len(a) > Len(b)

\* The single-word fallback: word characters, of which '.' is one.
WordAt(c, i) ==
    LET word == {j \in i..Len(c) : \A k \in i..j : c[k] = "." \/ c[k] \notin NonWords}
    IN  SubSeq(c, i, i + Cardinality(word) - 1)

\* extract_at_mentions_with_known: known names, longest first, then the word.
NameAt(c, i, known) ==
    LET fits == {n \in known : StartsAt(c, i + 1, n)}
    IN  IF fits # {} THEN CHOOSE n \in fits : \A m \in fits \ {n} : Better(n, m)
        ELSE WordAt(c, i + 1)

extract_at_mentions_with_known(c, known) ==
    {NameAt(c, i, known) : i \in {j \in 1..Len(c) : c[j] = "@" /\ Preceded(c, j)}}

\* strip_code_regions: a fence at the start of a line runs to the end of the
\* line of the next such fence; a tick runs to the next one on the same line.
LineStart(c, i) ==
    \A j \in 1..(i - 1) : (\A k \in (j + 1)..(i - 1) : c[k] # "nl") => c[j] \in {"sp", "nl"}
First(S, none) == IF S = {} THEN none ELSE CHOOSE i \in S : \A j \in S : i <= j
EndOfLine(c, i) == First({j \in i..Len(c) : c[j] = "nl"}, Len(c))
FenceEnd(c, i) ==
    LET close == First({j \in (EndOfLine(c, i) + 1)..Len(c) : c[j] = "fence" /\ LineStart(c, j)}, 0)
    IN  IF close = 0 THEN Len(c) ELSE EndOfLine(c, close)
TickEnd(c, i) ==
    First({j \in (i + 1)..EndOfLine(c, i) : c[j] \in {"tick", "fence"}}, i)

TickSpans_Never(c, i) == i
TickSpans(c, i) == TickEnd(c, i)

\* The positions that survive, scanning from i.
StripFrom(c) ==
    LET strip[i \in 1..(Len(c) + 1)] ==
          IF i > Len(c) THEN {}
          ELSE IF c[i] = "fence" /\ LineStart(c, i) THEN strip[FenceEnd(c, i) + 1]
          ELSE IF c[i] \in {"tick", "fence"} /\ TickSpans(c, i) > i THEN strip[TickSpans(c, i) + 1]
          ELSE {i} \cup strip[i + 1]
    IN  strip[1]

\* extract_nostr_uris, in order of appearance, without repeats
extract_nostr_uris(c) ==
    LET kept == {i \in StripFrom(c) : c[i] \in Uris}
        first == {i \in kept : \A j \in kept : j < i => c[j] # c[i]}
        ord == [k \in 1..Cardinality(first) |->
                  CHOOSE i \in first : Cardinality({j \in first : j < i}) = k - 1]
    IN  [k \in 1..Cardinality(first) |-> c[ord[k]]]

ToSet(s) == {s[i] : i \in 1..Len(s)}

\* merge_mentions: the references fill what the names leave of the cap.
merge_mentions(named, uris) ==
    LET budget == IF Cardinality(named) >= MentionCap THEN 0 ELSE MentionCap - Cardinality(named)
        fresh == SelectSeq(uris, LAMBDA u : u \notin named)
    IN  named \cup ToSet(SubSeq(fresh, 1, IF Len(fresh) < budget THEN Len(fresh) ELSE budget))

\* Members whose display name was mentioned; names may be shared.
Named(c, members) ==
    LET names == extract_at_mentions_with_known(c, {plan.profiles[m] : m \in members})
    IN  {m \in members : plan.profiles[m] \in names}

---------------------------------------------------------------------------
(* `messages send`.                                                        *)

Sending == plan.cmd.op = "send"

send_start ==
    /\ Sending /\ left.commands > 0
    /\ run.pc = "start"
    /\ left' = [left EXCEPT !.commands = @ - 1]
    /\ \E parent \in {0} \cup 1..(Len(log) + 1) :
         run' = [run EXCEPT !.pc = "upload", !.root = parent]
    /\ UNCHANGED <<plan, log>>

\* The files go first; one failure ends the command.
upload_file ==
    /\ run.pc = "upload"
    /\ \/ /\ run.uploads < plan.cmd.files
          /\ run' = [run EXCEPT !.uploads = @ + 1]
          /\ UNCHANGED left
       \/ run.uploads < plan.cmd.files /\ Fault /\ Exit("error")
       \/ /\ run.uploads = plan.cmd.files
          /\ run' = [run EXCEPT !.pc = "thread"]
          /\ UNCHANGED left
    /\ UNCHANGED <<plan, log>>

\* The parent of a message or a diff must be found; its tags give the root.
AfterThread == IF Sending THEN "members" ELSE "diff"
resolve_thread_ref ==
    /\ run.pc = "thread"
    /\ \/ /\ run.root = 0
          /\ run' = [run EXCEPT !.pc = AfterThread]
          /\ UNCHANGED left
       \/ run.root # 0 /\ Fault /\ Exit("error")
       \/ /\ run.root # 0 /\ Missing(run.root)
          /\ Exit("error") /\ UNCHANGED left
       \/ /\ run.root # 0 /\ ~Missing(run.root)
          /\ run' = [run EXCEPT !.pc = AfterThread,
                                !.mentions = thread_tags(RootFor(run.root), run.root)]
          /\ UNCHANGED left
    /\ UNCHANGED <<plan, log>>

OnLookupError == run' = [run EXCEPT !.pc = "submit", !.members = {}]

\* resolve_content_mentions: two lookups; either failing means no names.
resolve_content_mentions ==
    /\ run.pc \in {"members", "profiles"}
    /\ \/ Fault /\ OnLookupError
       \/ /\ run' = IF run.pc = "members" THEN [run EXCEPT !.pc = "profiles"]
                    ELSE [run EXCEPT !.pc = "submit", !.looked = TRUE,
                                          !.members = Named(plan.cmd.text, DOMAIN plan.profiles)]
          /\ UNCHANGED left
    /\ UNCHANGED <<plan, log>>

\* mention_tags and the builder of the kind: a comment needs a parent, a
\* message takes one, a post ignores it.
Buildable(p) ==
    /\ plan.cmd.kind \in {"message", "post", "comment"}
    /\ plan.cmd.kind = "comment" => run.root # 0
    /\ Cardinality(p) <= MentionCap


submit_message ==
    /\ run.pc = "submit"
    /\ LET p == merge_mentions(run.members, extract_nostr_uris(plan.cmd.text))
           tags == IF plan.cmd.kind = "post" THEN <<>> ELSE run.mentions
       IN  \/ ~Buildable(p) /\ Exit("error") /\ UNCHANGED <<log, left>>
           \/ /\ Buildable(p)
              /\ Len(log) < MaxMessages
              /\ log' = Append(log, Event(plan.cmd.channel, tags, p, TRUE))
              /\ Exit("ok")
              /\ UNCHANGED left
           \/ Buildable(p) /\ Fault /\ Exit("error") /\ UNCHANGED log
    /\ UNCHANGED plan

next_command ==
    /\ run.pc = "end"
    /\ plan.cmd.op \in {"send", "edit", "vote", "delete"}
    /\ left.commands > 0
    /\ run' = Idle
    /\ UNCHANGED <<plan, log, left>>

---------------------------------------------------------------------------
(* Edits, votes and deletions find the channel from their target.          *)

\* resolve_channel_id, then the event
target_command ==
    /\ plan.cmd.op \in {"edit", "vote", "delete"} /\ left.commands > 0
    /\ run.pc = "start"
    /\ \E t \in 1..(Len(log) + 1) :
         \/ t \in 1..Len(log) /\ Fault /\ Exit("error") /\ UNCHANGED log
         \/ /\ Missing(t)
            /\ Exit("error")
            /\ left' = [left EXCEPT !.commands = @ - 1]
            /\ UNCHANGED log
         \/ /\ ~Missing(t)
            /\ log' = CASE plan.cmd.op = "edit" -> [log EXCEPT ![t].edits = <<log[t].channel, FALSE>>]
                        [] plan.cmd.op = "vote" -> [log EXCEPT ![t].votes = log[t].channel]
                        [] plan.cmd.op = "delete" -> [log EXCEPT ![t].gone = TRUE]
            /\ run' = [run EXCEPT !.pc = "end", !.exit = "ok", !.channel = log[t].channel]
            /\ left' = [left EXCEPT !.commands = @ - 1]
    /\ UNCHANGED plan

---------------------------------------------------------------------------
(* Reading.                                                                *)

\* The messages of its channel that refer to t; the relay has forgotten deleted ones.
Replies(t) == {m \in 1..Len(log) : /\ ~log[m].gone /\ log[m].channel = log[t].channel
                                   /\ \E i \in 1..Len(log[m].tags) : log[m].tags[i][2] = t}
\* A relay answers with the newest.
Newest(S, n) == {m \in S : Cardinality({k \in S : k > m}) < n}
reply_limit == LET l == IF plan.limit = 0 THEN ThreadLimit ELSE plan.limit
               IN  IF l < ThreadMax THEN l ELSE ThreadMax

\* cmd_get_thread: the newest replies, and the event itself.  The relays refuse
\* the filter field that --depth-limit adds (validate_filter_fields).
get_thread ==
    /\ left.reads > 0
    /\ run.pc \in {"start", "end"}
    /\ \/ /\ left' = [left EXCEPT !.reads = @ - 1]
          /\ \E t \in 1..Len(log) :
               run' = IF plan.depth THEN [Idle EXCEPT !.pc = "end", !.exit = "error"]
                      ELSE [Idle EXCEPT !.pc = "end", !.exit = "thread", !.channel = t, !.limit = reply_limit,
                              !.listed = {m \in {t} : ~log[m].gone} \cup Newest(Replies(t), reply_limit)]
       \/ Fault /\ run' = [Idle EXCEPT !.pc = "end", !.exit = "error"]
    /\ UNCHANGED <<plan, log>>

Unique_First(S) == S # {}
Unique(S) == Cardinality(S) = 1

\* What a full-text search for the name matches: names that contain it.
Contains(name, text) == \E i \in 1..Len(name) : SubSeq(name, i, i + Len(text) - 1) = text
Searched(text) == {m \in DOMAIN plan.profiles : Contains(plan.profiles[m], text) \/ Contains(plan.plain[m], text)}
\* match_profiles_by_name
IsCalled(m, text) == text \in {plan.profiles[m], plan.plain[m]}

\* resolve_author: exactly one profile of that display name or name among those
\* the relay chose to answer with.
resolve_author ==
    /\ plan.cmd.op = "search"
    /\ run.pc = "start"
    /\ \/ Fault /\ Exit("error")
       \/ \E found \in SUBSET Searched(plan.cmd.text) :
            LET hits == {m \in found : IsCalled(m, plan.cmd.text)}
            IN  /\ Cardinality(found) <= SearchLimit
                /\ Cardinality(found) = SearchLimit \/ found = Searched(plan.cmd.text)
                /\ \/ ~Unique(hits) /\ Exit("usage")
                   \/ /\ Unique(hits)
                      /\ \E m \in hits : run' = [run EXCEPT !.pc = "end", !.exit = "search", !.author = m]
                /\ UNCHANGED left
    /\ UNCHANGED <<plan, log>>

---------------------------------------------------------------------------
(* Diffs: bytes are "n" a newline, "a" an at sign, "x" any other character *)
(* and "c" the continuation of one.                                        *)

CharStarts(d) == {i \in 0..(Len(d) - 1) : d[i + 1] # "c"}
Largest(S, none) == IF S = {} THEN none ELSE CHOOSE i \in S : \A j \in S : j <= i

\* Where "\n@@" and "\n" begin within the first n bytes.
HunkAt(d, n) == {i \in 0..(n - 3) : d[i + 1] = "n" /\ d[i + 2] = "a" /\ d[i + 3] = "a"}
LineAt(d, n) == {i \in 0..(n - 1) : d[i + 1] = "n"}

Boundary_Byte(d) == MaxDiff - Notice
Boundary(d) == Largest({i \in CharStarts(d) : i <= MaxDiff - Notice}, 0)

\* truncate_diff: the number of bytes kept.
CutPoint(d) ==
    LET b == Boundary(d)
        hunk == Largest(HunkAt(d, b), 0)
    IN  IF hunk > 0 THEN hunk ELSE Largest(LineAt(d, b), b)

truncate_diff(d) == IF Len(d) <= MaxDiff THEN <<Len(d), FALSE>> ELSE <<CutPoint(d), TRUE>>

\* What build_diff_message refuses: the URL, a short commit, half a branch
\* pair, a zero pull request number.
DiffMetaValid(c) == c.metaValid

diff_start ==
    /\ plan.cmd.op = "diff"
    /\ run.pc = "start"
    /\ IF plan.cmd.oneBranch THEN Exit("usage")
       ELSE \E parent \in {0} \cup 1..(Len(log) + 1) :
              run' = [run EXCEPT !.pc = "thread", !.root = parent]
    /\ UNCHANGED <<plan, log, left>>

send_diff ==
    /\ run.pc = "diff"
    /\ \/ ~DiffMetaValid(plan.cmd) /\ Exit("error") /\ UNCHANGED <<log, left>>
       \/ /\ DiffMetaValid(plan.cmd)
          /\ log' = Append(log, [Event(1, run.mentions, {}, TRUE) EXCEPT !.edits = truncate_diff(plan.cmd.diff)])
          /\ Exit("ok")
          /\ UNCHANGED left
       \/ DiffMetaValid(plan.cmd) /\ Fault /\ Exit("error") /\ UNCHANGED log
    /\ UNCHANGED plan

---------------------------------------------------------------------------
(* Other clients.                                                          *)

\* A reply of another client names its root, its parent, or both; a broken
\* one names nothing usable.
others_send ==
    /\ left.others > 0
    /\ Len(log) < MaxMessages
    /\ left' = [left EXCEPT !.others = @ - 1]
    /\ \/ \E c \in {1, 2} : log' = Append(log, Event(c, <<>>, {}, FALSE))
       \/ \E t \in 1..Len(log) :
            LET r == log[t].top
                forms == {thread_tags(r, t)} \cup
                         (IF r = t THEN {<< <<"root", t>> >>} ELSE {}) \cup
                         {<< <<"reply", 0>> >>}
            IN  \E f \in forms : log' = Append(log, Event(log[t].channel, f, {}, FALSE))
    /\ UNCHANGED <<plan, run>>

others_delete ==
    /\ left.deletes > 0
    /\ left' = [left EXCEPT !.deletes = @ - 1]
    /\ \E t \in 1..Len(log) : log' = [log EXCEPT ![t].gone = TRUE]
    /\ UNCHANGED <<plan, run>>

---------------------------------------------------------------------------

Init ==
    /\ plan \in Plans
    /\ log = << [channel |-> 1, tags |-> <<>>, p |-> {}, gone |-> FALSE, mine |-> FALSE,
                 edits |-> <<0, FALSE>>, votes |-> 0, top |-> 1] >>
    /\ run = Idle
    /\ left = [commands |-> plan.commands, others |-> plan.others, deletes |-> plan.deletes,
               faults |-> plan.faults, reads |-> plan.reads]

Next ==
    \/ send_start \/ upload_file \/ resolve_thread_ref \/ resolve_content_mentions
    \/ submit_message \/ next_command \/ target_command \/ get_thread \/ resolve_author
    \/ diff_start \/ send_diff \/ others_send \/ others_delete

Spec == Init /\ [][Next]_vars

---------------------------------------------------------------------------
(* Properties.                                                             *)

\* `messages thread` on the first message of a conversation lists every reply
\* sent from the CLI in that channel that was not deleted, however deep, whichever
\* client wrote what it answers: each reply carries the root its parent carried.
\* Only when as many newer ones as it asked for are listed is one left out.
ThreadComplete ==
    run.exit = "thread" =>
      LET t == run.channel
      IN  log[t].top = t =>
            \A m \in 1..Len(log) :
              (log[m].mine /\ ~log[m].gone /\ log[m].channel = log[t].channel /\ log[m].top = t) =>
                m \in run.listed \/ Cardinality({k \in run.listed : k > m}) = run.limit

\* Whether token i of a text is code, by counting fences and ticks.
InCode(c, i) ==
    LET fences == {j \in 1..i : c[j] = "fence" /\ LineStart(c, j)}
        lineof == {j \in 1..Len(c) : \A k \in (IF j < i THEN j ELSE i)..(IF j < i THEN i - 1 ELSE j - 1) :
                                       c[k] # "nl"}
        ticks(S) == Cardinality({j \in S : c[j] \in {"tick", "fence"}})
        before == {j \in lineof : j < i}
        after == {j \in lineof : j > i}
    IN  \/ Cardinality(fences) % 2 = 1
        \/ fences \cap lineof # {}
        \/ ticks(before) % 2 = 1 /\ ticks(after) > 0

\* A message tags the profiles it names: a member is tagged for an @name when
\* the members were looked up, and only when no longer member name fits there, and a
\* nostr: reference counts, up to the cap, unless it stands in code.
TagsMatchText ==
    (Sending /\ run.exit = "ok" /\ log[Len(log)].mine) =>
      LET c == plan.cmd.text
          p == log[Len(log)].p
          Ats == {i \in 1..Len(c) : c[i] = "@" /\ Preceded(c, i)}
          Longest(m, i) == \A n \in DOMAIN plan.profiles :
            StartsAt(c, i + 1, plan.profiles[n]) => Len(plan.profiles[n]) <= Len(plan.profiles[m])
          refs == {c[i] : i \in {j \in 1..Len(c) : c[j] \in Uris /\ ~InCode(c, j)}}
      IN  /\ p \cap Uris \subseteq refs
          /\ Cardinality(p) < MentionCap => p \cap Uris = refs
          /\ run.looked \/ p \subseteq Uris
          /\ \A m \in p \ Uris : \E i \in Ats :
               /\ SubSeq(c, i + 1, i + Len(plan.profiles[m])) = plan.profiles[m]
               /\ Longest(m, i)
          /\ run.looked => \A i \in Ats, m \in DOMAIN plan.profiles :
               StartsAt(c, i + 1, plan.profiles[m]) /\ Longest(m, i) => m \in p

\* An author given by name has that name, and is the only one, unless the search
\* matched more profiles than it asked for.
AuthorUnambiguous ==
    run.exit = "search" =>
      /\ IsCalled(run.author, plan.cmd.text)
      /\ Cardinality(Searched(plan.cmd.text)) <= SearchLimit =>
           \A m \in DOMAIN plan.profiles : IsCalled(m, plan.cmd.text) => m = run.author

\* A diff that is sent fits the limit with its notice, ends between two
\* characters, is flagged exactly when something was cut, and is cut before
\* the last hunk that starts within the limit.
DiffFits ==
    (plan.cmd.op = "diff" /\ run.exit = "ok") =>
      LET d == plan.cmd.diff kept == log[2].edits[1] cut == log[2].edits[2]
      IN  /\ cut <=> kept < Len(d)
          /\ kept + (IF cut THEN Notice ELSE 0) <= MaxDiff
          /\ kept < Len(d) => d[kept + 1] # "c"
          /\ cut => \A h \in HunkAt(d, MaxDiff - Notice) : h <= kept
=============================================================================
