------------------------------ MODULE DevFiles ------------------------------
(***************************************************************************)
(* The developer tool server's other tools (buzz-dev-mcp/src/paths.rs,     *)
(* read_file.rs, str_replace.rs, view_image.rs, todo.rs).  The server has  *)
(* one thread and these tools, but for view_image, do not await, so they   *)
(* run one after the other; a command of the shell tool writes the same    *)
(* file beside them, and the server may be killed at any point.            *)
(***************************************************************************)
EXTENDS Integers, Sequences, FiniteSets, SequencesExt

CONSTANTS Plans,       \* records [text, edits, writes, limit, lists, image, faults]
          MaxFile,     \* MAX_FILE_BYTES
          MaxItems,    \* MAX_ITEMS
          MaxSource,   \* MAX_SOURCE_BYTES
          MaxFinal,    \* MAX_FINAL_RAW_BYTES
          MaxPixels, MinDim, MaxDim

VARIABLES plan,
          server,      \* what the server's thread is doing
          file,        \* the bytes of the file the tools are given
          whole,       \* every content somebody finished writing
          edit,        \* the last str_replace that answered
          page,        \* a client paging through the file with read_file
          todo,        \* TodoState.items, and what became of open items
          image        \* one view_image call

vars == <<plan, server, file, whole, edit, page, todo, image>>

Idle == [pc |-> "idle"]
NoEdit == [kind |-> "none"]

Init ==
  /\ plan \in Plans
  /\ server = Idle /\ file = plan.text /\ whole = {plan.text} /\ edit = NoEdit
  /\ page = [offset |-> 0, got |-> <<>>, pc |-> IF plan.limit > 0 THEN "reading" ELSE "done", stale |-> FALSE]
  /\ todo = [items |-> <<>>, opened |-> {}, settled |-> {}]
  /\ image = [pc |-> IF plan.image.kind = "none" THEN "done" ELSE "load", buf |-> 0, sent |-> 0, out |-> NoEdit]

Alive == server.pc # "killed"
-----------------------------------------------------------------------------
(***************************************************************************)
(* read_text_file, and str_replace: an edit is [old, new, all].            *)
(***************************************************************************)
Readable == Len(file) <= MaxFile

OccursAt(t, p, i) == i + Len(p) - 1 <= Len(t) /\ SubSeq(t, i, i + Len(p) - 1) = p

\* str::matches: the places where p is found, each search going on after the last.
Matches(t, p) ==
  LET from[i \in 1..(Len(t) + 1)] ==
        IF i + Len(p) - 1 > Len(t) THEN <<>>
        ELSE IF OccursAt(t, p, i) THEN <<i>> \o from[i + Len(p)]
        ELSE from[i + 1]
  IN from[1]

\* A mutant: the search stops at the first place.
Count_First(t, e) == IF Matches(t, e.old) = <<>> THEN 0 ELSE 1
\* count_occurrences_capped stops at two.
Count(t, e) ==
  LET n == Len(Matches(t, e.old)) IN IF ~e.all /\ n > 2 THEN 2 ELSE n

\* str::replace and str::replacen(.., 1)
Replaced(t, e) ==
  LET at == Matches(t, e.old)
      from[k \in 1..(Len(at) + 1)] ==
        LET start == IF k = 1 THEN 1 ELSE at[k - 1] + Len(e.old)
        IN IF k > Len(at) \/ (~e.all /\ k > 1) THEN SubSeq(t, start, Len(t))
           ELSE SubSeq(t, start, at[k] - 1) \o e.new \o from[k + 1]
  IN from[1]

Projected(t, e) == Len(t) + (Len(e.new) - Len(e.old)) * Count(t, e)

Refused(e) ==
  \/ e.old = <<>>
  \/ ~Readable
  \/ Count(file, e) = 0
  \/ ~e.all /\ Count(file, e) > 1
  \/ Projected(file, e) > MaxFile

\* str_replace::run up to atomic_write: one step, but what it read may be old when it writes.
str_replace(i) ==
  /\ server.pc = "idle" /\ i \in plan.edits
  /\ IF Refused(i)
     THEN edit' = [kind |-> "refused", before |-> file, args |-> i] /\ UNCHANGED server
     ELSE /\ server' = [pc |-> "temp", args |-> i, before |-> file, after |-> Replaced(file, i)]
          /\ UNCHANGED edit
  /\ UNCHANGED <<plan, file, whole, page, todo, image>>

\* A mutant: the file is opened for writing and filled in place.
WhileWriting_InPlace(old, new) == <<>>
\* The temporary file stands beside the target, which keeps its content.
WhileWriting(old, new) == old

write_temp ==
  /\ server.pc = "temp"
  /\ \/ server' = [server EXCEPT !.pc = "persist"] /\ file' = WhileWriting(file, server.after) /\ UNCHANGED edit
     \/ /\ plan.faults > 0
        /\ server' = Idle /\ edit' = [kind |-> "failed"] /\ UNCHANGED file
  /\ UNCHANGED <<plan, whole, page, todo, image>>

persist ==
  /\ server.pc = "persist"
  /\ file' = server.after /\ whole' = whole \union {server.after}
  /\ edit' = [kind |-> "replaced", before |-> server.before, args |-> server.args, after |-> server.after]
  /\ server' = Idle
  /\ page' = [page EXCEPT !.stale = TRUE]
  /\ UNCHANGED <<plan, todo, image>>

\* A command of the shell tool, or the user's editor, replaces the file.
write_beside ==
  /\ \E t \in plan.writes :
       /\ t \notin whole
       /\ file' = t /\ whole' = whole \union {t}
  /\ page' = [page EXCEPT !.stale = TRUE]
  /\ UNCHANGED <<plan, server, edit, todo, image>>

kill ==
  /\ plan.faults > 0 /\ Alive
  /\ server' = [pc |-> "killed"]
  /\ UNCHANGED <<plan, file, whole, edit, page, todo, image>>
-----------------------------------------------------------------------------
(***************************************************************************)
(* read_file, called again with the offset its last answer names.          *)
(***************************************************************************)
\* str::lines: "n" ends a line, and a last line needs no end.
Lines(t) ==
  LET ends == {i \in DOMAIN t : t[i] = "n"} \union (IF t # <<>> /\ t[Len(t)] # "n" THEN {Len(t) + 1} ELSE {})
      start(i) == LET before == {j \in ends : j < i} IN IF before = {} THEN 1 ELSE Max(before) + 1
      sorted == SetToSortSeq(ends, <)
  IN [k \in DOMAIN sorted |-> SubSeq(t, start(sorted[k]), sorted[k] - 1)]

\* A mutant: the next page starts where this one starts counting.
NextOffset_FromOne(offset, n) == offset + n + 1
NextOffset(offset, n) == offset + n

read_file ==
  LET lines == Lines(file)
      first == IF page.offset < Len(lines) THEN page.offset ELSE Len(lines)
      slice == SubSeq(lines, first + 1, IF first + plan.limit < Len(lines) THEN first + plan.limit ELSE Len(lines))
      end_line == NextOffset(page.offset, Len(slice))
  IN /\ server.pc = "idle" /\ page.pc = "reading"
     /\ IF ~Readable THEN page' = [page EXCEPT !.pc = "done", !.stale = TRUE]
        ELSE page' = [page EXCEPT !.got = @ \o slice, !.offset = end_line,
                                  !.pc = IF slice # <<>> /\ end_line < Len(lines) THEN "reading" ELSE "done"]
     /\ UNCHANGED <<plan, server, file, whole, edit, todo, image>>
-----------------------------------------------------------------------------
(***************************************************************************)
(* The task list.  A text is a pair <<name, padded>>: with spaces around   *)
(* it or not; "" is empty and "bad" holds a character that is refused.     *)
(***************************************************************************)
Trimmed(items) == [i \in DOMAIN items |-> [items[i] EXCEPT !.text = <<@[1], FALSE>>]]

\* A mutant: texts are compared as they were given.
Valid_Untrimmed(items) ==
  /\ Len(items) <= MaxItems
  /\ \A i \in DOMAIN items : items[i].text[1] \notin {"", "bad"}
  /\ \A i, j \in DOMAIN items : i # j => items[i].text # items[j].text
validate(items) ==
  /\ Len(items) <= MaxItems
  /\ \A i \in DOMAIN items : items[i].text[1] \notin {"", "bad"}
  /\ \A i, j \in DOMAIN items : i # j => items[i].text[1] # items[j].text[1]

\* A mutant: only a list that got shorter is compared.
silent_removal_Shorter(old, new) ==
  IF Len(new) >= Len(old) THEN {} ELSE {old[i].text : i \in DOMAIN old} \ {new[i].text : i \in DOMAIN new}
silent_removal(old, new) ==
  {old[i].text : i \in {k \in DOMAIN old : ~old[k].done}} \ {new[i].text : i \in DOMAIN new}

handle_todo(list) ==
  /\ server.pc = "idle" /\ list \in plan.lists
  /\ IF ~validate(list) THEN UNCHANGED todo
     ELSE LET new == Trimmed(list)
              open == {new[i].text : i \in {k \in DOMAIN new : ~new[k].done}}
              closed == {new[i].text : i \in {k \in DOMAIN new : new[k].done}}
          IN todo' = [items |-> new, opened |-> (todo.opened \ closed) \union open,
                      settled |-> (todo.settled \ open) \union closed \union silent_removal(todo.items, new)]
  /\ UNCHANGED <<plan, server, file, whole, edit, page, image>>

-----------------------------------------------------------------------------
(***************************************************************************)
(* view_image: plan.image is [kind, sizes, stat, w, h, animated, dim,      *)
(* shrink]: where it comes from, the chunks that arrive, the length that   *)
(* was promised, and how many bytes a pixel takes once re-encoded.         *)
(***************************************************************************)
Loaded(out) == [image EXCEPT !.pc = "done", !.out = [kind |-> out]]

\* A path or a URL: the promise first (the metadata, the Content-Length), then the chunks;
\* a data: URL is decoded at once.
load_source ==
  /\ Alive /\ image.pc = "load"
  /\ image' = IF plan.image.stat > MaxSource THEN Loaded("too large")
              ELSE IF plan.image.kind = "data" THEN [image EXCEPT !.pc = "prepare", !.buf = plan.image.stat]
              ELSE [image EXCEPT !.pc = "fetch"]
  /\ UNCHANGED <<plan, server, file, whole, edit, page, todo>>

\* A mutant: what is already there is compared with the cap, not what is added.
OverCap_Late(buf, n) == buf > MaxSource
OverCap(buf, n) == buf + n > MaxSource

fetch_url ==
  /\ Alive /\ image.pc = "fetch"
  /\ \/ image' = IF image.sent = Len(plan.image.sizes) THEN [image EXCEPT !.pc = "prepare"]
                 ELSE LET n == plan.image.sizes[image.sent + 1]
                      IN IF OverCap(image.buf, n) THEN Loaded("too large")
                         ELSE [image EXCEPT !.buf = @ + n, !.sent = @ + 1]
     \/ plan.faults > 0 /\ image' = Loaded("failed")
  /\ UNCHANGED <<plan, server, file, whole, edit, page, todo>>

\* gif_has_two_image_descriptors over the blocks of the file: "ext", "img", "end", "cut", "junk".
\* A truncated block ends the scan.
animated(blocks) ==
  LET scan[i \in 1..(Len(blocks) + 1), frames \in 0..1] ==
        IF i > Len(blocks) THEN FALSE
        ELSE CASE blocks[i] = "ext" -> scan[i + 1, frames]
               [] blocks[i] = "img" -> IF frames = 1 THEN TRUE ELSE scan[i + 1, 1]
               [] OTHER -> FALSE
  IN scan[1, 0]

AtLeast(n, m) == IF n < m THEN m ELSE n
AtMost(n, m) == IF n > m THEN m ELSE n
Clamped(dim) == AtMost(AtLeast(dim, MinDim), MaxDim)
\* encode_resized: the longest edge becomes target, the other one in proportion.
Resized(w, h, target) ==
  IF w >= h THEN [w |-> target, h |-> AtLeast((target * h) \div w, 1)]
  ELSE [w |-> AtLeast((target * w) \div h, 1), h |-> target]

\* A mutant: the second try is sent without measuring it again.
SecondTry_Sent(size, bytes) == [kind |-> "image", size |-> size, bytes |-> bytes]
SecondTry(size, bytes) ==
  IF bytes > MaxFinal THEN [kind |-> "still too large"] ELSE [kind |-> "image", size |-> size, bytes |-> bytes]

Prepared(len, w, h, max_dim, each) ==
  LET longest == AtLeast(w, h)
      target == AtMost(longest, max_dim)
      bytes(size) == each * size.w * size.h
      one == Resized(w, h, target)
      two == Resized(w, h, AtLeast((3 * target) \div 4, MinDim))
  IN CASE len = 0 -> [kind |-> "empty"]
       [] len > 0 /\ animated(plan.image.blocks) -> [kind |-> "animated"]
       [] len > 0 /\ ~animated(plan.image.blocks) /\ w * h > MaxPixels -> [kind |-> "too many pixels"]
       [] OTHER ->
          IF longest <= max_dim /\ len <= MaxFinal THEN [kind |-> "image", size |-> [w |-> w, h |-> h], bytes |-> len]
          ELSE IF bytes(one) <= MaxFinal THEN [kind |-> "image", size |-> one, bytes |-> bytes(one)]
          ELSE SecondTry(two, bytes(two))

prepare ==
  /\ Alive /\ image.pc = "prepare"
  /\ LET i == plan.image
     IN image' = [image EXCEPT !.pc = "done", !.out = Prepared(image.buf, i.w, i.h, Clamped(i.dim), i.each)]
  /\ UNCHANGED <<plan, server, file, whole, edit, page, todo>>
-----------------------------------------------------------------------------
Next ==
  \/ \E e \in plan.edits : str_replace(e)
  \/ write_temp \/ persist \/ write_beside \/ kill
  \/ read_file
  \/ \E l \in plan.lists : handle_todo(l)
  \/ load_source \/ fetch_url \/ prepare
Spec == Init /\ [][Next]_vars
-----------------------------------------------------------------------------
(***************************************************************************)
(* Whatever moment the server is killed at, and whoever reads the file     *)
(* beside it, the file is always a content somebody finished writing.      *)
(***************************************************************************)
FileWhole == file \in whole

(***************************************************************************)
(* An edit of one place that answers "replaced" was unambiguous: what it   *)
(* read is a text without the old string, the old string, and a text       *)
(* without it, and what it wrote is those two with the new one between.    *)
(***************************************************************************)
EditExact ==
  edit.kind = "replaced" =>
    LET e == edit.args
        old == edit.args.old
        Free(t) == \A i \in DOMAIN t : ~OccursAt(t, old, i)
    IN ~e.all => \E i \in DOMAIN edit.before :
                   LET p == SubSeq(edit.before, 1, i - 1)
                       s == SubSeq(edit.before, i + Len(old), Len(edit.before))
                   IN /\ OccursAt(edit.before, old, i)
                      /\ Free(p) /\ Free(s)
                      /\ edit.after = p \o e.new \o s

(***************************************************************************)
(* A client that follows the offsets of read_file's answers to the end of  *)
(* a file nobody changed has seen every line once, in order.               *)
(***************************************************************************)
PagesCover == page.pc = "done" /\ ~page.stale /\ plan.limit > 0 => page.got = Lines(file)

(***************************************************************************)
(* No open task disappears unnoticed: a text that was open is still        *)
(* listed, or was marked done, or its removal was told to the model; and   *)
(* the list the hooks speak from never holds a text twice.                 *)
(***************************************************************************)
TasksAccounted ==
  LET listed == {todo.items[i].text : i \in DOMAIN todo.items}
  IN /\ todo.opened \ listed \subseteq todo.settled
     /\ Cardinality(listed) = Len(todo.items)

(***************************************************************************)
(* What view_image buffers stays within the source cap even when more      *)
(* arrives than was promised, and what it sends within the final one, with *)
(* no edge longer than asked for.                                          *)
(***************************************************************************)
ImageBounded ==
  /\ image.buf <= MaxSource
  /\ image.out.kind = "image" =>
       /\ image.out.bytes <= MaxFinal
       /\ image.out.size.w \in 1..Clamped(plan.image.dim) /\ image.out.size.h \in 1..Clamped(plan.image.dim)
=============================================================================
