------------------------------- MODULE Persona -------------------------------
(***************************************************************************)
(* Persona packs: a directory with a manifest, persona files, optional     *)
(* instructions and tool servers, checked by `buzz pack validate`  *)
(* and resolved by `buzz pack inspect` (crates/buzz-persona,               *)
(* buzz-cli/src/commands/pack.rs).  The loader stops at the first fault;   *)
(* both commands load the directory anew, and its author may edit it in    *)
(* between.                                                                *)
(***************************************************************************)
EXTENDS Integers, Sequences, FiniteSets

CONSTANTS
    Plans,     \* pairs of packs: the directory before and after an edit
    MaxName    \* the longest persona name, 64 in the code

VARIABLES
    plan,      \* the pack in the directory, and the one an edit makes of it
    pc,        \* the loader's place
    cmd,       \* the command that is running
    loaded,    \* the personas read so far
    verdict,   \* what validate found: errors and warnings
    valid,     \* validate's answer, until the directory is edited
    resolved   \* what inspect shows

vars == <<plan, pc, cmd, loaded, verdict, valid, resolved>>

pack == plan.pack
Absent == "absent"
NoVerdict == [errors |-> 0, warnings |-> 0]

(***************************************************************************)
(* A persona file: tokens D (three dashes), N, R (line ends), Y (a line    *)
(* the frontmatter schema accepts), T (other text).                        *)
(***************************************************************************)
Opened(t) ==
    IF Len(t) >= 2 /\ t[1] = "D" /\ t[2] = "N" THEN 2
    ELSE IF Len(t) >= 3 /\ t[1] = "D" /\ t[2] = "R" /\ t[3] = "N" THEN 3
    ELSE 0

OwnLine_Prefix(t, i) == TRUE

\* Three dashes followed by the end of the line or of the file.
OwnLine(t, i) == i = Len(t) \/ t[i + 1] \in {"N", "R"}

Closers(t) ==
    {i \in (Opened(t) + 2)..Len(t) : t[i] = "D" /\ t[i - 1] = "N" /\ OwnLine(t, i)}

Splits(t) == Opened(t) > 0 /\ Closers(t) # {}

CloseAt(t) == CHOOSE i \in Closers(t) : \A j \in Closers(t) : i <= j

split_frontmatter(t) ==
    LET c == CloseAt(t)
        rest == SubSeq(t, c + 1, Len(t))
    IN [front |-> SubSeq(t, Opened(t) + 1, c - 2),
        body |-> IF Len(rest) >= 2 /\ rest[1] = "R" /\ rest[2] = "N"
                 THEN SubSeq(rest, 3, Len(rest))
                 ELSE IF Len(rest) >= 1 /\ rest[1] = "N" THEN Tail(rest) ELSE rest]

\* The YAML parser wants known keys only, and one document.
Parses(front) == \A i \in 1..Len(front) : front[i] \in {"Y", "N", "R"}

parse_persona_md(f) ==
    /\ f.size = "small" /\ Splits(f.text)
    /\ Parses(split_frontmatter(f.text).front)
    /\ "Y" \in {f.text[i] : i \in 1..Len(f.text)} /\ f.name # ""

(***************************************************************************)
(* Effective settings: the persona's value, else the pack's, else built in.*)
(***************************************************************************)
merge_behavioral_config(p, d) == [k \in DOMAIN p |-> IF p[k] # Absent THEN p[k] ELSE d[k]]

parse_triggers(t) ==
    [mentions |-> IF t.mentions = Absent THEN "yes" ELSE t.mentions,
     keywords |-> t.keywords,
     all |-> IF t.all = Absent THEN "no" ELSE t.all]

resolve_triggers_Deep(p, d) ==
    IF p = <<>> THEN (IF d = <<>> THEN <<>> ELSE <<parse_triggers(d[1])>>)
    ELSE IF d = <<>> THEN <<parse_triggers(p[1])>>
    ELSE <<parse_triggers([k \in DOMAIN p[1] |->
             IF k # "keywords" /\ p[1][k] = Absent THEN d[1][k] ELSE p[1][k]])>>

\* A persona's triggers replace the pack's as a whole.
resolve_triggers(p, d) ==
    IF p # <<>> THEN <<parse_triggers(p[1])>>
    ELSE IF d # <<>> THEN <<parse_triggers(d[1])>> ELSE <<>>

NoTriggers == [mentions |-> "yes", keywords |-> {}, all |-> "no"]

\* The provider a model string names before its colon, if it has one (it may be
\* empty), and whether the string is more than blanks.
split_model(m) == pack.provider[m]
Blank(m) == m \in pack.blanks

resolve_persona_config(f, d) ==
    LET merged == merge_behavioral_config(f.set, d.set)
        trig == resolve_triggers(f.triggers, d.triggers)
    IN [set |-> merged,
        subscribe |-> IF f.subscribe # <<>> THEN f.subscribe[1]
                      ELSE IF d.subscribe # <<>> THEN d.subscribe[1] ELSE {},
        triggers |-> IF trig = <<>> THEN NoTriggers ELSE trig[1],
        thread |-> IF merged.thread = Absent THEN "yes" ELSE merged.thread]

\* Tool servers by name: a persona's replaces the pack's.
merge_mcp_servers(shared, own) ==
    [n \in {x \in DOMAIN shared : shared[x] # Absent} \cup DOMAIN own |->
       IF n \in DOMAIN own THEN own[n] ELSE shared[n]]

Named(name, value) == {v \in {<<name, value>>} : value # Absent}
ModelVars(runtime) ==
    IF runtime = "buzz-agent" THEN [model |-> "BUZZ_AGENT_MODEL", provider |-> "BUZZ_AGENT_PROVIDER"]
    ELSE [model |-> "GOOSE_MODEL", provider |-> "GOOSE_PROVIDER"]

\* Mutant: the names of the first runtime for every runtime.
runtime_env_vars_Goose(f, cfg) ==
    LET m == cfg.set.model
    IN  Named("GOOSE_MODEL", m) \cup Named("GOOSE_PROVIDER", IF m = Absent THEN Absent ELSE split_model(m))
runtime_env_vars(f, cfg) ==
    LET m == cfg.set.model
        names == ModelVars(f.runtime)
    IN Named(names.model, m)
       \cup Named(names.provider, IF m = Absent THEN Absent ELSE split_model(m))
       \cup Named("GOOSE_TEMPERATURE", cfg.set.temperature)
       \cup Named("GOOSE_CONTEXT_LIMIT", cfg.set.context)

(***************************************************************************)
(* load_pack: manifest, personas, instructions, tool servers.              *)
(***************************************************************************)
\* A path with a leading slash or a parent component is refused; so is one
\* whose target lies outside the pack.  A missing file is reported as such.
safe_resolve(where) == where \in {"inside", "missing"}

Readable(where) == safe_resolve(where) /\ where = "inside"

parse_manifest ==
    /\ pack.json /\ pack.id # "" /\ pack.defaults.triggers_type # "wrong"

Fails == pc' = "failed"

load_manifest ==
    /\ pc = "manifest"
    /\ IF parse_manifest THEN pc' = "personas" ELSE Fails
    /\ loaded' = <<>>
    /\ UNCHANGED <<plan, cmd, verdict, valid, resolved>>

load_persona ==
    /\ pc = "personas"
    /\ IF Len(loaded) = Len(pack.personas)
       THEN pc' = "rest" /\ UNCHANGED loaded
       ELSE LET f == pack.personas[Len(loaded) + 1]
            IN IF Readable(f.where) /\ parse_persona_md(f)
               THEN /\ loaded' = Append(loaded, f)
                    /\ pc' = "personas"
               ELSE Fails /\ UNCHANGED loaded
    /\ UNCHANGED <<plan, cmd, verdict, valid, resolved>>

\* A file the manifest names must be there; the default ones need not be.
load_rest ==
    /\ pc = "rest"
    /\ pc' = IF /\ pack.instructions \in {Absent, "inside"}
                /\ pack.mcp \in {Absent, "inside"} /\ pack.mcpParses
             THEN "loaded" ELSE "failed"
    /\ UNCHANGED <<plan, cmd, loaded, verdict, valid, resolved>>

(***************************************************************************)
(* The commands.                                                           *)
(***************************************************************************)
NameFits(n) == n \notin pack.badNames /\ pack.length[n] <= MaxName

semantic_check_personas_Lax == Len(loaded) > 0 /\ \A i \in 1..Len(loaded) : NameFits(loaded[i].name)

\* No pack without personas, no name twice, every name of allowed characters
\* and length.
semantic_check_personas ==
    /\ Len(loaded) > 0
    /\ \A i \in 1..Len(loaded) : NameFits(loaded[i].name)
    /\ \A i, j \in 1..Len(loaded) : loaded[i].name = loaded[j].name => i = j

\* Read from the raw file: a trigger setting that is null loads, and is an
\* error here.
advisory_check_respond_to_types == pack.defaults.triggers_type = "null"

advisory_warnings ==
    (IF pack.unknownKeys THEN 1 ELSE 0) + (IF pack.skillNamesDiffer THEN 1 ELSE 0)

validate_pack ==
    /\ cmd = "validate" /\ pc \in {"loaded", "failed"}
    /\ verdict' = IF pc = "failed" THEN [errors |-> 1, warnings |-> 0]
                  ELSE [errors |-> (IF semantic_check_personas THEN 0 ELSE 1)
                                     + (IF advisory_check_respond_to_types THEN 1 ELSE 0),
                        warnings |-> advisory_warnings]
    /\ valid' = (verdict'.errors = 0)
    /\ cmd' = "between" /\ pc' = "idle"
    /\ UNCHANGED <<plan, loaded, resolved>>

Edit ==
    /\ cmd = "between" /\ plan.edits # {}
    /\ \E p \in plan.edits : plan' = [plan EXCEPT !.pack = p, !.edits = {}]
    /\ valid' = FALSE
    /\ UNCHANGED <<pc, cmd, loaded, verdict, resolved>>

inspect_starts ==
    /\ cmd = "between"
    /\ cmd' = "inspect" /\ pc' = "manifest"
    /\ UNCHANGED <<plan, loaded, verdict, valid, resolved>>

\* The skills are the ones the file lists, as it lists them.
resolve_one_persona(f) ==
    LET cfg == resolve_persona_config(f, pack.defaults)
        m == cfg.set.model
        given == m # Absent /\ ~Blank(m)
    IN [name |-> f.name, prompt |-> split_frontmatter(f.text).body, cfg |-> cfg,
        model |-> IF given THEN m ELSE Absent,
        llm_provider |-> IF given /\ split_model(m) # "" THEN split_model(m) ELSE Absent,
        servers |-> merge_mcp_servers(pack.servers, f.servers),
        skills |-> f.skills,
        env |-> runtime_env_vars(f, cfg)]

\* The resolver's own copy of the semantic checks.
Resolvable ==
    /\ Len(loaded) > 0
    /\ \A i, j \in 1..Len(loaded) : loaded[i].name = loaded[j].name => i = j
    /\ \A i \in 1..Len(loaded) : NameFits(loaded[i].name)

resolve_loaded_pack ==
    /\ cmd = "inspect" /\ pc \in {"loaded", "failed"}
    /\ resolved' = IF pc = "failed" \/ ~Resolvable
                   THEN [ok |-> FALSE]
                   ELSE [ok |-> TRUE,
                         personas |-> [i \in 1..Len(loaded) |-> resolve_one_persona(loaded[i])]]
    /\ cmd' = "done" /\ pc' = "idle"
    /\ UNCHANGED <<plan, loaded, verdict, valid>>

Init ==
    /\ plan \in Plans
    /\ pc = "manifest" /\ cmd = "validate" /\ loaded = <<>>
    /\ verdict = NoVerdict /\ valid = FALSE /\ resolved = [ok |-> FALSE]

Next ==
    \/ load_manifest
    \/ load_persona
    \/ load_rest
    \/ validate_pack
    \/ Edit
    \/ inspect_starts
    \/ resolve_loaded_pack

Spec == Init /\ [][Next]_vars

(***************************************************************************)
(* Properties.                                                             *)
(***************************************************************************)
\* A pack that validate passed, and nobody edited since, resolves
\* (semantic_check_personas against resolve_loaded_pack's own checks).
ValidIsUsable == (cmd = "done" /\ valid) => resolved.ok

\* Every setting of a resolved persona comes from the first of the persona
\* file, the pack's defaults and the built-in value that has it, and triggers
\* come whole from one of them (merge.rs's precedence rules).
Precedence ==
    resolved.ok =>
      \A i \in 1..Len(resolved.personas) :
        LET r == resolved.personas[i].cfg
            f == loaded[i]
            d == pack.defaults
            from == IF f.triggers # <<>> THEN f.triggers ELSE d.triggers
        IN /\ \A k \in DOMAIN r.set :
                r.set[k] = IF f.set[k] # Absent THEN f.set[k] ELSE d.set[k]
           /\ r.subscribe \in {{}} \cup {f.subscribe[j] : j \in 1..Len(f.subscribe)}
                              \cup {d.subscribe[j] : j \in 1..Len(d.subscribe)}
           /\ f.subscribe # <<>> => r.subscribe = f.subscribe[1]
           /\ from = <<>> => r.triggers = NoTriggers
           /\ from # <<>> =>
                /\ r.triggers.keywords = from[1].keywords
                /\ r.triggers.all = "yes" <=> from[1].all = "yes"
                /\ r.triggers.mentions = "no" <=> from[1].mentions = "no"

\* The prompt is what follows the line that closes the frontmatter: no token
\* of the frontmatter reaches it, and no line of it is taken for settings
\* (split_frontmatter).
PromptWhole ==
    resolved.ok =>
      \A i \in 1..Len(resolved.personas) :
        LET t == loaded[i].text
            b == resolved.personas[i].prompt
            cut == Len(t) - Len(b)
        IN /\ \A k \in 1..Len(b) : b[k] = t[cut + k]
           /\ \E c \in 3..cut :
                /\ t[c] = "D" /\ t[c - 1] = "N"
                /\ \A k \in (c + 1)..cut : t[k] \in {"R", "N"}
                /\ c < Len(t) => t[c + 1] \in {"N", "R"}
                /\ \A k \in (Opened(t) + 2)..(c - 1) :
                     ~(t[k] = "D" /\ t[k - 1] = "N" /\ t[k + 1] \in {"N", "R"})

\* The process of an agent is given the model, the provider, the temperature and
\* the context limit that inspect shows for its persona, under the names its
\* runtime reads, and nothing of another runtime's; a model string of blanks or one
\* that starts with its colon apart, which resolve_one_persona drops and
\* runtime_env_vars passes on.
EnvironmentTrue ==
    resolved.ok =>
      \A i \in 1..Len(resolved.personas) :
        LET r == resolved.personas[i]
            m == r.cfg.set.model
            names == ModelVars(loaded[i].runtime)
            value(n) == {v[2] : v \in {x \in r.env : x[1] = n}}
            shown(x) == {x} \ {Absent}
        IN  (m # Absent => ~Blank(m) /\ split_model(m) # "") =>
              /\ value(names.model) = shown(r.model)
              /\ value(names.provider) = shown(r.llm_provider)
              /\ value("GOOSE_TEMPERATURE") = shown(r.cfg.set.temperature)
              /\ value("GOOSE_CONTEXT_LIMIT") = shown(r.cfg.set.context)
              /\ \A v \in r.env : v[1] \in {names.model, names.provider, "GOOSE_TEMPERATURE", "GOOSE_CONTEXT_LIMIT"}
=============================================================================
