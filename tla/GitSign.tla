------------------------------ MODULE GitSign ------------------------------
(***************************************************************************)
(* The three programs git runs for an agent, and the directory that sets   *)
(* them up.  buzz-dev-mcp/shim.rs writes the agent's key to a file and     *)
(* hands shell children a git configuration naming it; git-sign-nostr      *)
(* signs and verifies commits for git; git-credential-nostr answers git's  *)
(* credential requests with a signed NIP-98 event.                         *)
(*                                                                         *)
(* A signature is ideal: [key, over] is what `key` made over `over`, and   *)
(* nobody else can make it.  The bytes that are hashed are a sequence of   *)
(* fields, put together by concatenation exactly as the code feeds them to *)
(* SHA-256.  A stored object or signature may be damaged once between the  *)
(* signing and the verification: one field rewritten, or the armor broken. *)
(***************************************************************************)
EXTENDS Integers, Sequences, FiniteSets

CONSTANTS
    \* the situations to explore: the environment, the key file, the git
    \* configuration, the attestation, the status descriptors and the
    \* credential requests of one session
    Plans,
    \* the last second of the clock
    MaxTime,
    \* how many stored fields may be damaged, and how many status writes fail
    MaxDamage,
    MaxFaults

VARIABLES
    plan,     \* the situation, fixed at the start
    env,      \* the environment and git configuration the programs see
    now,      \* the clock
    object,   \* the git object: payload and stored signature
    made,     \* every signature do_sign produced: what was signed by whom
    check,    \* what the verification wrote and returned
    cred,     \* what the credential helper answered
    left      \* damage and write failures still allowed

vars == <<plan, env, now, object, made, check, cred, left>>

None == "none"

---------------------------------------------------------------------------
(* The shim.                                                               *)

\* write_keyfile: only a key that parses is written (0600, created new); any
\* failure leaves git without the nostr configuration.
write_keyfile(k) == k \notin {None, "bad"}

\* Shim::install: NOSTR_PRIVATE_KEY leaves the environment whether or not the
\* file could be written; BUZZ_PRIVATE_KEY stays for the buzz command.
install ==
    /\ env.stage = "boot"
    /\ plan.shim
    /\ \E written \in {TRUE, FALSE} :
         /\ ~written => left.faults > 0
         /\ left' = [left EXCEPT !.faults = IF written THEN @ ELSE @ - 1]
         /\ env' = IF written /\ write_keyfile(plan.nostr)
                   THEN [env EXCEPT !.stage = "ready", !.nostr = None,
                                    !.keyfile = [key |-> plan.nostr, kind |-> "ok"],
                                    !.signingkey = plan.nostr, !.helper = TRUE]
                   ELSE [env EXCEPT !.stage = "ready", !.nostr = None]
    /\ UNCHANGED <<plan, now, object, made, check, cred>>

\* A session that runs git with its own configuration.
without_shim ==
    /\ env.stage = "boot"
    /\ ~plan.shim
    /\ env' = [env EXCEPT !.stage = "ready"]
    /\ UNCHANGED <<plan, now, object, made, check, cred, left>>

---------------------------------------------------------------------------
(* Keys, attestations and the signed bytes.                                *)

\* open_keyfile and read_keyfile_secure: no symlink, a regular file, no bits
\* beyond 0600, owned by this user, at most 1024 bytes.
read_keyfile_secure(f) == IF f.kind \in {"ok", "mid"} THEN f.key ELSE None

\* load_key of the signer: the two variables first (an empty one is passed
\* over), then the configured file.
SignerKey(e) ==
    IF e.nostr # None THEN e.nostr
    ELSE IF e.buzz # None THEN e.buzz
    ELSE read_keyfile_secure(e.keyfile)

\* A clause of NIP-OA conditions holds at t; kind= clauses are not judged.
ClauseHolds(c, t) ==
    /\ c[1] = "lt" => t < c[2]
    /\ c[1] = "gt" => t > c[2]

\* validate_conditions: known clauses with canonical u32 values.
validate_conditions(conds) == \A c \in conds : c[1] \in {"kind", "lt", "gt"}

\* The fields of an attestation parse: hexadecimal of the right length, an
\* owner that is a curve point, valid conditions.
WellFormed(oa) == oa.form = "ok" /\ validate_conditions(oa.conds)

enforce_conditions(conds, t) == \A c \in conds : ClauseHolds(c, t)

\* verify_oa: the owner signed this agent's key with these conditions.
verify_oa(pk, oa) == oa.sig = [key |-> oa.owner, over |-> <<pk, oa.conds>>]

\* compute_signing_hash: time, then the three attestation fields when there
\* is one, then the payload.
SigningHash_NoOa(t, oa, payload) == <<t>> \o payload

compute_signing_hash(t, oa, payload) ==
    <<t>> \o (IF oa = <<>> THEN <<>> ELSE <<oa[1].owner, oa[1].conds, oa[1].sig>>)
          \o payload

\* load_auth_tag of the signer: the variable, else the configuration read
\* strictly; a tag that is there and unusable is an error, not an absence.
TagConfigured(p) == IF p.tagenv # <<>> THEN p.tagenv ELSE p.tagconf
TagBroken(p) ==
    \/ TagConfigured(p) = <<>> /\ p.conferror
    \/ TagConfigured(p) # <<>> /\ ~WellFormed(TagConfigured(p)[1])

\* do_sign's checks of the tag: an owner other than the signer, the owner's
\* signature, and the time window at the moment of signing.
TagUsable(k, oa, t) ==
    /\ oa.owner # k
    /\ verify_oa(k, oa)
    /\ enforce_conditions(oa.conds, t)

---------------------------------------------------------------------------
(* Signing.                                                                *)

\* parse_args: one mode, each flag once, a file and "-" for a verification.
parse_args(args) == args = "git"

KeyArgMatches_Unchecked(arg, k) == TRUE

\* The -u argument: empty is no demand; anything else must be a key in a known
\* form and equal to the loaded one.
KeyArgMatches(arg, k) == arg = None \/ (arg # "odd" /\ arg = k)

\* run: in sign mode the status descriptor 1 is replaced by 2, so that stdout
\* holds the signature alone.
\* Mutant: the descriptor is taken as it is.
effective_fd_Given(fd) == fd
effective_fd(fd) == IF fd = 1 THEN 2 ELSE fd

\* What do_sign refuses, in the order it looks.
SignRefused(k) ==
    \/ ~parse_args(plan.args)
    \/ k \in {None, "bad"}
    \/ ~KeyArgMatches(env.signingkey, k)
    \/ plan.oversized
    \/ TagBroken(plan)
    \/ /\ TagConfigured(plan) # <<>>
       /\ ~TagUsable(k, TagConfigured(plan)[1], now)

do_sign ==
    LET k == SignerKey(env)
        oa == TagConfigured(plan)
        sig == [key |-> k, over |-> compute_signing_hash(now, oa, plan.payload)]
    IN  /\ env.stage = "ready"
        /\ ~object.tried
        /\ \/ /\ SignRefused(k)
              /\ object' = [object EXCEPT !.tried = TRUE]
              /\ UNCHANGED <<made, left>>
           \/ /\ ~SignRefused(k)
              /\ object' = [tried |-> TRUE, stored |-> TRUE, payload |-> plan.payload,
                            form |-> IF effective_fd(plan.signfd) = 1 THEN "mixed" ELSE "armor",
                            pk |-> k, t |-> now, oa |-> oa, sig |-> sig, damaged |-> FALSE]
              /\ made' = made \cup {[key |-> k, t |-> now, oa |-> oa, payload |-> plan.payload]}
              /\ UNCHANGED left
           \/ /\ ~SignRefused(k)          \* stdout could not be written
              /\ left.faults > 0
              /\ object' = [object EXCEPT !.tried = TRUE]
              /\ left' = [left EXCEPT !.faults = @ - 1]
              /\ UNCHANGED made
        /\ UNCHANGED <<plan, env, now, check, cred>>

---------------------------------------------------------------------------
(* What may happen to the object before it is verified.                    *)

Tick ==
    /\ now < MaxTime
    /\ now' = now + 1
    /\ UNCHANGED <<plan, env, object, made, check, cred, left>>

damage ==
    /\ object.stored
    /\ check.exit = None
    /\ left.damage > 0
    /\ \/ object' = [object EXCEPT !.payload = <<"tree", "y">>, !.damaged = TRUE]
       \/ \E t \in 0..MaxTime : object' = [object EXCEPT !.t = t, !.damaged = TRUE]
       \/ object' = [object EXCEPT !.oa = <<>>, !.damaged = TRUE]
       \/ plan.othertag # <<>> /\ object' = [object EXCEPT !.oa = plan.othertag, !.damaged = TRUE]
       \/ object' = [object EXCEPT !.pk = "k2", !.damaged = TRUE]
       \/ \E f \in {"missing", "cut", "spaced", "reordered"} :
            object' = [object EXCEPT !.form = f, !.damaged = TRUE]
    /\ left' = [left EXCEPT !.damage = @ - 1]
    /\ UNCHANGED <<plan, env, now, made, check, cred>>

---------------------------------------------------------------------------
(* Verifying.                                                              *)

\* Everything that ends in ERRSIG before the signature counts: no file or one
\* too large, no exact armor (status lines mixed in break it), base64 or JSON
\* that is not canonical, fields that do not parse, an attestation by oneself.
read_bounded_file(form) == form # "missing"
parse_armor(form) == form \notin {"mixed", "cut"}
has_non_string_whitespace(form) == form = "spaced"
parse_envelope(form, pk, oa) ==
    /\ form # "reordered"
    /\ oa # <<>> => WellFormed(oa[1]) /\ oa[1].owner # pk

Unreadable ==
    \/ ~read_bounded_file(object.form)
    \/ ~parse_armor(object.form)
    \/ has_non_string_whitespace(object.form)
    \/ ~parse_envelope(object.form, object.pk, object.oa)

OaTime_Now == now
OaTime == object.t

\* The attestation's verdict, judged at the time in the envelope.
OaStatus ==
    IF object.oa = <<>> THEN "none"
    ELSE IF ~verify_oa(object.pk, object.oa[1]) THEN "invalid_signature"
    ELSE IF ~enforce_conditions(object.oa[1].conds, OaTime) THEN "expired"
    ELSE "valid"

\* determine_trust: advisory, the configured signing key and nothing else.
determine_trust == IF env.signingkey = object.pk THEN "TRUST_FULLY" ELSE "TRUST_UNDEFINED"

GoodLines == << "NEWSIG", "GOODSIG", "VALIDSIG", determine_trust,
                "advisory", OaStatus >>

Finish(lines, exit) == check' = [lines |-> lines, exit |-> exit]

WritesStop_Never(n) == n = 0
\* status_or_fail: a line that cannot be written ends the verification with an
\* error; nothing after it is written.
WritesStop(n) == TRUE

do_verify ==
    /\ object.stored
    /\ check.exit = None
    /\ \/ /\ plan.verifyfd = "closed" \/ ~parse_args(plan.args)
          /\ Finish(<<>>, "failed")
          /\ UNCHANGED left
       \/ /\ plan.verifyfd # "closed" /\ parse_args(plan.args)
          /\ Unreadable
          /\ Finish(<<"ERRSIG">>, "failed")
          /\ UNCHANGED left
       \/ /\ plan.verifyfd # "closed" /\ parse_args(plan.args)
          /\ ~Unreadable
          /\ object.sig # [key |-> object.pk,
                           over |-> compute_signing_hash(object.t, object.oa, object.payload)]
          /\ Finish(<<"NEWSIG", "BADSIG">>, "failed")
          /\ UNCHANGED left
       \/ /\ plan.verifyfd # "closed" /\ parse_args(plan.args)
          /\ ~Unreadable
          /\ object.sig = [key |-> object.pk,
                           over |-> compute_signing_hash(object.t, object.oa, object.payload)]
          /\ \/ Finish(GoodLines, "ok") /\ UNCHANGED left
             \/ \E n \in 0..(Len(GoodLines) - 1) :
                  /\ left.faults > 0
                  /\ Finish(SubSeq(GoodLines, 1, n), IF WritesStop(n) THEN "failed" ELSE "ok")
                  /\ left' = [left EXCEPT !.faults = @ - 1]
    /\ UNCHANGED <<plan, env, now, object, made, cred>>

---------------------------------------------------------------------------
(* The credential helper.                                                  *)

\* load_key of the helper: one variable, then the file (regular, 0600, at most
\* 256 bytes; a symlink is followed).
HelperKey(e) ==
    IF e.nostr # None THEN e.nostr
    ELSE IF e.keyfile.kind \in {"ok", "link", "other"} THEN e.keyfile.key
    ELSE None

\* load_auth_tag of the helper: a configuration that cannot be read counts as
\* no tag, and only the shape of the array is looked at.
HelperTag(p) == TagConfigured(p)

\* The URL git is asked to sign is that of the repository, whatever service
\* endpoint of it the request was for.
RepoPath_AsAsked(path) == path
RepoPath(path) ==
    IF path[2] \in {"info/refs", "git-upload-pack", "git-receive-pack"}
    THEN <<path[1], "">>
    ELSE path

Declines_Capability(r) == ~r.authtype

\* Without the authtype capability, or without a WWW-Authenticate: Nostr line
\* that names the method, there is no answer and no error.
Declines(r) == ~r.authtype \/ ~r.challenge
HelperFails(r) ==
    \/ r.path = <<>>
    \/ HelperKey(env) \in {None, "bad"}
    \/ HelperTag(plan) # <<>> /\ HelperTag(plan)[1].form = "shape"

\* run: a request without the capability or without a Nostr challenge is left
\* to the next helper before anything else is looked at.
credential_get ==
    /\ env.stage = "ready"
    /\ \E r \in plan.requests \ {c.req : c \in cred} :
         cred' = cred \cup
           {IF Declines(r) THEN [req |-> r, answer |-> "pass", key |-> None, url |-> <<>>]
            ELSE IF HelperFails(r) THEN [req |-> r, answer |-> "error", key |-> None, url |-> <<>>]
            ELSE [req |-> r, answer |-> "credential", key |-> HelperKey(env),
                  url |-> RepoPath(r.path)]}
    /\ UNCHANGED <<plan, env, now, object, made, check, left>>

---------------------------------------------------------------------------

Init ==
    /\ plan \in Plans
    /\ env = [stage |-> "boot", nostr |-> plan.nostr, buzz |-> plan.buzz,
              keyfile |-> plan.keyfile, signingkey |-> plan.signingkey, helper |-> FALSE]
    /\ now = 1
    /\ object = [tried |-> FALSE, stored |-> FALSE, payload |-> <<>>, form |-> "none",
                 pk |-> None, t |-> 0, oa |-> <<>>, sig |-> <<>>, damaged |-> FALSE]
    /\ made = {}
    /\ check = [lines |-> <<>>, exit |-> None]
    /\ cred = {}
    /\ left = [damage |-> MaxDamage, faults |-> MaxFaults]

Next ==
    \/ install \/ without_shim \/ do_sign \/ Tick \/ damage
    \/ do_verify \/ credential_get

Spec == Init /\ [][Next]_vars

---------------------------------------------------------------------------
(* Properties.                                                             *)

Good == \E i \in 1..Len(check.lines) : check.lines[i] = "GOODSIG"

\* do_verify reports GOODSIG only for a key, time, attestation and payload
\* that do_sign really signed together, however the stored copy was damaged;
\* and a whole, undamaged signature is reported good with its attestation
\* valid at any later time, because the window is judged at the signing time
\* in the envelope.
GoodIsSigned ==
    /\ Good => [key |-> object.pk, t |-> object.t, oa |-> object.oa,
                payload |-> object.payload] \in made
    /\ check.exit = "ok" => Good
    /\ (check.exit # None /\ ~object.damaged /\ plan.verifyfd = "open"
            /\ left.faults = MaxFaults) =>
         Good /\ check.lines[Len(check.lines)] = (IF object.oa = <<>> THEN "none" ELSE "valid")

\* A successful exit means every status line git relies on was delivered,
\* the attestation's included; a verification that could not deliver them all
\* fails (status_or_fail).
StatusWhole == check.exit = "ok" => Len(check.lines) = 6

\* In a session the shim set up, the key commits are signed with is the one
\* pushes are authenticated with and the one named in user.signingkey, even
\* when BUZZ_PRIVATE_KEY holds another key: then signing fails instead.
OneKey ==
    env.helper =>
      /\ \A m \in made : m.key = env.signingkey
      /\ \A c \in cred : c.answer = "credential" => c.key = env.signingkey

\* A remote that is not a Buzz relay is always left to the other credential
\* helpers, and a credential always names the repository's own URL, the one
\* the relay verifies, for each of the endpoints a fetch or push uses.
CredentialFits ==
    \A c \in cred :
      /\ ~c.req.challenge => c.answer = "pass"
      /\ c.answer = "credential" => c.url[2] = ""
=============================================================================
