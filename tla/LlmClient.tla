------------------------------ MODULE LlmClient ------------------------------
(***************************************************************************)
(* The model client of buzz-agent (crates/buzz-agent/src: llm.rs, auth.rs).*)
(* Requests of several sessions share one Llm: the mesh routing state, the *)
(* sticky upgrade to the Responses API, and the OAuth token source.  A     *)
(* request resolves its model, obtains a bearer, posts with retries, and   *)
(* may refresh the token once, upgrade once and fall back once.            *)
(* Access tokens are numbered in the order of their grants.                *)
(***************************************************************************)
EXTENDS Naturals

CONSTANTS Requests,
          MaxRetries,    \* MAX_RETRIES
          EnableAfter,   \* MESH_AUTO_ENABLE_OBSERVATIONS
          MaxObserved,   \* bound: catalog observations
          MaxFaults,     \* bound: replies that are not a success
          MaxExpiries    \* bound: tokens that expire

VARIABLES mesh,      \* MeshAutoState; fresh: within the TTL, cooling: cooldown_until ahead
          upgraded,  \* auto_upgraded
          token,     \* cached token: its number, and whether the clock calls it expired
          holder,    \* the request that holds the token source's lock
          reqs,      \* each request
          granted,   \* tokens granted by the provider
          revoked,   \* tokens the provider rejects
          confirmed, \* Available observations since the mesh was last seen to fail
          observed, faults

vars == <<mesh, upgraded, token, holder, reqs, granted, revoked, confirmed, observed, faults>>
shared == <<mesh, upgraded, confirmed, observed>>
auth == <<token, holder, granted, revoked>>

Free == "free"
NewReq == [pc |-> "resolve", model |-> "none", bearer |-> 0, tries |-> 0, path |-> "none",
           refreshed |-> FALSE]

Init ==
  /\ mesh = [fresh |-> FALSE, consecutive |-> 0, enabled |-> FALSE, cooling |-> FALSE]
  /\ upgraded = FALSE
  /\ token = [no |-> 1, expired |-> FALSE]
  /\ holder = Free
  /\ reqs = [r \in Requests |-> NewReq]
  /\ granted = 1 /\ revoked = {}
  /\ confirmed = 0 /\ observed = 0 /\ faults = 0

Set(r, req) == reqs' = [reqs EXCEPT ![r] = req]
Done(r) == Set(r, [NewReq EXCEPT !.pc = "done"])  \* answered, or failed

-----------------------------------------------------------------------------
\* resolve_openai_model, for a relay-mesh `auto` request; the state's lock is
\* held over the catalog probe.

Routed(m) == IF m.enabled THEN "mesh" ELSE "auto"
\* The request is built for an endpoint: pinned, upgraded or Chat.
Endpoint == IF upgraded THEN "responses" ELSE "chat"
Build(r, model) ==
  [reqs[r] EXCEPT !.pc = "bearer", !.model = model, !.tries = 0, !.refreshed = FALSE,
                  !.path = Endpoint]

resolve_openai_model(r) ==
  /\ reqs[r].pc = "resolve"
  /\ \/ /\ mesh.cooling
        /\ Set(r, Build(r, "auto"))
        /\ UNCHANGED <<mesh, confirmed, observed>>
     \/ /\ ~mesh.cooling /\ mesh.fresh
        /\ Set(r, Build(r, Routed(mesh)))
        /\ UNCHANGED <<mesh, confirmed, observed>>
     \/ /\ ~mesh.cooling /\ ~mesh.fresh /\ observed < MaxObserved
        /\ observed' = observed + 1
        /\ \/ LET n == mesh.consecutive + 1 IN  \* Available
              /\ mesh' = [mesh EXCEPT !.fresh = TRUE, !.consecutive = n,
                                      !.enabled = @ \/ n >= EnableAfter]
              /\ confirmed' = confirmed + 1
           \/ /\ mesh' = [fresh |-> TRUE, consecutive |-> 0, enabled |-> FALSE,  \* Unavailable
                          cooling |-> mesh.enabled]
              /\ confirmed' = 0
           \/ /\ mesh' = [mesh EXCEPT !.fresh = TRUE]  \* Unknown
              /\ UNCHANGED confirmed
        /\ Set(r, Build(r, Routed(mesh')))
  /\ UNCHANGED <<upgraded, faults, token, holder, granted, revoked>>

TtlElapses ==
  /\ mesh.fresh
  /\ mesh' = [mesh EXCEPT !.fresh = FALSE]
  /\ UNCHANGED <<upgraded, token, holder, reqs, granted, revoked, confirmed, observed, faults>>
CooldownElapses ==
  /\ mesh.cooling /\ ~mesh.fresh
  /\ mesh' = [mesh EXCEPT !.cooling = FALSE]
  /\ UNCHANGED <<upgraded, token, holder, reqs, granted, revoked, confirmed, observed, faults>>

cool_down_collective_KeepsCount ==
  mesh' = [mesh EXCEPT !.fresh = TRUE, !.enabled = FALSE, !.cooling = TRUE]
cool_down_collective ==
  mesh' = [fresh |-> TRUE, consecutive |-> 0, enabled |-> FALSE, cooling |-> TRUE]

-----------------------------------------------------------------------------
\* The token source: one flow at a time, under its lock.

TokenExpires ==
  /\ ~token.expired /\ token.no <= MaxExpiries
  /\ token' = [token EXCEPT !.expired = TRUE]
  /\ UNCHANGED <<shared, holder, reqs, granted, revoked, faults>>
TokenRevoked ==
  /\ faults < MaxFaults /\ granted \notin revoked
  /\ faults' = faults + 1
  /\ revoked' = revoked \cup {granted}
  /\ UNCHANGED <<shared, token, holder, reqs, granted>>

\* bearer: the cached token, unless the clock calls it expired.
bearer(r) ==
  /\ reqs[r].pc = "bearer" /\ holder = Free
  /\ IF token.expired
     THEN holder' = r /\ Set(r, [reqs[r] EXCEPT !.pc = "granting"])
     ELSE UNCHANGED holder /\ Set(r, [reqs[r] EXCEPT !.pc = "post", !.bearer = token.no])
  /\ UNCHANGED <<shared, faults, token, granted, revoked>>

\* refresh_now: a token other than the rejected one was already refreshed.
refresh_now_Always(r) ==
  /\ reqs[r].pc = "refresh" /\ holder = Free
  /\ holder' = r /\ Set(r, [reqs[r] EXCEPT !.pc = "granting"])
  /\ UNCHANGED <<shared, faults, token, granted, revoked>>
refresh_now(r) ==
  /\ reqs[r].pc = "refresh" /\ holder = Free
  /\ IF token.no # reqs[r].bearer
     THEN UNCHANGED holder /\ Set(r, [reqs[r] EXCEPT !.pc = "post", !.bearer = token.no, !.tries = 0])
     ELSE holder' = r /\ Set(r, [reqs[r] EXCEPT !.pc = "granting"])
  /\ UNCHANGED <<shared, faults, token, granted, revoked>>

\* The grant runs with the lock held: a new token is saved and used, or the
\* request ends with an authentication error.
grant(r) ==
  /\ reqs[r].pc = "granting"
  /\ holder' = Free
  /\ \/ /\ granted' = granted + 1
        /\ token' = [no |-> granted + 1, expired |-> FALSE]
        /\ Set(r, [reqs[r] EXCEPT !.pc = "post", !.bearer = granted + 1, !.tries = 0])
        /\ UNCHANGED faults
     \/ /\ faults < MaxFaults /\ faults' = faults + 1
        /\ Done(r)
        /\ UNCHANGED <<token, granted>>
  /\ UNCHANGED <<shared, revoked>>

-----------------------------------------------------------------------------
\* post and what its callers make of the reply.

Fault == faults < MaxFaults /\ faults' = faults + 1

\* A retryable status or transport error is retried up to MAX_RETRIES attempts.
post_retry(r) ==
  /\ reqs[r].pc = "post" /\ Fault
  /\ IF reqs[r].tries + 1 < MaxRetries THEN Set(r, [reqs[r] EXCEPT !.tries = @ + 1])
     ELSE Done(r)
  /\ UNCHANGED <<shared, auth>>

\* 401 or 403: refresh once per call.
post_auth(r) ==
  /\ reqs[r].pc = "post" /\ reqs[r].bearer \in revoked
  /\ IF reqs[r].refreshed THEN Done(r)
     ELSE Set(r, [reqs[r] EXCEPT !.pc = "refresh", !.refreshed = TRUE])
  /\ UNCHANGED <<shared, auth, faults>>

\* The provider names the Responses API: latch, and post again there.
try_upgrade(r) ==
  /\ reqs[r].pc = "post" /\ reqs[r].bearer \notin revoked /\ reqs[r].path = "chat" /\ Fault
  /\ upgraded' = TRUE
  /\ Set(r, [reqs[r] EXCEPT !.pc = "bearer", !.path = "responses", !.tries = 0, !.refreshed = FALSE])
  /\ UNCHANGED <<mesh, confirmed, observed, auth>>

\* A mesh failure, or tool markup in plain text: the collective cools down and
\* the request goes once to the ordinary auto model.
mesh_fallback(r) ==
  /\ reqs[r].pc = "post" /\ reqs[r].bearer \notin revoked /\ reqs[r].model = "mesh" /\ Fault
  /\ cool_down_collective
  /\ confirmed' = 0
  /\ Set(r, Build(r, "auto"))
  /\ UNCHANGED <<upgraded, observed, auth>>

\* Any other error status, a body that breaks off, or one that does not parse.
post_fails(r) ==
  /\ reqs[r].pc = "post" /\ reqs[r].bearer \notin revoked /\ Fault
  /\ Done(r)
  /\ UNCHANGED <<shared, auth>>

post_ok(r) ==
  /\ reqs[r].pc = "post" /\ reqs[r].bearer \notin revoked
  /\ Done(r)
  /\ UNCHANGED <<shared, auth, faults>>

\* The session asks again.
NextRequest(r) ==
  /\ reqs[r].pc = "done" /\ observed < MaxObserved
  /\ Set(r, NewReq)
  /\ UNCHANGED <<shared, auth, faults>>

RequestStep(r) ==
  \/ resolve_openai_model(r) \/ bearer(r) \/ refresh_now(r) \/ grant(r)
  \/ post_retry(r) \/ post_auth(r) \/ try_upgrade(r) \/ mesh_fallback(r)
  \/ post_fails(r) \/ post_ok(r)

Next ==
  \/ TtlElapses \/ CooldownElapses \/ TokenRevoked
  \/ TokenExpires
  \/ \E r \in Requests : RequestStep(r) \/ NextRequest(r)
Spec == Init /\ [][Next]_vars

-----------------------------------------------------------------------------

\* A request is routed to the collective only after MESH_AUTO_ENABLE_OBSERVATIONS
\* catalogs in a row showed it since it last failed or disappeared: the routing
\* does not bounce (resolve_openai_model, cool_down_collective).
CollectiveConfirmed ==
  [][\A r \in Requests :
       reqs[r].pc = "resolve" /\ reqs'[r].model = "mesh" => confirmed' >= EnableAfter]_vars

\* Requests rejected with the same token share one grant: the provider is never
\* asked for a new token while the newest one is neither expired nor rejected
\* (refresh_now's comparison under the lock).
GrantsNeeded ==
  [][granted' > granted => token.expired \/ granted \in revoked]_vars
=============================================================================
