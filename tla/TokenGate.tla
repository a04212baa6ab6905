------------------------------ MODULE TokenGate ------------------------------
(***************************************************************************)
(* The two things plugins/jwt-headers remembers between requests, and the  *)
(* requests of one token that race over them: the key set its goroutine    *)
(* fetches, and the verdicts of Keycloak's introspection endpoint, cached  *)
(* by jti.  Keycloak may revoke the token, withdraw the key that signed    *)
(* it, and be out of reach.  What else the handler checks is in            *)
(* GatewayChain.                                                           *)
(*                                                                         *)
(* The host is punctual: a step that can be taken is taken before the      *)
(* clock moves, and an HTTP call ends by its timeout.                      *)
(***************************************************************************)
EXTENDS Integers

CONSTANTS
    Reqs,         \* slots for concurrent requests that carry the token
    TTL,          \* introspection_cache_ttl_seconds; 0 too for a token without jti
    Timeout,      \* of the introspector's http.Client
    CacheTTL,     \* cache_ttl_minutes
    RetryDelay,   \* the sleep after a failed fetch
    FetchTimeout, \* the longest a fetch takes
    MaxFailures,  \* bound: fetches that fail
    LastChange,   \* bound: nothing is revoked or withdrawn, and Keycloak neither
                  \* goes down nor comes up, after this time
    MaxTime       \* bound: the clock stops here

ASSUME TimesAssumption ==
    /\ {TTL, MaxFailures, LastChange, MaxTime} \subseteq Nat
    /\ {Timeout, CacheTTL, RetryDelay, FetchTimeout} \subseteq Nat \ {0}

VARIABLES
    now,
    revoked,   \* when the token was revoked, or Never
    withdrawn, \* when its key was withdrawn, or Never
    up,        \* since when Keycloak serves its key set, or Never if it does not
    jwks,      \* the key set in use: "none" before the first load, "unknown" one
               \* without the key
    fetched,   \* the key set a running fetch was answered with
    wake,      \* when the goroutine fetches, or began to
    failures,  \* how many fetches failed
    cache,     \* the cached verdict; its expires is 0 when there is none
    pc,        \* where each request is
    arrived,   \* when it came
    dl,        \* when its call to Keycloak times out; 0 when there is none
    reply,     \* the answer to it, not yet consumed
    out        \* what became of it

keys  == <<jwks, fetched, wake, failures>>
reqs  == <<pc, arrived, dl, reply, out>>
vars  == <<now, revoked, withdrawn, up, keys, cache, reqs>>

Never == -1

Verdicts == {"active", "inactive"}
Outcomes == {"none", "not_ready", "invalid", "active", "inactive", "failed_open"}

Finish(r, o) ==
    /\ pc' = [pc EXCEPT ![r] = "done"]
    /\ out' = [out EXCEPT ![r] = o]
    /\ reply' = [reply EXCEPT ![r] = "none"]
    /\ dl' = [dl EXCEPT ![r] = 0]
    /\ UNCHANGED arrived

-----------------------------------------------------------------------------
(* The goroutine that loads the key set.                                   *)

KeySet == IF withdrawn = Never THEN "signed" ELSE "unknown"

\* keyfunc.NewDefault returns the keys Keycloak has now or, as it keeps the
\* error of its first request to itself, an empty set if Keycloak is out of
\* reach: that is no failure to the goroutine.
Served ==
    /\ now >= wake /\ fetched = "none"
    /\ fetched' = IF up = Never THEN "unknown" ELSE KeySet
    /\ UNCHANGED <<now, revoked, withdrawn, up, jwks, wake, failures, cache, reqs>>

Install ==
    /\ fetched # "none"
    /\ jwks' = fetched /\ fetched' = "none"
    /\ wake' = now + CacheTTL
    /\ UNCHANGED <<now, revoked, withdrawn, up, failures, cache, reqs>>

\* Mutant: a failed fetch sleeps like a successful one.
FailSleepsLong ==
    /\ now >= wake /\ failures < MaxFailures
    /\ wake' = now + CacheTTL
    /\ fetched' = "none" /\ failures' = failures + 1
    /\ UNCHANGED <<now, revoked, withdrawn, up, jwks, cache, reqs>>

\* NewDefault returns an error (a malformed URL is the one it does not keep to
\* itself): the key set in use stays in use.
FetchFails ==
    /\ now >= wake /\ failures < MaxFailures
    /\ wake' = now + RetryDelay
    /\ fetched' = "none" /\ failures' = failures + 1
    /\ UNCHANGED <<now, revoked, withdrawn, up, jwks, cache, reqs>>

\* The library reads the set in use again by itself, hourly or for a request
\* whose key it does not have; it may have read it up to a FetchTimeout ago.  A
\* request that waits for that counts as arrived when it looks at the result.
Reread ==
    /\ jwks # "none" /\ up # Never
    /\ \/ jwks' = KeySet
       \/ jwks' = "signed" /\ withdrawn # Never /\ now <= withdrawn + FetchTimeout
    /\ UNCHANGED <<now, revoked, withdrawn, up, fetched, wake, failures, cache, reqs>>

-----------------------------------------------------------------------------
(* The handler.                                                            *)

\* The snapshot of the key set, and the signature checked with it.
Arrive(r) ==
    /\ pc[r] \in {"new", "done"}
    /\ arrived' = [arrived EXCEPT ![r] = now]
    /\ \/ /\ jwks = "signed"
          /\ pc' = [pc EXCEPT ![r] = "verified"]
          /\ out' = [out EXCEPT ![r] = "none"]
       \/ /\ jwks # "signed"
          /\ pc' = [pc EXCEPT ![r] = "done"]
          /\ out' = [out EXCEPT ![r] = IF jwks = "none" THEN "not_ready" ELSE "invalid"]
    /\ UNCHANGED <<now, revoked, withdrawn, up, keys, cache, dl, reply>>

\* Mutant: an entry is still good in the second it expires.
NotYetPast == now <= cache.expires

Hit == now < cache.expires

Lookup(r) ==
    /\ pc[r] = "verified"
    /\ \/ /\ Hit
          /\ Finish(r, cache.verdict)
       \/ /\ ~Hit
          /\ pc' = [pc EXCEPT ![r] = "asking"]
          /\ dl' = [dl EXCEPT ![r] = now + Timeout]
          /\ UNCHANGED <<arrived, reply, out>>
    /\ UNCHANGED <<now, revoked, withdrawn, up, keys, cache>>

\* Keycloak answers; the answer may take its time to come back.
Introspect(r) ==
    /\ pc[r] = "asking" /\ reply[r] = "none"
    /\ reply' = [reply EXCEPT ![r] = IF revoked = Never THEN "active" ELSE "inactive"]
    /\ UNCHANGED <<now, revoked, withdrawn, up, keys, cache, pc, arrived, dl, out>>

\* Mutant: the entry expires in the past.
StoreExpired(verdict) == cache' = [verdict |-> verdict, expires |-> now - TTL]

Store(verdict) ==
    cache' = IF TTL = 0 THEN cache ELSE [verdict |-> verdict, expires |-> now + TTL]

OnAnswer(r) ==
    /\ pc[r] = "asking" /\ reply[r] # "none"
    /\ Store(reply[r])
    /\ Finish(r, reply[r])
    /\ UNCHANGED <<now, revoked, withdrawn, up, keys>>

\* Mutant: an endpoint that fails denies.
FailClosed(r) ==
    /\ pc[r] = "asking"
    /\ Finish(r, "inactive")
    /\ UNCHANGED <<now, revoked, withdrawn, up, keys, cache>>

\* A transport error, a timeout, a status other than 200, a body that is not
\* JSON: the token is admitted and nothing is remembered.
OnError(r) ==
    /\ pc[r] = "asking"
    /\ Finish(r, "failed_open")
    /\ UNCHANGED <<now, revoked, withdrawn, up, keys, cache>>

-----------------------------------------------------------------------------

Revoke ==
    /\ revoked = Never /\ now <= LastChange
    /\ revoked' = now
    /\ UNCHANGED <<now, withdrawn, up, keys, cache, reqs>>

Withdraw ==
    /\ withdrawn = Never /\ now <= LastChange
    /\ withdrawn' = now
    /\ UNCHANGED <<now, revoked, up, keys, cache, reqs>>

\* Keycloak's key set cannot be had, and can again.
GoDown ==
    /\ up # Never /\ now <= LastChange
    /\ up' = Never
    /\ UNCHANGED <<now, revoked, withdrawn, keys, cache, reqs>>

ComeUp ==
    /\ up = Never /\ now <= LastChange
    /\ up' = now
    /\ UNCHANGED <<now, revoked, withdrawn, keys, cache, reqs>>

\* The clock waits for nobody but a fetch or a call at its timeout, and for a
\* step that takes no time.
Tick ==
    /\ now < MaxTime
    /\ now < wake + FetchTimeout
    /\ \A r \in Reqs :
          /\ pc[r] # "verified"
          /\ pc[r] = "asking" => now < dl[r]
    /\ now' = now + 1
    /\ UNCHANGED <<revoked, withdrawn, up, keys, cache, reqs>>

Init ==
    /\ now = 0
    /\ revoked = Never /\ withdrawn = Never /\ up \in {0, Never}
    /\ jwks = "none" /\ fetched = "none" /\ wake = 0 /\ failures = 0
    /\ cache = [verdict |-> "inactive", expires |-> 0]
    /\ pc = [r \in Reqs |-> "new"]
    /\ arrived = [r \in Reqs |-> 0] /\ dl = [r \in Reqs |-> 0]
    /\ reply = [r \in Reqs |-> "none"]
    /\ out = [r \in Reqs |-> "none"]

Handler(r) == Arrive(r) \/ Lookup(r) \/ Introspect(r) \/ OnAnswer(r) \/ OnError(r)

Next ==
    \/ Served \/ Install \/ FetchFails \/ Reread
    \/ \E r \in Reqs : Handler(r)
    \/ Revoke \/ Withdraw \/ GoDown \/ ComeUp \/ Tick

Spec == Init /\ [][Next]_vars

-----------------------------------------------------------------------------

\* The type invariant.
TypeOK ==
    /\ now \in Nat
    /\ {revoked, withdrawn, up} \subseteq Nat \cup {Never}
    /\ jwks \in {"none", "signed", "unknown"} /\ fetched \in {"none", "signed", "unknown"}
    /\ wake \in Nat /\ failures \in 0..MaxFailures
    /\ cache \in [verdict : Verdicts, expires : Nat]
    /\ pc \in [Reqs -> {"new", "verified", "asking", "done"}]
    /\ arrived \in [Reqs -> Nat] /\ dl \in [Reqs -> Nat]
    /\ reply \in [Reqs -> {"none"} \cup Verdicts]
    /\ out \in [Reqs -> Outcomes]

\* A revoked token is admitted as active only if it came within the time of
\* one introspection call and one cache TTL after its revocation, although an
\* answer that was slow to come back may be stored over a later denial
\* (main.go: introspector.active stores without looking).
RevocationBounded ==
    \A r \in Reqs : out[r] = "active" /\ revoked # Never => arrived[r] < revoked + Timeout + TTL

\* A token is denied as inactive only if Keycloak said so: neither an error
\* of the endpoint nor a failure that was cached does it (main.go's fail-open).
DeniedForCause == \A r \in Reqs : out[r] = "inactive" => revoked # Never

\* A signature is good for at most a cache TTL after its key was withdrawn,
\* two fetches, and the failed ones in between.
WithdrawalBounded ==
    \A r \in Reqs :
        pc[r] = "verified" /\ withdrawn # Never =>
            arrived[r] <= withdrawn + CacheTTL + 2 * FetchTimeout
                            + MaxFailures * (RetryDelay + FetchTimeout)

\* Once Keycloak can be had, nobody who carries a good token is turned away
\* for longer than it takes the goroutine to fetch again, whether with 503
\* because no key set was loaded or with 401 from an empty one that was
\* installed while Keycloak was out of reach, at the start or in place of a
\* good one (main.go: registerHandlers' goroutine takes an empty set for a
\* success and sleeps a cache TTL).
OpensInTime ==
    \A r \in Reqs :
        out[r] \in {"not_ready", "invalid"} /\ withdrawn = Never /\ up # Never =>
            arrived[r] <= up + CacheTTL + 2 * FetchTimeout
                            + MaxFailures * (RetryDelay + FetchTimeout)

=============================================================================
