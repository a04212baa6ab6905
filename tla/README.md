# Formal verification of the KrakenD gateway

TLA+ models of the plugins of this gateway, the TLC runs that check them on
small instances and the TLAPS proofs that hold for all instances. Paths below
are relative to the repository's root (`src/` in `PROJECT.json`).

Run a check with `tlc -config X.cfg M`, a proof with `tlapm M.tla`, both in
this directory. `PROJECT.json` lists runs, mutants, hazards, findings,
theorems and, under `map`, the source lines of every definition.

## 1. The system

A request passes a chain of KrakenD server plugins, then KrakenD's router and
its endpoint proxy:

    client -> gateway-timeout -> accept-language -> trace-context
           -> session-resolver -> jwt-headers -> router -> proxy -> backend

`config/krakend.tmpl` declares that chain in the reverse order, because KrakenD
wraps each plugin around the ones declared before it.

| Component | State it keeps | Operations | Talks to |
|---|---|---|---|
| session-resolver, handler (`plugins/session-resolver/main.go`) | one handler's locals | decide, load, ceiling, refresh, renewIdle, forward or deny | store, refresher |
| session-resolver, store (`session.go`) | `v1:session:{sid}` in Valkey | load (HMGET), renewIdle (TTL, EXPIRE), drop (DEL), each under a timeout | Valkey |
| session-resolver, refresher (`refresh.go`) | `v1:lock:refresh:{sid}` in Valkey | refresh, acquire (SET NX EX), callAuthBff, release (Lua compare and delete), waitForOtherRefresh | Valkey, auth-bff |
| auth-bff, Keycloak, Valkey | sessions, refresh tokens, keys | outside the repository; modelled from how the plugins use them | |
| decide, matchers (`decide.go`, `matchers.go`) | none | skip paths, preflight, bearer first, cookie format, origin check | |
| jwt-headers, handler (`plugins/jwt-headers/main.go`) | none | strip managed headers, skip, verify, required claims, introspect, roles, inject | key set, introspector |
| jwt-headers, key set | `jwks`, `jwksReady` under a lock | a goroutine that fetches, swaps, sleeps, retries | Keycloak JWKS |
| jwt-headers, introspector | cache of verdicts by jti under a lock | lookup, call, store | Keycloak introspection |
| gateway-timeout (`plugins/gateway-timeout/main.go`) | `timeoutRewriter`: committed, holdingError, bodyWritten | WriteHeader, Write, Flush, finalize | the whole chain, through the ResponseWriter |
| derived configuration (`config/krakend.tmpl`) | skip_paths of both plugins and required_roles, from `endpoints.json` | rendered once | both authenticating plugins |
| generator (`cmd/gen`) | `endpoints.json` | Validate, Normalize, filter, emit | build time only |
| from a pull request to `main` (`Makefile`, `pull-request.yml`, ruleset, `check-endpoint-authorization.sh`) | the two endpoint files of each branch and of `main`, the status check | make gen, make check, update, merge | generator, git, GitHub |
| trace-context, accept-language | none | resolve the trace, fill in the language | |
| deployment (`docker-compose.yml`, `Makefile`, `check-plugins-loaded.sh`) | container, its environment, mounted files, log | up, restart, stop, down; the gate | KrakenD, every plugin's parseConfig |
| the other `scripts/` | none | build-time checks | |

Where it is hard:

- **Concurrency without a common memory.** Requests of one session, on several
  replicas, meet only in Valkey: a record, and a lock with a TTL.
- **Partial failure.** Each store command or call may time out before or after
  its effect, and a write may land after its sender gave up. A 401 logs the
  user out and a 503 does not, so each failure must get the right one.
- **Time.** Five durations (store, refresh, lock TTL, poll interval, wait) are
  set apart and must fit; two more (min_elapsed, endpoint timeouts) as well.
- **Caches.** A verdict or a key set is used after the world has changed.
- **A generated file under version control.** `endpoints.json` is made from
  `endpoints.yaml`, but committed and merged on its own.
- **What runs is not what is written.** KrakenD serves without a plugin that
  refuses its configuration or is not built; only a script that reads a log finds
  out, and it reads while the gateway may start again.
- **Composition.** What is public is decided in two plugins from lists derived
  from a third file, in an order that is the reverse of the written one.

What makes each component correct: the resolver forwards only a token at least
as fresh as it had to be, denies with 401 only a session that is over, refreshes
a token once, loses no session without cause and answers everybody; the
rewriter changes nothing but an empty slow 500; the gate honours what Keycloak
withdrew for a bounded time only and never denies on a failure; the chain lets
nothing reach a protected endpoint without a verified identity, keeps the
cookie and forged claim headers at the edge and gives a backend one trace; a gateway
that the gate vouched for is one with the whole chain.

## 2. Modules

| Module | Models | Checked by |
|---|---|---|
| `SessionPromise` | abstract: what the front end may rely on for the requests of one session | through `ImplementsPromise` |
| `SessionResolver` | handler, store and refresher for concurrent requests of one session; Valkey, auth-bff, Keycloak around them. No assumption on delays. Implements `SessionPromise` | `MCSession`: `any_delay` |
| `PunctualResolver` | the same on a host that keeps its deadlines; what the lock and the waits are for; fairness | `MCPunctual`: `punctual` and three violations |
| `TimedResponse` | abstract: what a client may rely on for a response | through `KeepsPromise` |
| `GatewayTimeout` | `timeoutRewriter` with net/http below and chain and endpoint inside; implements `TimedResponse` | `MCTimeout`: `gateway_timeout`, `shipped_timeout` |
| `PathPatterns` | the two path pattern languages (skip paths, role rules) | through `GatewayChain` |
| `GatewayChain` | one request through the five plugins, whichever are on, and the router, with the derived configuration | `MCChain`: `chain`, `public_overlap` |
| `EdgeBoot` | how that chain comes to be: edits, compose, KrakenD composing, the gate; extends `GatewayChain` | `MCBoot`: `boot` |
| `TokenGate` | key set goroutine, introspection cache and the requests of one token | `MCTokenGate`: `token_gate` |
| `Generator` | Validate, Normalize, the product filter; the guard of the role rules | through `PullRequests` |
| `PullRequests` | pull requests that change the endpoints, CI and the ruleset of `main` | `MCPullRequests`: `merges` |
| `*Proofs` | theorems, section 6 | `tlapm` |

`GatewayChain` uses the two stateful models by their outcomes: `Resolve` is any
ending of `SessionResolver` (a token or a denial), `Deny("inactive")` and
`Deny("not_ready")` are those of `TokenGate`, as is `Deny("invalid")` of a good
token.

### SessionPromise

A session is live, doomed (still there, but past its ceiling or revoked) or
gone, and only gets worse. A request is admitted when the session is seen to
exist after the request arrived; only an admitted one is forwarded, only one
whose session is no longer live gets a 401, and no answer is taken back.
`SessionResolver` maps `Life` and `AnswerOf` to it. The promise does not say
that the session still exists when the request goes on: a logout between the
load and the backend cannot be noticed by anybody.

### SessionResolver

An access token is named by the exp it was minted with; 0 is the empty token,
and a malformed exp or abs_exp reads as 0 because `asInt64` does that. `pc[r]`
is the operation in which request `r`'s handler waits; `dl[r]` is the end of
that operation's context. HMGET, SET NX and the POST are two steps, the
server's (`LoadExec`, `SetNxExec`, the `Bff*` actions) and the handler's
(`On*`), since what the handler decides depends on when it learns the answer.
DEL, TTL, EXPIRE and the release script are one step: their answer only moves
the handler on. `Fail` ends any operation with an error, at its deadline or,
with `"error"`, at any time; `LeaveBehind` lets a write that was given up on be
lost or land later (`LateExec`), so "failed" may mean "happened".
A record has all its fields or is none: auth-bff writes them at once, so the one
that load takes a missing session from (`session.go:80`) is not missing alone.

| Action | Code |
|---|---|
| `Arrive`, `OnLoad` | handler up to the refresh decision: miss, empty token, ceiling and drop, near expiry |
| `OnReload` | refresh's own load, ceiling, observedExp, "somebody was faster" |
| `SetNxExec`, `OnAcquire` | acquire; a nil reply sends the caller to wait |
| `OnRecheck`, `OnCall` | the re-check under the lock, the POST and its statuses |
| `Wake`, `OnPoll`, `PollAgain`, `GiveUp` | the loop of waitForOtherRefresh |
| `Release` | the deferred release, on every return under the lock |
| `Drop`, `Ttl`, `ExpireExec` | drop and renewIdle (EXPIRE runs under TTL's context) |
| `Crash`, `Logout`, `Revoke` | a process, the user, Keycloak |

`Faults` says which failures may happen: `error` (any operation, and auth-bff's
non-401 statuses), `late`, `crash`, `logout`, `revoke` (of the refresh token),
`garble` (an empty access_token in answer and record), `orphan` (auth-bff works
on after its caller hung up).

auth-bff is external. It follows its contract in `docs/session-flow.md`: the
record is rewritten, with a strictly greater exp, before the answer. `RefreshedOnce`,
`UnauthorizedOnlyIfDead` and `RemovedForCause` say what the gateway does given that.

### PunctualResolver

`PunctualTick` lets the clock pass only while no handler has reached a deadline:
contexts end on time and `time.Sleep` wakes on time. Without it a process may be
paused for longer than the lock's TTL, and no lock with a TTL is exclusive; this
is why exclusion is claimed here and not in `SessionResolver`. `arrived` is a
history variable: when each request that is under way arrived, for
`AnsweredInTime`.

### GatewayTimeout

The handler below the rewriter may call WriteHeader, Write and Flush in any
order; the plugins in front of the router take at most `ChainTime`; KrakenD
answers an empty 500 when its endpoint timeout is over or the backend cannot be
reached. The refinement mapping takes a held status for a named one.

### GatewayChain

Paths are sequences of segments; patterns have `Star` for a parameter, exactly as
the template's `regexReplaceAll` leaves them. `edge` is what runs, the outermost
plugin first: the reverse of any array that the template renders (each plugin on
or off) or that somebody may declare by hand and `check-plugin-chain-order.sh`
accepts; and whether roles are enforced. `req` is the request as the next handler
sees it, `sent` as the client wrote it.

Claims are JSON values: their text (what `extractClaim` makes of them) and their
items (what `extractStringSlice` finds). A null claim has the text "null", so
it passes `required_claims` and reaches the backend as that word; TLC's
world has such a token. A role rule may name its own claim. The IP header is on
and named `x-ip`, as in `jwt.json`, and `jwt.json`'s own `required_roles` are
empty, as they are there. The router is KrakenD's: same number of segments,
method, literal segments before parameters.

| Action | Code |
|---|---|
| `PassTimer`, `FillLanguage`, `ResolveTrace` | gateway-timeout (its effect is on the response: `GatewayTimeout`), accept-language, trace-context |
| `PassThrough`, `Refuse`, `Resolve` | session-resolver by the verdict of decide |
| `SkipToken`, `CheckToken` | jwt-headers: preflight and skip paths, everything else |

### EdgeBoot

`GatewayChain` asks what any edge does; `EdgeBoot` which edge there is. Files and
`.env` change at any time (`Edit`), but a container keeps the environment it was
created with, and a process what it read when it started (`box`). `Compose` is
KrakenD wrapping one plugin of the array after the other, without those that
are not built or refuse their configuration; a plugin logs that it is loaded
last. `Inspect` and `Read` are the two looks of `check-plugins-loaded.sh`, at
`StartedAt` and at the log since; anything may happen in between. `make up` is
`Up` and then the two; `docker compose restart` is `Restart` and no gate.
A verdict is about the start whose time was read: `passed` is that start.

A plugin that misses a required setting or finds one malformed, in the files or
in `.env`, is in `defects`: for session-resolver `valkey_addr`, `cookie_name`, the
shared secret (compose's `:?` stops an empty one before) or a `refresh_url` without
`{sid}`, for jwt-headers `jwks_url`, for gateway-timeout `min_elapsed`.
jwt-headers also refuses introspection, which the files turn on, without the
secret, which `.env` has. That a value of `.env` may mend one of the files gives
no edge that other files would not. A Valkey or a
Keycloak that is down is no refusal. A behaviour has one request; it stays with
the edge that it reached, and the deployment stands still while it is under way.

### TokenGate

One token, any number of requests, slots that are used again. The host is
punctual: the clock waits for a step that takes no time and for a call at its
timeout. `Arrive` takes the snapshot of the key set and checks the signature:
nothing happens in between that could matter, the code uses the snapshot at once.
`up` is since when Keycloak serves its key set (`ComeUp`, `GoDown`).
`keyfunc.NewDefault` keeps the error of its first request to itself, so a fetch
while Keycloak is out of reach is `Served` with a set that has no key, which is
installed as a success, in place of a good one too, and followed by the long
sleep: 503 before the first set, 401 from an empty one. `FetchFails` is what the
goroutine does on an error; with the library's defaults little more than a
malformed URL causes one, the model lets `MaxFailures` of any cause happen.
`Reread` is the library's own refresh of the set in use, hourly or for a request
whose key is unknown; the model allows it and relies on it for nothing, as the
library limits its rate. A request that waits for it counts as arrived when it
looks at the result, which makes the bounds below ones on earlier arrivals as well.

### Generator and PullRequests

`Generator` is `cmd/gen` without its text: a declaration has the fields that the
plugins, the template and the guards read, any lexical mistake in it is its
`slip`, and what Normalize only copies is left out. `Fails` is every early return
of GenerateWithProducts, `AuthorizationChecked` is
`check-endpoint-authorization.sh`, `RouterAccepts` what `krakend check -t` adds.
`endpoints.json` is a set of routes: an exact copy of a declaration, which
Validate refuses, and the order are left out.

`PullRequests` has both files of each branch and of `main`. An author adds or
removes an endpoint, moves a product to another prefix (`Add`, `Remove`,
`MovePrefix`), runs `make gen` with or without PRODUCTS (`Gen`), or takes a route
or the `filtered_products` mark out of `endpoints.json` (`HandEdit`). git merges
each file by itself, three ways, and a value that both sides changed is a conflict.
`Check` is `make check` on the merge of the branch with `main`, which is what the
workflow checks out; `Merge` needs it green on the latest base, as the ruleset
says. A merge that an administrator makes without the checks, which the ruleset
allows, is not modelled: nothing below holds across it.

## 3. Runs

| Run | Question | Bounds |
|---|---|---|
| `any_delay` | Do freshness, 401 only for dead sessions, lock ownership and removal for cause survive every failure and any delay, and is the resolver a `SessionPromise`? | 2 requests, all seven kinds of fault, six initial records (healthy, near expiry, none, malformed exp, malformed abs_exp, empty token), 5 ticks |
| `punctual` | Is a session refreshed once and by one at a time, is the overrun of the ceiling bounded, how much too early may a loser give up, and is every request answered, and within `AnswerTime`, although winner, Valkey and auth-bff may be silent? | 2 requests, errors, late writes, crashes, logouts; ceilings malformed, near and far; arrivals 0 and 1, 10 ticks; lock TTL 4 > 2*1 + 1; poll interval as long as the store timeout |
| `gateway_timeout` | Does the rewriter implement the abstract response and report what it should? | endpoint timeout not below min_elapsed; every order of calls up to 2 bytes |
| `chain` | Is what is protected guarded and what is public open, and do cookie, identity and trace stay what they should be? | every chain the template or the guard lets through, roles enforced or not; 11 paths, 7 tokens (one with a null claim, one with roles that are no list), browsers' origins and referers (allowed, foreign, absent), forged and contradicting headers; 7 endpoints |
| `boot` | What does a gate that passed say of the edge that serves? | 3 starts, 3 sets of files (as shipped; introspection on and a defect of gateway-timeout's; nothing built), 3 environments (as shipped; a defect of session-resolver's; jwt-headers off), 12 requests |
| `token_gate` | For how long is a revoked token admitted as active and a withdrawn key honoured, and for how long is a good token turned away once Keycloak can be had? | 2 slots, TTL and timeout 2, key cache 3, one failed fetch, 9 ticks; Keycloak comes and goes, revokes and withdraws until tick 1 |
| `merges` | Is the `endpoints.json` of `main` what its `endpoints.yaml` says, without colliding routes or role rules that widen each other? | 2 pull requests of 2 edits, 2 products, 3 prefixes (one not valid), 5 drafts that collide, overlap, cross, differ in a parameter's name or in a slash; filters none, one product, one with a typo |

Two requests are enough for the resolver: every hazard is of one actor against
another (winner and loser, old owner and new one, reader and remover), and the
proofs cover any number. Ticks allow a full refresh by one request after a full
cycle of the other. Two pull requests are enough for `merges`: a merge brings
together one branch and what `main` became meanwhile. In `token_gate` every deadline of the bounds is passed
before the clock stops. `CHECK_DEADLOCK FALSE` everywhere: each model ends, when
the requests are answered, the pull requests merged or the clock has stopped.
Symmetry is used for requests and pull requests, in the runs without liveness only.
Three starts are enough for `boot`: the one before, the one that the gate inspects
and the one that comes too soon.

Violation runs, each a statement of the repository's docs or comments that the
code does not keep:

| Run | Statement | What happens |
|---|---|---|
| `orphan_refresh` | refresh serialises concurrent refreshes (`refresh.go:103`) | the lock is released when the caller's POST times out; an auth-bff that works on then has two refreshes of one session |
| `loser_gives_up` | a loser must not give up before the winner's true worst case (`refresh.go:91`) | the winner may learn of its SET NX a store timeout after the loser began to wait; 50 ms of poll interval do not cover 200 ms. `punctual` bounds how much too early it may be: 200 - 50 ms (`GivesUpLate`) |
| `past_ceiling` | `abs_exp` is a hard ceiling (`docs/session-flow.md`, `refresh.go:123`) | re-check and polls do not compare it; `punctual` bounds the overrun |
| `shipped_timeout` | a timeout surfaces as 504 (`gateway-timeout/main.go:36`) | with `service.json`'s 3000 ms and min_elapsed 4900 ms it stays 500 |
| `public_overlap` | a route is opened only by its own `auth: public` (`README.md:361`) | skip paths know no method: a public GET opens the protected POST of its path, and Validate accepts the pair |

Divergences met and not given a run: `docs/session-flow.md` says the plugin
issues exactly four commands and gives an ACL for them, while a refresh needs
SET and the release script as well (the same document describes them elsewhere);
it says the record is deleted "on `abs_exp` expiry or refresh failure", while
no failure of a refresh deletes it; `jwt.json` skips `/public/*`, which
`session.json` does not list, so the two plugins agree on endpoints only;
`session-resolver/main.go:79` says that a misconfigured session plugin "must stop
the gateway, not fail open", while KrakenD logs its error and serves without it
(`check-plugins-loaded.sh` says so itself): what stands between is the gate, and
`docker compose restart`, which `README.md:87` recommends for a change of
configuration, does not run it; `check-plugin-chain-order.sh` says that
session-resolver without jwt-headers "must never render", and refuses it in CI,
while JWT_ENABLED=false in `.env` renders it at run time; `README.md:731` says that
the required claims are `sub` and `organizationId`, while `jwt.json` requires `sub`
only;
`README.md:468` says of the headers of jwt-headers, `x-ip` among them, that the
client cannot set them, and `README.md:748` that `x-ip` is resolved by the plugin and
not sent by the client, while `extractClientIP` takes the client's own
`X-Forwarded-For` (its first element) or `X-Real-Ip`: `x-ip` is the client's choice,
and `NoForgedIdentity` leaves its value out;
`README.md:732` says that a gate answers 503 while the JWKS is not loaded, and
`validation_test.go:522` that a dead URL keeps `jwksReady` false, while an empty set is
soon installed as if it were loaded and answers 401 (`OpensInTime` bounds both);
`jwt-headers/main.go:77` says revoked sessions are "rejected immediately", while
the cache honours one for the time `RevocationBounded` states;
`check-endpoint-authorization.sh` says it "fails when two role rules overlap on
the same request", while it compares two globs only if one matches the other and
has a wildcard: `/v/api/*` and `/v/*/x` pass with different rules and meet on
`/v/api/x`, as do `/v/api/x` and `/v/api/x/`. `WideningIsBounded` says that these
two are all it misses.

## 4. Properties

Each is stated next to its definition. In short: `FreshToken`,
`UnauthorizedOnlyIfDead`, `LockLostOnlyByTTL`, `RemovedForCause`,
`ImplementsPromise` (any delay);
`CallExclusive`, `RefreshesSerialised`, `RefreshedOnce`, `CeilingOverrunBounded`,
`GivesUpLate`, `AnsweredInTime` (punctual); `EveryRequestEnds` (liveness); `KeepsPromise`,
`TimeoutReported`, `FastErrorKept`; `ProtectedIsGuarded`, `NoForgedIdentity`,
`CookieStaysAtEdge`, `NoCrossSiteWrite`, `PublicStaysOpen`, `CookieBecomesBearer`,
`RolesGate`, `OneTrace`; `GateMeansWhole`, `WholePassesGate`, `GatedIsGuarded`;
`RevocationBounded`, `DeniedForCause`, `WithdrawalBounded`, `OpensInTime`; `MainInSync`,
`RoutesDistinct`, `WideningIsBounded`, `PrefixIsInvisible`; and one
type invariant per component. For each of them a mutant of the model, a
plausible slip in the code, violates it; mutants stand before the definition
they replace and are marked as such.

## 5. Fairness

`EveryRequestEnds` assumes weak fairness of each request's handler, of which
ending an operation at its deadline is a part, and of the clock. The code
justifies it: every operation runs under a context with a timeout, the sleep is
a timer, goroutines are scheduled. Nothing is assumed of Valkey or auth-bff.
The clock is bounded by `MaxTime`, which is `LastArrival + AnswerTime`: a request
that arrived by `LastArrival` has ended by then (`AnsweredInTime`), so the
property is not lost to a clock that stopped.

## 6. Proofs

All proofs are for any set of requests and all durations, under the named
assumptions of the modules. TLC has checked each property first.

- `SessionResolverProofs`: `TypeOK` is inductive once the data the handlers
  carry has its type; one step per action.
- `SessionSafetyProofs`: `FreshToken` from `FreshInv`: the exp of a live record
  only grows (`Grows`), so it is never below what a handler loaded or was
  answered, and auth-bff's answer is above it; a compare of exps then bounds the
  token too, because a record is well formed. `UnauthorizedOnlyIfDead` from
  `DeadInv`: a nil reply, a 401, a drop on its way or sent too late each prove
  the session over, and an over session stays so (`Ages`: no step brings a
  record back or moves its abs_exp). `RemovedForCause` is an action property,
  one case per action that writes the record.
  `ImplementsPromise`: `SessionPromise` has a step for every step of the resolver,
  given `DeadInv` and that who drops a record has found it expired (`DropInv`).
  `LoggedOutStaysOut` is a corollary of that refinement, reasoned in the promise's
  terms alone: once the record is gone, a request that arrives later is never
  forwarded, whatever polls, refreshes and late writes were under way.
- `PunctualProofs`: `LockLostOnlyByTTL` from `LateInv` (a release that is still
  on its way is of a request that is past its lock). `CallExclusive` from
  `LockInv`: the lock of a request that works under it is its own and, counted
  from the deadline of its current operation, has `LockTTL` less the time of the
  operations so far; `LockOutlivesWork` (lock TTL above two store timeouts and
  the refresh timeout, which the shipped values satisfy and `parseConfig` does
  not check) makes that positive. `RefreshesSerialised` and `RefreshedOnce` assume
  in addition that auth-bff stops when its caller hangs up (no `orphan`; with it
  `orphan_refresh` refutes the first): `JobInv` ties a running refresh to a
  request in its POST, `OnceInv` keeps the record, from the re-check to the answer,
  at the exp that the caller observed. With `DueInv` (from the look that sent it
  to refresh on, a request works for a token near its expiry) the second says
  that only a token near its expiry is ever replaced (`OnlyDueIsRefreshed`).
  `CeilingOverrunBounded` needs no lock:
  every phase ends by its deadline (`DeadlineInv`), and the deadlines add up from
  the look at abs_exp that came first (`CeilingInv`, one summand per phase).
  `AnsweredInTime` needs nothing of the lock, of the servers or of the other
  requests either: `AgeInv` has a summand per phase, counted from `arrived`, and
  the polls, whose number is not bounded, are covered by `until`, which no poll
  moves. `AnswerTime` is exact in the bounds of `punctual` (one tick less is
  violated); as shipped it is 6 * 200 ms + 3 s + 2 * 50 ms = 4.3 s, so what the
  resolver takes, which no deadline of its own limits, stays below the 4.9 s of
  min_elapsed, and the resolver's part of `ChainTime` in `GatewayTimeout` is a bound
  that exists.
  `GivesUpLate` from `LockInv`, which says when the work under the lock is over at
  the latest: SET NX was applied before the loser began to wait, and the winner
  may learn of it a store timeout later, of which maxWait covers one poll
  interval. Any poll interval will do; with one above the store timeout nobody
  would give up on a winner at work, with the shipped ones (50 ms, 200 ms)
  `loser_gives_up` shows one who does, and 150 ms is the most he is early.
- `GatewayTimeoutProofs`: the refinement, step by step, from an invariant on
  what a held status excludes; `TimeoutReported` under the assumption that the
  endpoint timeout is not below min_elapsed; `FastErrorKept`.
- `TokenGateProofs`: `RevocationBounded` from the age of calls (`CallsInTime`),
  answers (`AnswersInTime`) and the cached verdict (`CacheInTime`); neither
  answers nor the cache alone are inductive, as an answer becomes the cache.
  `WithdrawalBounded` from when the next fetch is at the latest (`KeysInTime`),
  `OpensInTime` from `OpenInv`: a fetch that found nothing was over when Keycloak
  came back, and from then on the next fetch is at most a fetch, a cache TTL and
  the failed fetches away. `Reread`, which would open the gate sooner, is not
  needed for it and disturbs none of the bounds.
- `GatewayChainProofs`: all of `GatewayChain`, for any endpoints, skip paths,
  rules, tokens, requests and every array of plugins that is injective.
  `ChainInv` says of each plugin what holds of the request once it has passed
  it (`IdentityInv`, `CookieInv`, `OriginInv`, `TraceInv`) and why a denied one was
  denied (`DeniedInv`); no later plugin undoes an earlier one's part, whatever
  their order. Some theorems have a hypothesis. `ProtectedIsGuarded` and
  `RolesGate` ask that no skip path matches a path that is routed to such an
  endpoint (`Separate`): without it `public_overlap` refutes the first. `Separate`
  speaks of all paths that clients send; `Apart` says it of the configuration
  alone, by comparing patterns segment by segment (`Overlaps`), and
  `OverlapsIsExact` proves that this misses nothing and refuses nothing without
  need: two patterns overlap exactly if some path is skipped by the one and routed
  to the other. So `ApartIsGuarded` and `ApartIsGated` rest on what a script could
  check; Validate does not (finding of `public_overlap`). `RolesGate` also asks
  that paths have no empty segments, as those of `endpoints.yaml` have none
  although Validate would let one through: the rules trim slashes, the router
  does not. `CookieBecomesBearer` asks that what `session.json` skips `jwt.json`
  skips too. `MCBoot`'s ASSUME has TLC confirm that the configuration of the runs
  meets all of these hypotheses. `TextsAssumption` says that a few literals are
  strings, which the provers do not know.
- `EdgeBootProofs`: the four properties of `EdgeBoot`, for any number of starts,
  any files and environments. `ComposedInv`: what is composed and what is left to
  compose are parts of the array on the right sides of each other (by the rank of
  a plugin in it), so five plugins can only be the whole chain in its order;
  `LogInv`: a line of this start is there exactly for what this start composed;
  `PassedInv`: a verdict on this start means that all its lines were there. All
  three are needed together: without the order of the composing the lines would
  show the plugins and not their order. `GatedIsGuarded` joins them
  with `ChainInv`. The two modules meet the other way round as well: `DeployedInv`
  (what is composed is the reverse of the array of what runs, which is stronger
  than the order in `ComposedInv`) gives `EveryStartIsAnEdge`, that a request only
  meets edges that `GatewayChain` starts from. So `GatewayChain`'s properties hold
  of every deployment, gated or not: five of them without a condition
  (`DeployedChainHolds`), three under the hypotheses above (`DeployedGuardHolds`).
- `PullRequestsProofs`: `MainInSync` and `RoutesDistinct` from `IInv`: a pull
  request that is green and starts from the `main` there is now (commits are
  counted, so it is not one that looks the same) was checked as what its merge
  makes of `main`. Every push takes the green away, every merge leaves all other
  bases behind. `RoutesDistinct` then follows from what `make check` accepts: two
  routes with one glob differ in a parameter's name, which the router refuses,
  or are one route to Validate. `PrefixIsInvisible` needs of it that both files are
  in sync with their endpoints. `WideningIsBounded`: where one of two globs has its
  parameters among those of the other, and one path matches both, the wider
  spans the narrower (`GuardSees`) and the guard would have refused them. That
  spanning is inclusion of the matched paths, and not only a comparison of
  texts, is `SpanIsInclusion`. What the trimming of slashes leaves
  (`TrimmedFacts`) takes the least and the greatest index that is no slash, so a
  well-founded order and no induction over sequences.

Only model-checked: liveness (`EveryRequestEnds`), which is out of the prover's
reach. `AnsweredInTime` is the part of it that is a safety property, and proved.

## 7. Not modelled

CORS, TLS, rate limits, telemetry, and KrakenD itself but for its router, its
endpoint timeout and the composing of plugins; the production image and the
other containers; the build-time scripts but for those of the role rules, the
chain order and the gate, which keep no state and guard nothing that is modelled
here; several requests at one edge at a time (the plugins share no memory between
requests but what `SessionResolver` and `TokenGate` model) and requests in flight
across a restart (they end with the process: `Crash` of `SessionResolver`);
memory (the introspection cache never shrinks, each load of the key set leaves a
background refresh behind); an auth-bff that refreshes without advancing exp,
which its contract excludes; 1xx statuses, which nothing in the chain sends.

## 8. What could come next

1. `GatewayChain` on the output of `Generator`: which specs that Validate and the
   guard accept satisfy the hypothesis `Apart` of the theorems (Validate accepts
   some that do not).
