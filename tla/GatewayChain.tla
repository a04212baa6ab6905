---------------------------- MODULE GatewayChain ----------------------------
(***************************************************************************)
(* One request through the plugins that KrakenD composed from the array of *)
(* config/krakend.tmpl, whichever of them are on, and KrakenD's router     *)
(* behind them: gateway-timeout only passes it on, session-resolver has the*)
(* outcome of SessionResolver, jwt-headers that of TokenGate.  skip_paths  *)
(* and required_roles are derived from the endpoints as the template does. *)
(***************************************************************************)
EXTENDS PathPatterns, SequencesExt

CONSTANTS
    Requests,        \* the requests a client may send
    NoRequest,       \* no request yet
    Arrays,          \* the arrays of plugins that somebody may declare by hand
    Endpoints,       \* the endpoints of config/settings/endpoints.json
    Tokens,          \* access tokens
    Payload,         \* [Tokens -> [valid, claims]], claims by dotted path, as JSON values
    Traces,          \* well-formed trace ids
    DefaultValue,    \* default_value of accept_language.json, "" for none
    SessionSkip,     \* skip_paths of session.json
    JwtSkip,         \* skip_paths of jwt.json
    RequiredClaims,  \* required_claims
    ClaimsToHeaders, \* claims_to_headers, a function from header to claim
    RolesClaim,      \* roles_claim
    SafeMethods,     \* csrf_safe_methods
    AllowedOrigins   \* allowed_origins

VARIABLES
    edge,   \* the plugins that run, the outermost first, and roles_enforce
    sent,   \* the request as the client sent it
    req,    \* the request as the next handler sees it
    at,     \* 0 before it is received, then the index of the handler that has it
    denied, \* why it was denied, "no" while it was not
    source  \* where its token comes from

request == <<sent, req, at, denied, source>>
vars == <<edge, request>>

Plugins == {"gateway-timeout", "accept-language", "trace-context", "session-resolver", "jwt-headers"}

Denials == {"malformed_session", "csrf_reject", "session", "not_ready", "missing", "invalid",
            "claim", "inactive", "role"}

\* What the edge makes up itself.
Minted == "minted"

Parent == [trace : STRING, parent : STRING]

ManagedHeaders == DOMAIN ClaimsToHeaders \cup {"x-ip"}

\* A header that is not there is "", no bearer and no cookie are "none".
Request ==
    [path : Seq(STRING), method : STRING, auth : STRING, cookie : STRING, origin : STRING,
     referer : STRING, language : STRING, traceparent : Parent, x_traceparent : Parent,
     trace_id : STRING, forwarded_for : STRING, real_ip : STRING,
     managed : [ManagedHeaders -> STRING]]

\* What the edge writes are strings (said for the provers, which do not know).
ASSUME TextsAssumption == {Minted, "none", "", "es", "peer"} \subseteq STRING

ASSUME RequestsAssumption == Requests \subseteq Request /\ DefaultValue \in STRING
ASSUME MintedIsMinted == Minted \notin Traces /\ Traces \subseteq STRING
ASSUME TokensAssumption ==
    /\ Tokens \subseteq STRING \ {"none"}
    /\ \A t \in Tokens : \A c \in DOMAIN Payload[t].claims : Payload[t].claims[c].text \in STRING
ASSUME EndpointsAssumption == \A e \in Endpoints : e.path \in Seq(STRING)
ASSUME ArraysAssumption == \A a \in Arrays : a \in Seq(Plugins) /\ IsInjective(a)

-----------------------------------------------------------------------------
(* The configuration the template renders.                                 *)

Entry(plugin, on) == IF plugin \in on THEN <<plugin>> ELSE <<>>

\* Mutant: the array in the order in which the plugins are to run.
InChainOrder(on) ==
    Entry("gateway-timeout", on) \o Entry("accept-language", on) \o Entry("trace-context", on)
        \o Entry("session-resolver", on) \o Entry("jwt-headers", on)

\* The array "name" with the plugins that are on.
Declared(on) ==
    Entry("jwt-headers", on) \o Entry("session-resolver", on) \o Entry("trace-context", on)
        \o Entry("accept-language", on) \o Entry("gateway-timeout", on)

\* Mutant: the guard is content with both plugins being there.
BothThere(array) == Contains(array, "session-resolver") => Contains(array, "jwt-headers")

\* check-plugin-chain-order.sh
ChainOrderChecked(array) ==
    Contains(array, "session-resolver") =>
        Len(array) > 1 /\ array[1] = "jwt-headers" /\ array[2] = "session-resolver"

\* KrakenD wraps each plugin around those declared before it, so they run in
\* reverse.
Edges ==
    LET arrays == {Declared(on) : on \in SUBSET Plugins} \cup {a \in Arrays : ChainOrderChecked(a)}
    IN [plugins : {Reverse(a) : a \in arrays}, enforce : BOOLEAN]

Loaded(plugin) == Contains(edge.plugins, plugin)

PublicPaths == {e.path : e \in {f \in Endpoints : f.auth = "public"}}

\* Mutant: skip_paths kept by hand, without the public endpoints.
HandWrittenSkips(path) == \E p \in SessionSkip : SkipMatches(p, path)

SessionSkips(path) == \E p \in SessionSkip \cup PublicPaths : SkipMatches(p, path)
JwtSkips(path) == \E p \in JwtSkip \cup PublicPaths : SkipMatches(p, path)

\* A rule without a claim of its own reads roles_claim.
RuleOf(e) == [path |-> e.path, roles |-> e.roles, claim |-> IF e.claim = "" THEN RolesClaim ELSE e.claim]

Rules == {RuleOf(e) : e \in {f \in Endpoints : f.roles # {}}}

-----------------------------------------------------------------------------

Receive ==
    /\ at = 0 /\ at' = 1
    /\ sent' \in Requests /\ req' = sent'
    /\ UNCHANGED <<denied, source>>

\* Mutant: a return is missing after deny.
DenyAndGoOn(why) ==
    /\ denied' = why
    /\ at' = at + 1
    /\ UNCHANGED <<sent, req, source>>

Deny(why) ==
    /\ denied' = why
    /\ UNCHANGED <<sent, req, at, source>>

Forward(r, from) ==
    /\ req' = r
    /\ at' = at + 1
    /\ source' = from
    /\ UNCHANGED <<sent, denied>>

Has(plugin) == denied = "no" /\ at \in DOMAIN edge.plugins /\ edge.plugins[at] = plugin

(* gateway-timeout, accept-language, trace-context *)

PassTimer == Has("gateway-timeout") /\ Forward(req, source)

\* A header that is missing or blank is filled in.
FillLanguage ==
    /\ Has("accept-language")
    /\ LET language == IF DefaultValue = "" THEN "es" ELSE DefaultValue IN
       Forward(IF req.language = "" THEN [req EXCEPT !.language = language] ELSE req, source)

\* A traceparent names a trace and a parent; its trace is "" when it is missing
\* or malformed, and so is a Trace-Id.
TraceOf(r) ==
    IF r.traceparent.trace \in Traces THEN r.traceparent
    ELSE [trace |-> IF r.trace_id \in Traces THEN r.trace_id ELSE Minted, parent |-> Minted]

\* Mutant: the copy is only made where the traceparent was made up.
CopiesMade(r) ==
    IF r.traceparent.trace \in Traces THEN r
    ELSE [r EXCEPT !.traceparent = TraceOf(r), !.x_traceparent = TraceOf(r)]

Traced(r) == [r EXCEPT !.traceparent = TraceOf(r), !.x_traceparent = TraceOf(r)]

ResolveTrace == Has("trace-context") /\ Forward(Traced(req), source)

(* session-resolver *)

\* Mutant: an absent Origin is taken for a same-site request.
OriginIfGiven(r) == r.origin \in AllowedOrigins \cup {"none"}

\* Origin, or the scheme and host of Referer when there is no Origin.
OriginAllowed(r) ==
    LET candidate == IF r.origin # "none" THEN r.origin ELSE r.referer
    IN candidate \in AllowedOrigins

\* The conditions of decide, in its order; the first that holds decides.
PassesThrough(r) ==
    SessionSkips(r.path) \/ r.method = "OPTIONS" \/ r.auth # "none" \/ r.cookie = "none"

\* Mutant: the cookie stays on a request that brought its own bearer.
KeepsCookie(r) == r

\* A request that needs no session still must not carry the cookie on.
WithoutCookie(r) == [r EXCEPT !.cookie = "none"]

PassThrough ==
    /\ Has("session-resolver") /\ PassesThrough(req)
    /\ Forward(IF SessionSkips(req.path) THEN req ELSE WithoutCookie(req), source)

Refuse ==
    /\ Has("session-resolver") /\ ~PassesThrough(req)
    /\ \/ req.cookie = "malformed" /\ Deny("malformed_session")
       \/ /\ req.cookie # "malformed"
          /\ req.method \notin SafeMethods /\ ~OriginAllowed(req)
          /\ Deny("csrf_reject")

\* SessionResolver's outcome: the session's token, or a 401 or 503.
Resolve ==
    /\ Has("session-resolver") /\ ~PassesThrough(req)
    /\ req.cookie # "malformed"
    /\ req.method \in SafeMethods \/ OriginAllowed(req)
    /\ \/ Deny("session")
       \/ \E t \in Tokens : Forward([WithoutCookie(req) EXCEPT !.auth = t], "session")

(* jwt-headers *)

\* Mutant: managed headers are stripped only where a token is required.
StripsNothing(r) == r

\* The managed headers are stripped up front, on every branch.
Stripped(r) == [r EXCEPT !.managed = [h \in ManagedHeaders |-> ""]]

Unchecked(r) == r.method = "OPTIONS" \/ JwtSkips(r.path)

SkipToken ==
    /\ Has("jwt-headers") /\ Unchecked(req)
    /\ Forward(Stripped(req), source)

\* extractClaim: "" for a claim that is missing, else its text, which is "null"
\* for a null; extractStringSlice: what a list holds, nothing for any other value.
ClaimText(t, claim) ==
    IF claim \in DOMAIN Payload[t].claims THEN Payload[t].claims[claim].text ELSE ""
ClaimItems(t, claim) ==
    IF claim \in DOMAIN Payload[t].claims THEN Payload[t].claims[claim].items ELSE {}

\* Mutant: the paths of the rules are compared as they are written.
LiteralRules(path) == {rule \in Rules : rule.path = path}

\* evaluateRoles: the rules whose path matches are a union.
Matching(path) == {rule \in Rules : RuleMatches(rule.path, path)}

RolesAllow(t, path) ==
    \/ Matching(path) = {}
    \/ \E rule \in Matching(path) : rule.roles \cap ClaimItems(t, rule.claim) # {}

\* Mutant: the required claims are not looked at.
AnyClaims(r) ==
    LET t == r.auth IN
    IF t \notin Tokens THEN "missing"
    ELSE IF ~Payload[t].valid THEN "invalid"
    ELSE IF edge.enforce /\ ~RolesAllow(t, r.path) THEN "role"
    ELSE "no"

\* The first of the handler's conditions on the token that holds; roles_enforce
\* false only logs the last one.
Rejected(r) ==
    LET t == r.auth IN
    IF t \notin Tokens THEN "missing"
    ELSE IF ~Payload[t].valid THEN "invalid"
    ELSE IF \E claim \in RequiredClaims : ClaimText(t, claim) = "" THEN "claim"
    ELSE IF edge.enforce /\ ~RolesAllow(t, r.path) THEN "role"
    ELSE "no"

\* extractClientIP: what the client says of itself, in its own headers if it
\* sends one of them.
ClientIp(r) ==
    IF r.forwarded_for # "" THEN r.forwarded_for
    ELSE IF r.real_ip # "" THEN r.real_ip ELSE "peer"

\* A claim without a text sets no header.
Identified(r) ==
    [r EXCEPT !.managed = [h \in ManagedHeaders |->
        IF h = "x-ip" THEN ClientIp(r) ELSE ClaimText(r.auth, ClaimsToHeaders[h])]]

\* The JWKS may not be there yet, or be without the key of a good token, and
\* the introspection may find the token revoked (TokenGate); each comes before
\* what it stands before in the handler.
CheckToken ==
    /\ Has("jwt-headers") /\ ~Unchecked(req)
    /\ \/ Deny("not_ready")
       \/ req.auth \in Tokens /\ Deny("invalid")
       \/ Rejected(req) \notin {"no", "role"} /\ Deny(Rejected(req))
       \/ Rejected(req) \in {"no", "role"} /\ Deny("inactive")
       \/ Rejected(req) = "role" /\ Deny("role")
       \/ Rejected(req) = "no" /\ Forward(Identified(Stripped(req)), source)

Handle ==
    \/ PassTimer \/ FillLanguage \/ ResolveTrace
    \/ PassThrough \/ Refuse \/ Resolve
    \/ SkipToken \/ CheckToken

NothingReceived ==
    /\ sent = NoRequest /\ req = NoRequest
    /\ at = 0 /\ denied = "no" /\ source = "client"

Init == edge \in Edges /\ NothingReceived

Next == (Receive \/ Handle) /\ UNCHANGED edge

Spec == Init /\ [][Next]_vars

-----------------------------------------------------------------------------
(* The router: which endpoint serves a request.                            *)

Routes(e, path) == Len(e.path) = Len(path) /\ PrefixMatches(e.path, path)

AtRouter == denied = "no" /\ at > Len(edge.plugins)

\* A literal segment wins over a parameter.
Wins(e, f) ==
    \E i \in DOMAIN e.path :
        /\ e.path[i] # Star /\ f.path[i] = Star
        /\ \A j \in 1..(i - 1) : e.path[j] = f.path[j]

Serves(e) ==
    /\ AtRouter /\ e.method = req.method
    /\ Routes(e, req.path)
    /\ \A f \in Endpoints \ {e} : f.method = e.method /\ Routes(f, req.path) => Wins(e, f)

\* Some path matches p as a skip path and is routed to an endpoint at q.
Overlaps(p, q) ==
    LET fixed == IF EndsInAny(p) THEN Len(p) - 1 ELSE Len(p) IN
    /\ IF EndsInAny(p) THEN fixed <= Len(q) ELSE fixed = Len(q)
    /\ \A i \in 1..fixed : SegmentMatches(p[i], q[i]) \/ SegmentMatches(q[i], p[i])

\* What can be read off the configuration: neither a skip path nor the path of
\* a public endpoint overlaps the endpoint's.
Apart(e) ==
    e.method # "OPTIONS" /\ \A p \in JwtSkip \cup PublicPaths : ~Overlaps(p, e.path)

\* No public endpoint or skip path spans the endpoint, on any of the paths.
Separate(e, paths) ==
    e.method # "OPTIONS" /\ \A path \in paths : Routes(e, path) => ~JwtSkips(path)

-----------------------------------------------------------------------------

\* What the client asked for stays what it is on its way.
RequestOK ==
    /\ sent \in Requests /\ req \in Request
    /\ req.path = sent.path /\ req.method = sent.method
    /\ req.origin = sent.origin /\ req.referer = sent.referer
    /\ req.trace_id = sent.trace_id
    /\ req.forwarded_for = sent.forwarded_for /\ req.real_ip = sent.real_ip
    /\ req.auth \in {sent.auth} \cup Tokens
    /\ req.cookie \in {sent.cookie, "none"}

\* The type invariant: past what the client sent, the handlers only touch the
\* headers that are theirs, and a denied request stays with the handler that
\* denied it.
TypeOK ==
    /\ edge \in Edges
    /\ at \in 0..(Len(edge.plugins) + 1)
    /\ IF at = 0 THEN NothingReceived ELSE RequestOK
    /\ denied \in Denials \cup {"no"}
    /\ denied # "no" => at \in DOMAIN edge.plugins
    /\ source \in {"client", "session"}

\* With jwt-headers loaded a protected endpoint only serves a request that
\* carries a valid token with its required claims, and its identity headers say
\* what that token says.  README.md says so of every endpoint; it is so as long
\* as the path of no public endpoint, of any method, spans the protected one.
ProtectedIsGuarded ==
    \A e \in Endpoints : Serves(e) /\ e.auth = "protected" /\ Loaded("jwt-headers") =>
        /\ req.auth \in Tokens /\ Payload[req.auth].valid
        /\ \A claim \in RequiredClaims : ClaimText(req.auth, claim) # ""
        /\ \A h \in DOMAIN ClaimsToHeaders :
               h # "x-ip" => req.managed[h] = ClaimText(req.auth, ClaimsToHeaders[h])

\* A backend sees a managed header only with a validated token, and one that is
\* named for a claim only with the text of that claim, on any route.  The value
\* of x-ip is left out: extractClientIP takes it from the client's own
\* X-Forwarded-For or X-Real-Ip.
NoForgedIdentity ==
    AtRouter /\ Loaded("jwt-headers") =>
        \A h \in ManagedHeaders :
            req.managed[h] # "" =>
                /\ req.auth \in Tokens /\ Payload[req.auth].valid
                /\ h # "x-ip" => req.managed[h] = ClaimText(req.auth, ClaimsToHeaders[h])

\* The session cookie leaves the edge only towards the skip paths, where
\* auth-bff reads it.
CookieStaysAtEdge ==
    AtRouter /\ Loaded("session-resolver") /\ req.cookie # "none" => SessionSkips(req.path)

\* A request that is authenticated by its cookie and may change something
\* came from an allowed origin.
NoCrossSiteWrite ==
    AtRouter /\ source = "session" /\ req.method \notin SafeMethods =>
        AllowedOrigins \cap {sent.origin, sent.referer} # {}

\* A public endpoint is never answered by the edge, stale cookie or not.
PublicStaysOpen ==
    denied # "no" => \A e \in Endpoints : e.auth = "public" => ~Routes(e, sent.path)

\* jwt-headers never misses the token of a browser that has a session: by
\* then session-resolver has turned the cookie into one (ADR 0004), in every
\* array that the template renders or that check-plugin-chain-order.sh accepts.
CookieBecomesBearer ==
    denied = "missing" /\ Loaded("session-resolver") => sent.cookie = "none" \/ sent.auth # "none"

\* Past the gate a token holds a role of one of the rules for the path, in the
\* claim that this rule names.
RolesGate ==
    \A e \in Endpoints : Serves(e) /\ e.roles # {} /\ edge.enforce /\ Loaded("jwt-headers") =>
        \E rule \in Rules :
            /\ \E f \in Endpoints : f.path = rule.path /\ Routes(f, req.path)
            /\ rule.roles \cap ClaimItems(req.auth, rule.claim) # {}

\* A backend finds the same trace in Traceparent and X-Traceparent, whatever
\* the client sent in either, and it is the client's own where that is usable.
OneTrace ==
    AtRouter /\ Loaded("trace-context") =>
        /\ req.x_traceparent = req.traceparent
        /\ {sent.traceparent.trace, sent.trace_id} \cap Traces # {} =>
               req.traceparent.trace \in {sent.traceparent.trace, sent.trace_id} \cap Traces

=============================================================================
