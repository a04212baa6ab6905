------------------------------ MODULE MCChain ------------------------------
(* A small gateway on which TLC runs GatewayChain. *)
EXTENDS GatewayChain

Endpoint(path, method, auth, roles, claim) ==
    [path |-> path, method |-> method, auth |-> auth, roles |-> roles, claim |-> claim]

SomeEndpoints ==
    {Endpoint(<<"auth", "login", Star>>, "GET", "public", {}, ""),
     Endpoint(<<"auth", "logout">>, "POST", "public", {}, ""),
     Endpoint(<<"api", "info">>, "GET", "public", {}, ""),
     Endpoint(<<"api", "status">>, "GET", "protected", {}, ""),
     Endpoint(<<"api", "projects">>, "POST", "protected", {"member"}, "app.roles"),
     Endpoint(<<"api", "projects", Star>>, "GET", "protected", {"member"}, ""),
     Endpoint(<<"api", "projects", "all">>, "GET", "protected", {"admin"}, "")}

SomePaths ==
    {<<"auth", "login", "x">>, <<"auth", "login", "x", "y">>, <<"auth", "logout">>,
     <<"api", "info">>, <<"api", "status">>, <<"api", "status", "">>, <<"api", "projects">>,
     <<"api", "projects", "1">>, <<"api", "projects", "all">>, <<"__health">>, <<"public", "x">>}

\* JSON values; null_sub's subject is a null, text_roles' roles are no list.
Text(s) == [text |-> s, items |-> {}]
List(s) == [text |-> "[..]", items |-> s]

SomeTokens == {"member", "admin", "app_member", "no_sub", "null_sub", "text_roles", "bad"}

SomePayload == [t \in SomeTokens |->
    [valid |-> t # "bad",
     claims |->
        CASE t = "no_sub" -> [c \in {"roles"} |-> List({"member"})]
          [] t = "null_sub" -> [c \in {"sub", "roles"} |-> IF c = "sub" THEN Text("null") ELSE List({"admin"})]
          [] t = "text_roles" -> [c \in {"sub", "roles"} |-> IF c = "sub" THEN Text("alice") ELSE Text("member")]
          [] t = "app_member" -> [c \in {"sub", "app.roles"} |-> IF c = "sub" THEN Text("bob") ELSE List({"member"})]
          [] OTHER -> [c \in {"sub", "org", "roles"} |->
                CASE c = "sub" -> Text("alice") [] c = "org" -> Text("acme") [] c = "roles" -> List({t})]]]

SomeHeaders == [h \in {"x-user-id", "x-org"} |-> IF h = "x-user-id" THEN "sub" ELSE "org"]

NoTrace == [trace |-> "", parent |-> ""]
Traceparent(trace) == [trace |-> trace, parent |-> "front"]

Plain ==
    [path |-> <<"api", "status">>, method |-> "GET", auth |-> "none", cookie |-> "none",
     origin |-> "front", referer |-> "none", language |-> "en",
     traceparent |-> NoTrace, x_traceparent |-> NoTrace, trace_id |-> "",
     forwarded_for |-> "", real_ip |-> "",
     managed |-> [h \in {"x-user-id", "x-org", "x-ip"} |-> "forged"]]

\* Who asks for what, on which paths.
Access ==
    {[Plain EXCEPT !.path = p, !.method = m, !.auth = a, !.cookie = c] :
        p \in SomePaths, m \in {"GET", "POST"}, a \in SomeTokens \cup {"none", "basic"}, c \in {"none", "sid"}}

\* What a browser sends along, from where.
Browser ==
    {[Plain EXCEPT !.path = p, !.method = m, !.auth = a, !.cookie = c, !.origin = o, !.referer = f] :
        p \in {<<"api", "info">>, <<"api", "projects">>}, m \in {"GET", "POST", "OPTIONS"},
        a \in {"none", "app_member"}, c \in {"malformed", "sid"},
        o \in {"none", "front", "foreign"}, f \in {"none", "front", "foreign"}}

\* What clients and proxies write into the headers that plugins fill in.
Headers ==
    {[Plain EXCEPT !.auth = a, !.language = l, !.traceparent = t, !.x_traceparent = x, !.trace_id = i,
                   !.forwarded_for = f, !.real_ip = "proxy"] :
        a \in {"none", "member"}, l \in {"", "en"},
        t \in {NoTrace, Traceparent("t1")}, x \in {NoTrace, Traceparent("t1"), Traceparent("t2")},
        i \in {"", "t2"}, f \in {"", "client"}}

SomeRequests == Access \cup Browser \cup Headers

\* Every order of the plugins that the guard is about, and one more.
SomeArrays ==
    LET some == {"jwt-headers", "session-resolver", "trace-context"}
    IN {a \in UNION {[1..n -> some] : n \in 0..3} : IsInjective(a)}

\* GET of a path public, POST of it protected: Validate accepts both.
OnePathTwoMethods ==
    {Endpoint(<<"api", "status">>, "GET", "public", {}, ""),
     Endpoint(<<"api", "status">>, "POST", "protected", {}, "")}

Health == {<<"__health">>}
HealthAndPublic == {<<"__health">>, <<"public", Star>>}

=============================================================================
