--------------------------- MODULE MCPullRequests ---------------------------
(* Two pull requests on a small spec, on which TLC runs PullRequests. *)
EXTENDS PullRequests

T == INSTANCE TLC

Rule(role) == [claim |-> <<"resource_access", "api", "roles">>, roles |-> {role}, declared |-> TRUE]

Endpoint(path, method, product, auth, rule) ==
    [path |-> path, method |-> method, product |-> product, auth |-> auth, rule |-> rule,
     backend |-> "none", url |-> <<>>, waiver |-> FALSE, slip |-> "none"]

SomeBackends == [x \in {"web", "app"} |-> "bff"]

\* app is below /v, and its route needs a role.
SomeSpec ==
    [prefix |-> [x \in {"web", "app"} |-> IF x = "app" THEN <<"v">> ELSE <<>>],
     endpoints |-> {Endpoint(<<"api", "x">>, "GET", "app", "protected", Rule("member"))}]

SomePrefixes == {<<>>, <<"v">>, <<"v", "">>}

\* A route that web puts below /v, a rule for all of /v/api, one that crosses it,
\* the first with another name for its parameter, and the app's route with a slash.
SomeDrafts ==
    {Endpoint(<<"v", "api", "x">>, "GET", "web", "public", NoRule),
     Endpoint(<<"v", "api", "{a}">>, "GET", "web", "protected", Rule("admin")),
     Endpoint(<<"v", "{a}", "x">>, "GET", "web", "protected", Rule("member")),
     Endpoint(<<"api", "{b}">>, "GET", "app", "protected", NoRule),
     Endpoint(<<"v", "api", "x", "">>, "GET", "web", "protected", Rule("admin"))}

SomeFilters == {{}, {"app"}, {"app", "typo"}}

SomePaths == {<<"api", "x">>, <<"v", "api", "x">>}

PRSymmetry == T!Permutations(PRs)

=============================================================================
