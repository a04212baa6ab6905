----------------------------- MODULE Generator -----------------------------
(***************************************************************************)
(* From endpoints.yaml to config/settings/endpoints.json: Validate,        *)
(* Normalize and the product filter of cmd/gen, and the two guards of      *)
(* "make check" that look at the result: the overlap of role rules and     *)
(* KrakenD's own router.                                                   *)
(*                                                                         *)
(* A path is the sequence of its segments, as in PathPatterns; "" is <<>>. *)
(* The values a declaration cannot do without are the fields the checks    *)
(* and the plugins read; any other way to write it wrongly is a "slip".    *)
(***************************************************************************)
EXTENDS PathPatterns

CONSTANTS
    Products,       \* the products the spec declares, at least one
    DefaultBackend, \* the backend of each, or "none"
    Backends,       \* the backends the spec declares
    Params          \* the segments that are parameters, as in "{id}"

ASSUME ProductsAssumption == Products # {} /\ "none" \notin Backends

NoRule == [claim |-> <<>>, roles |-> {}, declared |-> FALSE]

Slips == {"path", "method", "input_headers", "auth", "claim"}

-----------------------------------------------------------------------------
(* normalize.go.  A spec y has the prefix of each product and the set of   *)
(* the endpoints it declares.                                              *)

EffectiveBackend(e) ==
    IF e.backend # "none" THEN e.backend
    ELSE IF e.product \in Products THEN DefaultBackend[e.product] ELSE "none"

ExposedPath(y, e) ==
    IF e.product \in Products THEN y.prefix[e.product] \o e.path ELSE e.path

\* Mutant: url_pattern is derived after the prefix.
UrlOfExposed(y, e) == IF e.url = <<>> THEN ExposedPath(y, e) ELSE e.url

\* The backend's path, never with the prefix of the edge.
UrlPattern(y, e) == IF e.url = <<>> THEN e.path ELSE e.url

Normalized(y, e) ==
    [path |-> ExposedPath(y, e), method |-> e.method, auth |-> e.auth, rule |-> e.rule,
     url |-> UrlPattern(y, e), host |-> EffectiveBackend(e)]

-----------------------------------------------------------------------------
(* validate.go                                                             *)

\* "" or a path that does not end in a slash.
ValidPrefix(p) == p = <<>> \/ p[Len(p)] # ""

\* A client id with a dot splits into more segments than resource_access.<client>.roles has.
ValidClaim(claim) ==
    /\ Len(claim) >= 2
    /\ claim[1] = "resource_access" => Len(claim) = 3

ValidRule(e) ==
    e.rule.declared =>
        /\ ~e.waiver /\ e.auth # "public"
        /\ e.rule.roles # {}
        /\ ValidClaim(e.rule.claim)

ValidEndpoint(e) ==
    /\ e.slip \notin Slips
    /\ e.product \in Products
    /\ EffectiveBackend(e) \in Backends
    /\ e.auth = "public" => ~e.waiver
    /\ ValidRule(e)

\* Mutant: collisions are looked for on the declared path.
DeclaredKey(y, e) == <<e.method, e.path>>

Key(y, e) == <<e.method, ExposedPath(y, e)>>

Valid(y) ==
    /\ \A p \in Products : ValidPrefix(y.prefix[p])
    /\ \A e \in y.endpoints : ValidEndpoint(e)
    /\ \A e, f \in y.endpoints : e # f => Key(y, e) # Key(y, f)

-----------------------------------------------------------------------------
(* generate.go, for the products wanted; none wanted is all of them.       *)

Kept(y, wanted) == {e \in y.endpoints : wanted = {} \/ e.product \in wanted}

\* Mutant: without checkProductsExist.
FailsIfEmpty(y, wanted) == ~Valid(y) \/ Kept(y, wanted) = {}

Fails(y, wanted) ==
    \/ ~Valid(y)
    \/ wanted # {} /\ (~(wanted \subseteq Products) \/ Kept(y, wanted) = {})

Generated(y, wanted) ==
    [filtered |-> wanted, routes |-> {Normalized(y, e) : e \in Kept(y, wanted)}]

-----------------------------------------------------------------------------
(* check-endpoint-authorization.sh                                         *)

\* The template's collapse of every parameter.
Glob(path) == [i \in DOMAIN path |-> IF path[i] \in Params THEN Star ELSE path[i]]

\* Mutant: the globs are compared without the prefix of the product.
UnprefixedGlob(y, e) == Glob(e.path)

GlobOf(y, e) == Glob(ExposedPath(y, e))

Gated(y) == {e \in y.endpoints : e.rule.declared}

RulesOn(y, g) == {e.rule : e \in {f \in Gated(y) : GlobOf(y, f) = g}}

AuthorizationChecked(y) ==
    LET globs == {GlobOf(y, e) : e \in Gated(y)} IN
    /\ \A g \in globs : \A r, s \in RulesOn(y, g) : r = s
    /\ \A a, b \in globs :
          a # b /\ (\E i \in DOMAIN b : b[i] = Star) /\ RuleMatches(b, a) =>
              RulesOn(y, a) = RulesOn(y, b)

-----------------------------------------------------------------------------

\* "krakend check -t" loads the routes into the router, which refuses a "*"
\* without a name, and two names for the parameter at one place.
RouterAccepts(routes) ==
    /\ \A r \in routes : \A i \in DOMAIN r.path : r.path[i] # Star
    /\ \A r, s \in routes : r.method = s.method =>
          \A i \in DOMAIN r.path \cap DOMAIN s.path :
              (\A j \in 1..i : Glob(r.path)[j] = Glob(s.path)[j]) => r.path[i] = s.path[i]

=============================================================================
