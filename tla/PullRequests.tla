---------------------------- MODULE PullRequests ----------------------------
(***************************************************************************)
(* How a change of the endpoints reaches main.  Pull requests edit         *)
(* endpoints.yaml, run "make gen", with or without PRODUCTS, or touch      *)
(* endpoints.json by hand; CI runs "make check" on the merge of each with  *)
(* main; the ruleset of main merges what is green on the latest base.      *)
(* git merges both files without knowing that one is made from the other.  *)
(***************************************************************************)
EXTENDS Generator, Naturals

CONSTANTS
    PRs,       \* the pull requests
    InitSpec,  \* the endpoints.yaml they all start from
    Drafts,    \* the endpoints an author may add
    Prefixes,  \* the prefixes an author may give a product
    Filters,   \* the values of PRODUCTS, {} when it is not set
    Paths,     \* the paths clients ask for
    MaxEdits   \* the edits of one pull request

ASSUME InitAssumption ==
    /\ ~Fails(InitSpec, {}) /\ AuthorizationChecked(InitSpec)
    /\ RouterAccepts(Generated(InitSpec, {}).routes)

ASSUME InputsAssumption ==
    /\ \A e \in Drafts \cup InitSpec.endpoints : e.path \in Seq(STRING)
    /\ Prefixes \subseteq Seq(STRING)
    /\ InitSpec = [prefix |-> InitSpec.prefix, endpoints |-> InitSpec.endpoints]
    /\ InitSpec.prefix \in [Products -> Prefixes]
    /\ MaxEdits \in Nat

VARIABLES
    main,  \* [n: commits so far, yaml, json]
    pr     \* what each pull request has, the commit it starts from, and whether it is green

vars == <<main, pr>>

-----------------------------------------------------------------------------
(* git                                                                     *)

MergeSets(base, ours, theirs) ==
    (ours \cap theirs) \cup (ours \ base) \cup (theirs \ base)

MergeValues(base, ours, theirs) == IF ours = base THEN theirs ELSE ours

NoConflict(base, ours, theirs) == base \in {ours, theirs} \/ ours = theirs

\* Main and a pull request that changed one value differently conflict.
Mergeable(p) ==
    LET b == pr[p].base IN
    /\ NoConflict(b.json.filtered, main.json.filtered, pr[p].json.filtered)
    /\ \A x \in Products :
          NoConflict(b.yaml.prefix[x], main.yaml.prefix[x], pr[p].yaml.prefix[x])

MergedYaml(p) ==
    LET b == pr[p].base.yaml IN
    [prefix |-> [x \in Products |->
         MergeValues(b.prefix[x], main.yaml.prefix[x], pr[p].yaml.prefix[x])],
     endpoints |-> MergeSets(b.endpoints, main.yaml.endpoints, pr[p].yaml.endpoints)]

MergedJson(p) ==
    LET b == pr[p].base.json IN
    [filtered |-> MergeValues(b.filtered, main.json.filtered, pr[p].json.filtered),
     routes |-> MergeSets(b.routes, main.json.routes, pr[p].json.routes)]

-----------------------------------------------------------------------------
(* The author of a pull request.  A push takes the green away.             *)

CanEdit(p) == pr[p].open /\ pr[p].edits < MaxEdits

PushYaml(p, yaml) ==
    /\ CanEdit(p)
    /\ pr' = [pr EXCEPT ![p].yaml = yaml, ![p].edits = @ + 1, ![p].green = FALSE]
    /\ UNCHANGED main

PushJson(p, json) ==
    /\ pr' = [pr EXCEPT ![p].json = json, ![p].green = FALSE]
    /\ UNCHANGED main

Add(p) ==
    \E e \in Drafts \ pr[p].yaml.endpoints :
        PushYaml(p, [pr[p].yaml EXCEPT !.endpoints = @ \cup {e}])

Remove(p) ==
    \E e \in pr[p].yaml.endpoints :
        PushYaml(p, [pr[p].yaml EXCEPT !.endpoints = @ \ {e}])

MovePrefix(p) ==
    \E x \in Products : \E prefix \in Prefixes \ {pr[p].yaml.prefix[x]} :
        PushYaml(p, [pr[p].yaml EXCEPT !.prefix[x] = prefix])

\* "make gen": a failed run writes nothing, and the same text is no push.
Gen(p) ==
    \E wanted \in Filters :
        /\ pr[p].open
        /\ ~Fails(pr[p].yaml, wanted)
        /\ Generated(pr[p].yaml, wanted) # pr[p].json
        /\ PushJson(p, Generated(pr[p].yaml, wanted))

\* A route is taken out of endpoints.json by hand, or the mark of a filtered build.
HandEdit(p) ==
    /\ pr[p].open
    /\ \/ \E r \in pr[p].json.routes : PushJson(p, [pr[p].json EXCEPT !.routes = @ \ {r}])
       \/ pr[p].json.filtered # {} /\ PushJson(p, [pr[p].json EXCEPT !.filtered = {}])

\* main is merged into the branch.
Update(p) ==
    /\ pr[p].open /\ pr[p].base # main /\ Mergeable(p)
    /\ pr' = [pr EXCEPT ![p].yaml = MergedYaml(p), ![p].json = MergedJson(p),
                        ![p].base = main, ![p].green = FALSE]
    /\ UNCHANGED main

-----------------------------------------------------------------------------
(* CI and the ruleset.                                                     *)

\* "make check" of a checkout: regenerate, compare, and the guards.
MakeCheck(yaml, json) ==
    /\ ~Fails(yaml, {})
    /\ json = Generated(yaml, {})
    /\ AuthorizationChecked(yaml)
    /\ RouterAccepts(json.routes)

\* The workflow of a pull request checks out its merge with main.
Check(p) ==
    /\ pr[p].open /\ Mergeable(p)
    /\ pr' = [pr EXCEPT ![p].green = MakeCheck(MergedYaml(p), MergedJson(p))]
    /\ UNCHANGED main

Land(p) ==
    /\ main' = [n |-> main.n + 1, yaml |-> MergedYaml(p), json |-> MergedJson(p)]
    /\ pr' = [pr EXCEPT ![p].open = FALSE]

\* Mutant: strict_required_status_checks_policy is off.
MergeGreen(p) ==
    /\ pr[p].open /\ pr[p].green /\ Mergeable(p)
    /\ Land(p)

Merge(p) ==
    /\ pr[p].open /\ pr[p].green
    /\ pr[p].base = main
    /\ Land(p)

Init ==
    /\ main = [n |-> 0, yaml |-> InitSpec, json |-> Generated(InitSpec, {})]
    /\ pr = [p \in PRs |->
                [base |-> main, yaml |-> main.yaml, json |-> main.json,
                 green |-> FALSE, open |-> TRUE, edits |-> 0]]

Next ==
    \E p \in PRs :
        Add(p) \/ Remove(p) \/ MovePrefix(p) \/ Gen(p) \/ HandEdit(p) \/ Update(p)
            \/ Check(p) \/ Merge(p)

Spec == Init /\ [][Next]_vars
-----------------------------------------------------------------------------

Specs ==
    [prefix : [Products -> Prefixes],
     endpoints : SUBSET (Drafts \cup InitSpec.endpoints)]

Routes ==
    {Normalized([prefix |-> f], e) :
        f \in [Products -> Prefixes], e \in Drafts \cup InitSpec.endpoints}

Jsons == [filtered : SUBSET Products, routes : SUBSET Routes]

Mains == [n : Nat, yaml : Specs, json : Jsons]

\* The type invariant: whatever is merged, generated or edited by hand, the
\* routes of a branch come from declarations and its filter names products.
TypeOK ==
    /\ main \in Mains
    /\ pr \in [PRs -> [base : Mains, yaml : Specs, json : Jsons,
                       green : BOOLEAN, open : BOOLEAN, edits : 0..MaxEdits]]

\* What main serves is what its endpoints.yaml says, all of it: no filtered
\* build, no edit by hand and no merge of two pull requests that were each
\* in sync leaves the two files apart (README.md, "gen-check").
MainInSync == main.json = Generated(main.yaml, {})

\* No two routes of main take the same requests, whatever products,
\* prefixes and parameter names two pull requests brought together.
RoutesDistinct ==
    \A r, s \in main.json.routes :
        r # s /\ r.method = s.method => Glob(r.path) # Glob(s.path)

Applies(r, path) == r.rule.declared /\ RuleMatches(Glob(r.path), path)

\* Each is the more special one somewhere, as /api/* and /*/x.
Cross(g, h) ==
    \E i, j \in DOMAIN g \cap DOMAIN h :
        g[i] = Star /\ h[i] # Star /\ g[j] # Star /\ h[j] = Star

\* The same but for a slash at an end, without a parameter.
SlashApart(g, h) ==
    g # h /\ Trimmed(g) = Trimmed(h) /\ \A i \in DOMAIN Trimmed(g) : Trimmed(g)[i] # Star

\* jwt-headers unions the rules that apply to one request.  On main two
\* different ones only ever meet where check-endpoint-authorization.sh cannot
\* see it: their globs cross, or are apart by a slash.
WideningIsBounded ==
    \A r, s \in main.json.routes, path \in Paths :
        Applies(r, path) /\ Applies(s, path) /\ r.rule # s.rule =>
            LET g == Glob(r.path)  h == Glob(s.path) IN
            Cross(Trimmed(g), Trimmed(h)) \/ SlashApart(g, h)

Upstream(routes) == {<<r.method, r.url, r.host>> : r \in routes}

\* A merge that moves a product to another prefix changes nothing of what
\* its backend is asked for (README.md, "prefix").
PrefixIsInvisible ==
    [][main'.yaml.endpoints = main.yaml.endpoints =>
           Upstream(main'.json.routes) = Upstream(main.json.routes)]_vars

=============================================================================
