------------------------- MODULE PullRequestsProofs -------------------------
(***************************************************************************)
(* Whatever the pull requests do, main only ever holds what "make check"   *)
(* accepted as it is there now: MainInSync, RoutesDistinct,                *)
(* PrefixIsInvisible, WideningIsBounded.                                   *)
(***************************************************************************)
EXTENDS PullRequests, TLAPS, WellFoundedInduction

\* A pull request starts from a main there was, and main only counts up, so a
\* main that is the base of a pull request is the one it was checked with.
BasesInPast == \A p \in PRs : pr[p].base.n <= main.n

GreenIsChecked ==
    \A p \in PRs :
        pr[p].green /\ pr[p].base = main => MakeCheck(MergedYaml(p), MergedJson(p))

MainChecked == MakeCheck(main.yaml, main.json)

IInv == TypeOK /\ BasesInPast /\ GreenIsChecked /\ MainChecked

-----------------------------------------------------------------------------
(* Types: the generator and git make specs and files of what they are given. *)

LEMMA GeneratedIsJson ==
    ASSUME NEW y \in Specs, NEW wanted, ~Fails(y, wanted)
    PROVE  Generated(y, wanted) \in Jsons
  <1>1. wanted \in SUBSET Products
    BY DEF Fails
  <1>2. ASSUME NEW e \in y.endpoints
        PROVE  Normalized(y, e) \in Routes
    <2>1. y.prefix \in [Products -> Prefixes] /\ e \in Drafts \cup InitSpec.endpoints
      BY <1>2 DEF Specs
    <2>2. Normalized(y, e) = Normalized([prefix |-> y.prefix], e)
      BY DEF Normalized, ExposedPath, UrlPattern, EffectiveBackend
    <2> QED
      BY <2>1, <2>2 DEF Routes
  <1>3. Kept(y, wanted) \subseteq y.endpoints
    BY DEF Kept
  <1> QED
    BY <1>1, <1>2, <1>3 DEF Generated, Jsons

LEMMA MergedTypes ==
    ASSUME TypeOK, NEW p \in PRs
    PROVE  MergedYaml(p) \in Specs /\ MergedJson(p) \in Jsons
  <1>1. /\ pr[p].base.yaml \in Specs /\ main.yaml \in Specs /\ pr[p].yaml \in Specs
        /\ pr[p].base.json \in Jsons /\ main.json \in Jsons /\ pr[p].json \in Jsons
    BY DEF TypeOK, Mains
  <1>2. MergedYaml(p) \in Specs
    <2>1. MergedYaml(p).prefix \in [Products -> Prefixes]
      BY <1>1 DEF MergedYaml, MergeValues, Specs
    <2>2. MergedYaml(p).endpoints \in SUBSET (Drafts \cup InitSpec.endpoints)
      BY <1>1 DEF MergedYaml, MergeSets, Specs
    <2> QED
      BY <2>1, <2>2 DEF MergedYaml, Specs
  <1>3. MergedJson(p) \in Jsons
    BY <1>1 DEF MergedJson, MergeValues, MergeSets, Jsons
  <1> QED
    BY <1>2, <1>3

LEMMA PushYamlType ==
    ASSUME TypeOK, NEW p \in PRs, NEW yaml \in Specs, PushYaml(p, yaml)
    PROVE  TypeOK'
  BY InputsAssumption DEF TypeOK, PushYaml, CanEdit

LEMMA PushJsonType ==
    ASSUME TypeOK, NEW p \in PRs, NEW json \in Jsons, PushJson(p, json)
    PROVE  TypeOK'
  BY DEF TypeOK, PushJson

LEMMA TypeStep ==
    ASSUME TypeOK, NEW p \in PRs,
           \/ Add(p) \/ Remove(p) \/ MovePrefix(p) \/ Gen(p) \/ HandEdit(p) \/ Update(p)
           \/ Check(p) \/ Merge(p)
    PROVE  TypeOK'
  <1>1. pr[p].yaml \in Specs /\ pr[p].json \in Jsons
    BY DEF TypeOK
  <1>2. CASE Add(p)
    <2>1. PICK e \in Drafts : PushYaml(p, [pr[p].yaml EXCEPT !.endpoints = @ \cup {e}])
      BY <1>2 DEF Add
    <2>2. [pr[p].yaml EXCEPT !.endpoints = @ \cup {e}] \in Specs
      BY <1>1 DEF Specs
    <2> QED
      BY <2>1, <2>2, PushYamlType
  <1>3. CASE Remove(p)
    <2>1. PICK e : PushYaml(p, [pr[p].yaml EXCEPT !.endpoints = @ \ {e}])
      BY <1>3 DEF Remove
    <2>2. [pr[p].yaml EXCEPT !.endpoints = @ \ {e}] \in Specs
      BY <1>1 DEF Specs
    <2> QED
      BY <2>1, <2>2, PushYamlType
  <1>4. CASE MovePrefix(p)
    <2>1. PICK x \in Products, prefix \in Prefixes :
              PushYaml(p, [pr[p].yaml EXCEPT !.prefix[x] = prefix])
      BY <1>4 DEF MovePrefix
    <2>2. [pr[p].yaml EXCEPT !.prefix[x] = prefix] \in Specs
      BY <1>1 DEF Specs
    <2> QED
      BY <2>1, <2>2, PushYamlType
  <1>5. CASE Gen(p)
    BY <1>1, <1>5, GeneratedIsJson, PushJsonType DEF Gen
  <1>6. CASE HandEdit(p)
    <2>1. [pr[p].json EXCEPT !.filtered = {}] \in Jsons
      BY <1>1 DEF Jsons
    <2>2. ASSUME NEW r PROVE [pr[p].json EXCEPT !.routes = @ \ {r}] \in Jsons
      BY <1>1 DEF Jsons
    <2>3. CASE PushJson(p, [pr[p].json EXCEPT !.filtered = {}])
      BY <2>1, <2>3, PushJsonType
    <2>4. CASE \E r : PushJson(p, [pr[p].json EXCEPT !.routes = @ \ {r}])
      BY <2>2, <2>4, PushJsonType
    <2> QED
      BY <1>6, <2>3, <2>4 DEF HandEdit
  <1>7. CASE Update(p)
    BY <1>7, MergedTypes DEF Update, TypeOK
  <1>8. CASE Check(p)
    BY <1>8 DEF Check, TypeOK, MakeCheck
  <1>9. CASE Merge(p)
    <2>1. main' \in Mains
      BY <1>9, MergedTypes DEF Merge, Land, TypeOK, Mains
    <2> QED
      BY <1>9, <2>1 DEF Merge, Land, TypeOK
  <1> QED
    BY <1>2, <1>3, <1>4, <1>5, <1>6, <1>7, <1>8, <1>9

-----------------------------------------------------------------------------

LEMMA InitHolds == Init => IInv
  <1> SUFFICES ASSUME Init PROVE IInv
    OBVIOUS
  <1>1. InitSpec \in Specs /\ Generated(InitSpec, {}) \in Jsons
    <2>1. InitSpec \in Specs
      BY InputsAssumption DEF Specs
    <2> QED
      BY <2>1, InitAssumption, GeneratedIsJson
  <1>2. main \in Mains /\ main.yaml = InitSpec /\ main.json = Generated(InitSpec, {})
    BY <1>1 DEF Init, Mains
  <1>3. TypeOK
    BY <1>1, <1>2, InputsAssumption DEF Init, TypeOK, Mains
  <1>4. BasesInPast
    BY <1>2 DEF Init, BasesInPast, Mains
  <1>5. MainChecked
    BY <1>2, InitAssumption DEF MainChecked, MakeCheck
  <1>6. GreenIsChecked
    BY DEF Init, GreenIsChecked
  <1> QED
    BY <1>3, <1>4, <1>5, <1>6 DEF IInv

\* A push leaves a pull request that is not green, and the others as they are.
LEMMA PushStep ==
    ASSUME IInv, TypeOK', NEW p \in PRs, UNCHANGED main, ~pr'[p].green,
           pr'[p].base \in {pr[p].base, main}, \A q \in PRs \ {p} : pr'[q] = pr[q]
    PROVE  IInv'
  <1>1. BasesInPast'
    BY DEF IInv, TypeOK, Mains, BasesInPast
  <1>2. ASSUME NEW q \in PRs, pr'[q].green, pr'[q].base = main
        PROVE  MakeCheck(MergedYaml(q), MergedJson(q))'
    <2>1. q # p /\ pr'[q] = pr[q]
      BY <1>2
    <2>2. MergedYaml(q)' = MergedYaml(q) /\ MergedJson(q)' = MergedJson(q)
      BY <2>1 DEF MergedYaml, MergedJson
    <2>3. MakeCheck(MergedYaml(q), MergedJson(q))
      BY <1>2, <2>1 DEF IInv, GreenIsChecked
    <2> QED
      BY <2>2, <2>3 DEF MakeCheck
  <1>3. GreenIsChecked'
    BY <1>2 DEF GreenIsChecked
  <1>4. MainChecked'
    BY DEF IInv, MainChecked
  <1> QED
    BY <1>1, <1>3, <1>4 DEF IInv

LEMMA AuthorStep ==
    ASSUME IInv, TypeOK', NEW p \in PRs,
           Add(p) \/ Remove(p) \/ MovePrefix(p) \/ Gen(p) \/ HandEdit(p) \/ Update(p)
    PROVE  IInv'
  <1>1. ASSUME NEW yaml, PushYaml(p, yaml) PROVE IInv'
    BY <1>1, PushStep DEF PushYaml, IInv, TypeOK
  <1>2. ASSUME NEW json, PushJson(p, json) PROVE IInv'
    BY <1>2, PushStep DEF PushJson, IInv, TypeOK
  <1>3. CASE Update(p)
    BY <1>3, PushStep DEF Update, IInv, TypeOK
  <1>4. CASE Add(p) \/ Remove(p) \/ MovePrefix(p)
    BY <1>1, <1>4 DEF Add, Remove, MovePrefix
  <1>5. CASE Gen(p) \/ HandEdit(p)
    BY <1>2, <1>5 DEF Gen, HandEdit
  <1> QED
    BY <1>3, <1>4, <1>5

LEMMA CheckStep ==
    ASSUME IInv, TypeOK', NEW p \in PRs, Check(p)
    PROVE  IInv'
  <1>1. /\ main' = main
        /\ \A q \in PRs : /\ pr'[q].base = pr[q].base /\ pr'[q].yaml = pr[q].yaml
                          /\ pr'[q].json = pr[q].json
                          /\ q # p => pr'[q].green = pr[q].green
        /\ pr'[p].green = MakeCheck(MergedYaml(p), MergedJson(p))
    BY DEF Check, IInv, TypeOK
  <1>2. \A q \in PRs : MergedYaml(q)' = MergedYaml(q) /\ MergedJson(q)' = MergedJson(q)
    BY <1>1 DEF MergedYaml, MergedJson
  <1>3. BasesInPast' /\ MainChecked'
    BY <1>1 DEF IInv, BasesInPast, MainChecked, MakeCheck
  <1>4. ASSUME NEW q \in PRs, pr'[q].green, pr'[q].base = main'
        PROVE  MakeCheck(MergedYaml(q), MergedJson(q))'
    <2>1. MakeCheck(MergedYaml(q), MergedJson(q))
      BY <1>1, <1>4 DEF IInv, GreenIsChecked
    <2> QED
      BY <1>2, <2>1 DEF MakeCheck
  <1>5. GreenIsChecked'
    BY <1>4 DEF GreenIsChecked
  <1> QED
    BY <1>3, <1>5 DEF IInv

LEMMA MergeStep ==
    ASSUME IInv, TypeOK', NEW p \in PRs, Merge(p)
    PROVE  IInv'
  <1>1. /\ main' = [n |-> main.n + 1, yaml |-> MergedYaml(p), json |-> MergedJson(p)]
        /\ \A q \in PRs : pr'[q].base = pr[q].base /\ pr[q].base \in Mains
        /\ main.n \in Nat
    BY DEF Merge, Land, IInv, TypeOK, Mains
  <1>2. MainChecked'
    BY <1>1 DEF Merge, IInv, GreenIsChecked, MainChecked, MakeCheck
  <1>3. \A q \in PRs : pr'[q].base.n < main'.n
    BY <1>1 DEF IInv, BasesInPast, Mains
  <1>4. BasesInPast'
    BY <1>1, <1>3 DEF BasesInPast, Mains
  <1>5. GreenIsChecked'
    BY <1>1, <1>3 DEF GreenIsChecked, Mains
  <1> QED
    BY <1>2, <1>4, <1>5 DEF IInv

LEMMA StutterStep == IInv /\ UNCHANGED vars => IInv'
  <1> SUFFICES ASSUME IInv, UNCHANGED vars PROVE IInv'
    OBVIOUS
  <1>1. pr' = pr /\ main' = main
    BY DEF vars
  <1> QED
    BY <1>1 DEF IInv, TypeOK, BasesInPast, GreenIsChecked, MainChecked,
                MergedYaml, MergedJson, MakeCheck

LEMMA Invariance == Spec => []IInv
  <1>1. IInv /\ [Next]_vars => IInv'
    <2>1. ASSUME IInv, NEW p \in PRs,
                 \/ Add(p) \/ Remove(p) \/ MovePrefix(p) \/ Gen(p) \/ HandEdit(p) \/ Update(p)
                 \/ Check(p) \/ Merge(p)
          PROVE  IInv'
      <3>1. TypeOK'
        BY <2>1, TypeStep DEF IInv
      <3> QED
        BY <2>1, <3>1, AuthorStep, CheckStep, MergeStep
    <2> QED
      BY <2>1, StutterStep DEF Next
  <1> QED
    BY InitHolds, <1>1, PTL DEF Spec

-----------------------------------------------------------------------------

\* The routes of every branch come from declarations, and no build is filtered
\* by a name that is no product.
THEOREM TypeCorrect == Spec => []TypeOK
  <1>1. IInv => TypeOK
    BY DEF IInv
  <1> QED
    BY Invariance, <1>1, PTL

\* What main serves is what its endpoints.yaml says, for any number of pull
\* requests, endpoints, products and prefixes.
THEOREM InSync == Spec => []MainInSync
  <1>1. IInv => MainInSync
    BY DEF IInv, MainChecked, MakeCheck, MainInSync
  <1> QED
    BY Invariance, <1>1, PTL

\* No two routes of main take the same requests: two with one glob have
\* different names for a parameter, or are one route to Validate.
THEOREM Distinct == Spec => []RoutesDistinct
  <1>1. ASSUME IInv PROVE RoutesDistinct
    <2> SUFFICES ASSUME NEW r \in main.json.routes, NEW s \in main.json.routes,
                        r # s, r.method = s.method, Glob(r.path) = Glob(s.path)
                 PROVE  FALSE
      BY DEF RoutesDistinct
    <2> DEFINE y == main.yaml
    <2>1. /\ y \in Specs /\ Valid(y) /\ RouterAccepts(main.json.routes)
          /\ main.json = Generated(y, {})
      BY <1>1 DEF IInv, TypeOK, Mains, MainChecked, MakeCheck, Fails
    <2>2. PICK e \in y.endpoints, f \in y.endpoints :
              r = Normalized(y, e) /\ s = Normalized(y, f)
      BY <2>1 DEF Generated, Kept
    <2>3. e # f /\ r.path = ExposedPath(y, e) /\ s.path = ExposedPath(y, f)
          /\ r.method = e.method /\ s.method = f.method
      BY <2>2 DEF Normalized
    <2>4. r.path # s.path
      BY <2>1, <2>3 DEF Valid, Key
    <2>5. r.path \in Seq(STRING) /\ s.path \in Seq(STRING)
      <3>1. e.path \in Seq(STRING) /\ f.path \in Seq(STRING)
        BY <2>1, InputsAssumption DEF Specs
      <3>2. \A x \in Products : y.prefix[x] \in Seq(STRING)
        BY <2>1, InputsAssumption DEF Specs
      <3>3. \A a, b \in Seq(STRING) : a \o b \in Seq(STRING)
        OBVIOUS
      <3>4. ExposedPath(y, e) \in Seq(STRING)
        BY <3>1, <3>2, <3>3 DEF ExposedPath
      <3>5. ExposedPath(y, f) \in Seq(STRING)
        BY <3>1, <3>2, <3>3 DEF ExposedPath
      <3> QED
        BY <2>3, <3>4, <3>5
    <2>6. DOMAIN r.path = DOMAIN s.path
      BY DEF Glob
    <2>7. PICK i \in DOMAIN r.path : r.path[i] # s.path[i]
      BY <2>4, <2>5, <2>6
    <2>8. \A j \in 1..i : Glob(r.path)[j] = Glob(s.path)[j]
      OBVIOUS
    <2> QED
      BY <2>1, <2>6, <2>7, <2>8 DEF RouterAccepts
  <1> QED
    BY Invariance, <1>1, PTL

\* Of what a backend is asked for, the prefixes are no part.
LEMMA UpstreamOfDeclared ==
    ASSUME NEW y
    PROVE  Upstream(Generated(y, {}).routes) =
               {<<e.method, IF e.url = <<>> THEN e.path ELSE e.url, EffectiveBackend(e)>> : e \in y.endpoints}
  <1>1. Generated(y, {}).routes = {Normalized(y, e) : e \in y.endpoints}
    BY DEF Generated, Kept
  <1>2. \A e : /\ Normalized(y, e).method = e.method /\ Normalized(y, e).host = EffectiveBackend(e)
               /\ Normalized(y, e).url = IF e.url = <<>> THEN e.path ELSE e.url
    BY DEF Normalized, UrlPattern
  <1> QED
    BY <1>1, <1>2, Zenon DEF Upstream

\* A merge that only moves prefixes changes nothing of what backends are asked for.
THEOREM PrefixIsInvisibleHolds == Spec => PrefixIsInvisible
  <1>1. MainInSync /\ MainInSync' =>
          [main'.yaml.endpoints = main.yaml.endpoints =>
              Upstream(main'.json.routes) = Upstream(main.json.routes)]_vars
    <2>1. ASSUME MainInSync, MainInSync', main'.yaml.endpoints = main.yaml.endpoints
          PROVE  Upstream(main'.json.routes) = Upstream(main.json.routes)
      <3>1. main.json = Generated(main.yaml, {}) /\ main'.json = Generated(main'.yaml, {})
        BY <2>1 DEF MainInSync
      <3>2. /\ Upstream(Generated(main.yaml, {}).routes) =
                   {<<e.method, IF e.url = <<>> THEN e.path ELSE e.url, EffectiveBackend(e)>> : e \in main.yaml.endpoints}
            /\ Upstream(Generated(main'.yaml, {}).routes) =
                   {<<e.method, IF e.url = <<>> THEN e.path ELSE e.url, EffectiveBackend(e)>> : e \in main'.yaml.endpoints}
        BY UpstreamOfDeclared, Zenon
      <3> QED
        BY <2>1, <3>1, <3>2, Zenon
    <2> QED
      BY <2>1
  <1> QED
    BY <1>1, InSync, PTL DEF PrefixIsInvisible

-----------------------------------------------------------------------------
(* WideningIsBounded.  Trimming a path adds no parameter to it.            *)

LEMMA Smallest ==
    ASSUME NEW T \in SUBSET Nat, T # {}
    PROVE  \E m \in T : \A k \in T : m <= k
  <1> DEFINE R == OpToRel(<, Nat)
  <1>1. IsWellFoundedOn(R, Nat)
    BY NatLessThanWellFounded
  <1> HIDE DEF R
  <1>2. PICK m \in T : \A k \in T : ~(<<k, m>> \in R)
    BY <1>1, WFMin
  <1>3. \A k \in T : <<k, m>> \in R <=> k < m
    BY DEF R, OpToRel
  <1>4. \A k \in T : m <= k
    <2>1. m \in Nat /\ \A k \in T : k \in Nat /\ ~(k < m)
      BY <1>2, <1>3
    <2> QED
      BY <2>1
  <1> QED
    BY <1>4

LEMMA MinAndMax ==
    ASSUME NEW n \in Nat, NEW T \in SUBSET (1..n), T # {}
    PROVE  Min(T) \in T /\ Max(T) \in T
  <1>1. \E m \in T : \A k \in T : m <= k
    BY Smallest
  <1>2. \E m \in T : \A k \in T : m >= k
    <2> DEFINE U == {n - k : k \in T}
    <2>1. U \in SUBSET Nat /\ U # {}
      OBVIOUS
    <2>2. PICK u \in U : \A v \in U : u <= v
      BY <2>1, Smallest
    <2>3. PICK m \in T : u = n - m
      OBVIOUS
    <2>4. \A k \in T : n - m <= n - k
      BY <2>2, <2>3
    <2> QED
      BY <2>4
  <1> QED
    BY <1>1, <1>2 DEF Min, Max

Segments == STRING \cup {Star, ""}

LEMMA OnlyOne ==
    ASSUME NEW S, NEW x \in S
    PROVE  <<x>> \in Seq(S) /\ \A i \in DOMAIN <<x>> : <<x>>[i] = x
  OBVIOUS

LEMMA TrimmedFacts ==
    ASSUME NEW s \in Seq(Segments)
    PROVE  /\ Trimmed(s) \in Seq(Segments)
           /\ \A i \in DOMAIN Trimmed(s) : Trimmed(s)[i] = Star => \E j \in DOMAIN s : s[j] = Star
  <1> DEFINE full == {i \in DOMAIN s : s[i] # ""}
  <1>1. CASE full = {}
    <2>1. Trimmed(s) = <<"">>
      BY <1>1 DEF Trimmed
    <2>2. "" \in Segments /\ "" # Star
      BY DEF Segments, Star
    <2>3. <<"">> \in Seq(Segments) /\ \A i \in DOMAIN <<"">> : <<"">>[i] = ""
      BY <2>2, OnlyOne, Zenon
    <2> QED
      BY <2>1, <2>2, <2>3, Zenon
  <1>2. CASE full # {}
    <2>1. Trimmed(s) = SubSeq(s, Min(full), Max(full))
      BY <1>2, Zenon DEF Trimmed
    <2> DEFINE m == Min(full)
               n == Max(full)
    <2>2. full \in SUBSET (1..Len(s)) /\ Len(s) \in Nat
      <3>1. DOMAIN s = 1..Len(s) /\ Len(s) \in Nat
        OBVIOUS
      <3> QED
        BY <3>1, Zenon
    <2> HIDE DEF full
    <2>3. m \in 1..Len(s) /\ n \in 1..Len(s)
      BY <1>2, <2>2, MinAndMax
    <2> HIDE DEF m, n
    <2>4. SubSeq(s, m, n) \in Seq(Segments)
      BY <2>3
    <2>5. \A i \in DOMAIN SubSeq(s, m, n) : \E j \in DOMAIN s : s[j] = SubSeq(s, m, n)[i]
      <3>1. TAKE i \in DOMAIN SubSeq(s, m, n)
      <3>2. SubSeq(s, m, n)[i] = s[m + i - 1] /\ m + i - 1 \in DOMAIN s
        BY <2>3, <3>1
      <3> QED
        BY <3>2
    <2> QED
      BY <2>1, <2>4, <2>5 DEF m, n
  <1> QED
    BY <1>1, <1>2

LEMMA GlobType == ASSUME NEW path \in Seq(STRING) PROVE Glob(path) \in Seq(Segments)
  <1>1. Star \in Segments /\ STRING \subseteq Segments
    BY DEF Segments
  <1>2. DOMAIN path = 1..Len(path) /\ Len(path) \in Nat /\ \A i \in DOMAIN path : path[i] \in STRING
    OBVIOUS
  <1>3. Glob(path) \in [1..Len(path) -> Segments]
    BY <1>1, <1>2 DEF Glob
  <1> QED
    BY <1>2, <1>3

\* What the guard compares is the right thing: a rule's path spans another as
\* a path (RuleMatches(h, g), on two globs) if, and only if, every path that the
\* other matches it matches too.
THEOREM SpanIsInclusion ==
    ASSUME NEW g \in Seq(Segments), NEW h \in Seq(Segments)
    PROVE  RuleMatches(h, g) <=>
             \A path \in Seq(Segments) : RuleMatches(g, path) => RuleMatches(h, path)
  <1>1. \A s \in Seq(Segments) : DOMAIN Trimmed(s) = 1..Len(Trimmed(s))
    BY TrimmedFacts
  <1>2. ASSUME RuleMatches(h, g), NEW path \in Seq(Segments), RuleMatches(g, path)
        PROVE  RuleMatches(h, path)
    <2>1. /\ Len(Trimmed(h)) = Len(Trimmed(g)) /\ Len(Trimmed(g)) = Len(Trimmed(path))
          /\ DOMAIN Trimmed(h) = DOMAIN Trimmed(g)
      BY <1>1, <1>2 DEF RuleMatches
    <2>2. ASSUME NEW i \in DOMAIN Trimmed(h)
          PROVE  Trimmed(h)[i] = Star \/ Trimmed(h)[i] = Trimmed(path)[i]
      <3>1. Trimmed(h)[i] = Star \/ Trimmed(h)[i] = Trimmed(g)[i]
        BY <1>2 DEF RuleMatches
      <3>2. Trimmed(g)[i] = Star \/ Trimmed(g)[i] = Trimmed(path)[i]
        BY <1>2, <2>1 DEF RuleMatches
      <3> QED
        BY <3>1, <3>2
    <2> QED
      BY <2>1, <2>2 DEF RuleMatches
  <1>3. RuleMatches(g, g)
    BY DEF RuleMatches
  <1> QED
    BY <1>2, <1>3

Tells(g, path) == Len(g) = Len(path) /\ \A i \in DOMAIN g : g[i] = Star \/ g[i] = path[i]

\* Of two globs that one path matches, the one whose parameters are all
\* parameters of the other is spanned by it; the guard sees that, unless
\* neither has one.
LEMMA GuardSees ==
    ASSUME NEW y, AuthorizationChecked(y),
           NEW g \in Seq(Segments), NEW h \in Seq(Segments),
           NEW r \in RulesOn(y, g), NEW s \in RulesOn(y, h), r # s,
           NEW path, Tells(Trimmed(g), path), Tells(Trimmed(h), path),
           \A i \in DOMAIN Trimmed(g) : Trimmed(g)[i] = Star => Trimmed(h)[i] = Star
    PROVE  SlashApart(g, h) /\ SlashApart(h, g)
  <1> DEFINE a == Trimmed(g)
             b == Trimmed(h)
             globs == {GlobOf(y, e) : e \in Gated(y)}
  <1>1. a \in Seq(Segments) /\ b \in Seq(Segments)
    BY TrimmedFacts
  <1>2. Len(a) = Len(b) /\ DOMAIN a = DOMAIN b
    BY <1>1 DEF Tells
  <1>3. \A i \in DOMAIN b : b[i] = Star \/ b[i] = a[i]
    BY <1>2 DEF Tells
  <1>4. RuleMatches(h, g)
    BY <1>2, <1>3 DEF RuleMatches
  <1>5. g \in globs /\ h \in globs
    BY DEF RulesOn
  <1>6. RulesOn(y, g) # RulesOn(y, h)
    BY <1>5 DEF AuthorizationChecked
  <1>7. \A j \in DOMAIN h : h[j] # Star
    BY <1>4, <1>5, <1>6 DEF AuthorizationChecked
  <1>8. \A i \in DOMAIN b : b[i] # Star
    BY <1>7, TrimmedFacts
  <1>9. a = b
    BY <1>1, <1>2, <1>3, <1>8
  <1> QED
    BY <1>6, <1>8, <1>9 DEF SlashApart

\* On main two rules that differ meet on one path only where their globs cross
\* or are apart by a slash, for any endpoints, prefixes and paths.
THEOREM WideningIsBoundedHolds == Spec => []WideningIsBounded
  <1>1. ASSUME IInv PROVE WideningIsBounded
    <2> DEFINE y == main.yaml
    <2>1. /\ y \in Specs /\ AuthorizationChecked(y) /\ main.json = Generated(y, {})
          /\ \A e \in y.endpoints : e.product \in Products
      BY <1>1 DEF IInv, TypeOK, Mains, MainChecked, MakeCheck, Fails, Valid, ValidEndpoint
    <2>2. ASSUME NEW r \in main.json.routes, r.rule.declared
          PROVE  Glob(r.path) \in Seq(Segments) /\ r.rule \in RulesOn(y, Glob(r.path))
      <3>1. PICK e \in y.endpoints : r = Normalized(y, e)
        BY <2>1 DEF Generated, Kept
      <3>2. r.path = ExposedPath(y, e) /\ r.rule = e.rule
        BY <3>1 DEF Normalized
      <3>3. y.prefix[e.product] \in Seq(STRING) /\ e.path \in Seq(STRING)
        BY <2>1, InputsAssumption DEF Specs
      <3>4. r.path \in Seq(STRING)
        <4>1. r.path = y.prefix[e.product] \o e.path
          BY <2>1, <3>2, Zenon DEF ExposedPath
        <4> QED
          BY <3>3, <4>1
      <3> QED
        BY <2>2, <3>2, <3>4, GlobType DEF RulesOn, Gated, GlobOf
    <2>3. ASSUME NEW r \in main.json.routes, NEW s \in main.json.routes, NEW path \in Paths,
                 Applies(r, path), Applies(s, path), r.rule # s.rule
          PROVE  LET g == Glob(r.path)  h == Glob(s.path) IN
                 Cross(Trimmed(g), Trimmed(h)) \/ SlashApart(g, h)
      <3> DEFINE g == Glob(r.path)
                 h == Glob(s.path)
                 a == Trimmed(g)
                 b == Trimmed(h)
      <3>1. /\ g \in Seq(Segments) /\ h \in Seq(Segments)
            /\ r.rule \in RulesOn(y, g) /\ s.rule \in RulesOn(y, h)
        BY <2>2, <2>3 DEF Applies
      <3>2. Tells(a, Trimmed(path)) /\ Tells(b, Trimmed(path))
        BY <2>3 DEF Applies, RuleMatches, Tells
      <3> HIDE DEF g, h
      <3>3. DOMAIN a = DOMAIN b
        BY <3>1, <3>2, TrimmedFacts DEF Tells
      <3>4. CASE \A i \in DOMAIN a : a[i] = Star => b[i] = Star
        BY <2>1, <2>3, <3>1, <3>2, <3>4, GuardSees DEF g, h
      <3>5. CASE \A i \in DOMAIN b : b[i] = Star => a[i] = Star
        BY <2>1, <2>3, <3>1, <3>2, <3>5, GuardSees DEF g, h
      <3>6. CASE /\ \E i \in DOMAIN a : a[i] = Star /\ b[i] # Star
                 /\ \E j \in DOMAIN b : b[j] = Star /\ a[j] # Star
        BY <3>3, <3>6 DEF Cross, g, h
      <3> QED
        BY <3>4, <3>5, <3>6 DEF g, h
    <2> QED
      BY <2>3 DEF WideningIsBounded
  <1> QED
    BY <1>1, Invariance, PTL

=============================================================================
