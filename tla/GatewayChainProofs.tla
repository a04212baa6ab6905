-------------------------- MODULE GatewayChainProofs --------------------------
(* Proofs about GatewayChain, for every client, endpoint and configuration. *)
EXTENDS GatewayChain, TLAPS

-----------------------------------------------------------------------------
(* The type invariant.                                                     *)

\* A trace context that was found or made up is one.
LEMMA TraceOfType == ASSUME NEW r \in Request PROVE TraceOf(r) \in Parent
  BY MintedIsMinted, TextsAssumption DEF TraceOf, Request, Parent

LEMMA IdentifiedType ==
    ASSUME NEW r \in Request, r.auth \in Tokens
    PROVE  Identified(r) \in Request
  <1>1. \A c : ClaimText(r.auth, c) \in STRING
    BY TokensAssumption, TextsAssumption DEF ClaimText
  <1>2. ClientIp(r) \in STRING
    BY TextsAssumption DEF ClientIp, Request
  <1> QED
    BY <1>1, <1>2 DEF Identified, Request

\* What every handler may do with a request.
Carries(r) ==
    /\ r \in Request
    /\ r.path = sent.path /\ r.method = sent.method
    /\ r.origin = sent.origin /\ r.referer = sent.referer
    /\ r.trace_id = sent.trace_id
    /\ r.forwarded_for = sent.forwarded_for /\ r.real_ip = sent.real_ip
    /\ r.auth \in {sent.auth} \cup Tokens
    /\ r.cookie \in {sent.cookie, "none"}

LEMMA HandleCarries ==
    ASSUME RequestOK, Handle
    PROVE  /\ RequestOK'
           /\ sent' = sent
           /\ \/ \E r, from : Forward(r, from) /\ from \in {source, "session"}
              \/ \E why \in Denials : Deny(why)
           /\ denied = "no" /\ at \in DOMAIN edge.plugins
  <1>1. denied = "no" /\ at \in DOMAIN edge.plugins
    BY DEF Handle, PassTimer, FillLanguage, ResolveTrace, PassThrough, Refuse, Resolve, SkipToken,
           CheckToken, Has
  <1>2. ASSUME NEW r, NEW from \in {source, "session"}, Forward(r, from), Carries(r)
        PROVE  RequestOK' /\ sent' = sent /\ \E s, f : Forward(s, f) /\ f \in {source, "session"}
    BY <1>2 DEF Forward, Carries, RequestOK
  <1>3. ASSUME NEW why \in Denials, Deny(why)
        PROVE  RequestOK' /\ sent' = sent /\ \E w \in Denials : Deny(w)
    BY <1>3 DEF Deny, RequestOK
  <1>4. Carries(req)
    BY DEF Carries, RequestOK
  <1>5. CASE PassTimer
    BY <1>1, <1>2, <1>4, <1>5 DEF PassTimer
  <1>6. CASE FillLanguage
    <2>1. ASSUME NEW l \in STRING PROVE Carries([req EXCEPT !.language = l])
      BY <1>4 DEF Carries, Request
    <2> QED
      BY <1>1, <1>2, <1>4, <1>6, <2>1, RequestsAssumption, TextsAssumption DEF FillLanguage
  <1>7. CASE ResolveTrace
    <2>1. Carries(Traced(req))
      BY <1>4, TraceOfType DEF Carries, Traced, Request
    <2> QED
      BY <1>1, <1>2, <1>7, <2>1 DEF ResolveTrace
  <1>8. Carries(WithoutCookie(req))
    BY <1>4, TextsAssumption DEF Carries, WithoutCookie, Request
  <1>9. CASE PassThrough
    BY <1>1, <1>2, <1>4, <1>8, <1>9 DEF PassThrough
  <1>10. CASE Refuse
    BY <1>1, <1>3, <1>10 DEF Refuse, Denials
  <1>11. CASE Resolve
    <2>1. ASSUME NEW t \in Tokens PROVE Carries([WithoutCookie(req) EXCEPT !.auth = t])
      BY <1>8, TokensAssumption DEF Carries, Request
    <2> QED
      BY <1>1, <1>2, <1>3, <1>11, <2>1 DEF Resolve, Denials
  <1>12. Carries(Stripped(req))
    BY <1>4, TextsAssumption DEF Carries, Stripped, Request
  <1>13. CASE SkipToken
    BY <1>1, <1>2, <1>12, <1>13 DEF SkipToken
  <1>14. CASE CheckToken
    <2>1. Rejected(req) \in Denials \cup {"no"}
      BY DEF Rejected, Denials
    <2>2. CASE Rejected(req) = "no" /\ Forward(Identified(Stripped(req)), source)
      <3>1. req.auth \in Tokens
        BY <2>2 DEF Rejected
      <3>2. Stripped(req).auth \in Tokens
        BY <3>1, <1>4 DEF Stripped, Carries, Request
      <3>3. Identified(Stripped(req)) \in Request
        BY <1>12, <3>2, IdentifiedType DEF Carries
      <3>4. Carries(Identified(Stripped(req)))
        BY <1>12, <3>3 DEF Carries, Identified, Request
      <3> QED
        BY <1>1, <1>2, <2>2, <3>4
    <2> QED
      BY <1>1, <1>3, <1>14, <2>1, <2>2 DEF CheckToken, Denials
  <1> QED
    BY <1>5, <1>6, <1>7, <1>9, <1>10, <1>11, <1>13, <1>14 DEF Handle

-----------------------------------------------------------------------------
(* What a handler has done to a request stays true behind it, whatever the *)
(* handlers after it do, in any order and any number of them.              *)

Passed(plugin) == \E i \in 1..(at - 1) : edge.plugins[i] = plugin

\* The token that jwt-headers let through, and what it wrote about it.
TokenOK ==
    /\ req.auth \in Tokens /\ Payload[req.auth].valid
    /\ \A claim \in RequiredClaims : ClaimText(req.auth, claim) # ""
    /\ \A h \in DOMAIN ClaimsToHeaders :
           h # "x-ip" => req.managed[h] = ClaimText(req.auth, ClaimsToHeaders[h])
    /\ edge.enforce => RolesAllow(req.auth, req.path)

IdentityInv ==
    Passed("jwt-headers") =>
        /\ Unchecked(req) \/ TokenOK
        /\ \A h \in ManagedHeaders :
            req.managed[h] # "" =>
                /\ req.auth \in Tokens /\ Payload[req.auth].valid
                /\ req.managed[h] = IF h = "x-ip" THEN ClientIp(sent)
                                    ELSE ClaimText(req.auth, ClaimsToHeaders[h])

\* The cookie, and what became of a request that came with one.
CookieInv ==
    /\ ~Passed("session-resolver") => req.auth = sent.auth /\ req.cookie = sent.cookie
    /\ Passed("session-resolver") =>
           /\ req.cookie # "none" => SessionSkips(req.path)
           /\ \/ SessionSkips(req.path) \/ req.method = "OPTIONS"
              \/ sent.auth # "none" \/ sent.cookie = "none" \/ req.auth \in Tokens

OriginInv ==
    source = "session" /\ req.method \notin SafeMethods =>
        AllowedOrigins \cap {sent.origin, sent.referer} # {}

TraceInv ==
    /\ ~Passed("trace-context") => req.traceparent = sent.traceparent
    /\ Passed("trace-context") =>
           /\ req.x_traceparent = req.traceparent
           /\ {sent.traceparent.trace, sent.trace_id} \cap Traces # {} =>
                  req.traceparent.trace \in {sent.traceparent.trace, sent.trace_id} \cap Traces

DeniedInv ==
    denied # "no" =>
        /\ at \in DOMAIN edge.plugins
        /\ ~SessionSkips(req.path) \/ ~JwtSkips(req.path)
        /\ denied = "missing" =>
               edge.plugins[at] = "jwt-headers" /\ ~Unchecked(req) /\ req.auth \notin Tokens

ChainInv ==
    /\ at \in Nat
    /\ IF at = 0 THEN NothingReceived
       ELSE RequestOK /\ IdentityInv /\ CookieInv /\ OriginInv /\ TraceInv /\ DeniedInv

LEMMA Advance ==
    ASSUME at \in Nat \ {0}, at' = at + 1, UNCHANGED edge, NEW plugin
    PROVE  Passed(plugin)' <=> Passed(plugin) \/ edge.plugins[at] = plugin
  <1>1. 1..(at' - 1) = 1..(at - 1) \cup {at}
    OBVIOUS
  <1> QED
    BY <1>1 DEF Passed

\* The request arrives.
LEMMA ReceiveInv ==
    ASSUME ChainInv, Receive
    PROVE  ChainInv'
  <1>1. at' = 1 /\ sent' \in Request /\ sent' \in Requests /\ req' = sent'
        /\ denied' = "no" /\ source' = "client"
    BY RequestsAssumption DEF ChainInv, Receive, NothingReceived
  <1>2. \A plugin : ~Passed(plugin)'
    BY <1>1 DEF Passed
  <1>3. RequestOK'
    BY <1>1 DEF RequestOK
  <1>4. IdentityInv' /\ CookieInv' /\ TraceInv'
    BY <1>1, <1>2 DEF IdentityInv, CookieInv, TraceInv
  <1>5. OriginInv' /\ DeniedInv'
    BY <1>1 DEF OriginInv, DeniedInv
  <1> QED
    BY <1>1, <1>3, <1>4, <1>5 DEF ChainInv

\* A handler other than jwt-headers that leaves the token alone.
LEMMA KeepsIdentity ==
    ASSUME at \in Nat \ {0}, RequestOK, IdentityInv, NEW r, NEW from, Forward(r, from), UNCHANGED edge,
           edge.plugins[at] # "jwt-headers",
           r.auth = req.auth, r.managed = req.managed, r.path = req.path, r.method = req.method
    PROVE  IdentityInv'
  <1>1. Passed("jwt-headers")' <=> Passed("jwt-headers")
    BY Advance DEF Forward
  <1>2. req' = r /\ sent' = sent
    BY DEF Forward
  <1>3. Unchecked(req) <=> Unchecked(req')
    BY <1>2 DEF Unchecked
  <1> QED
    BY <1>1, <1>2, <1>3 DEF IdentityInv, TokenOK

LEMMA IdentityStep ==
    ASSUME ChainInv, at # 0, Handle, UNCHANGED edge
    PROVE  IdentityInv'
  <1>1. at \in Nat \ {0} /\ RequestOK /\ IdentityInv /\ req \in Request
    BY DEF ChainInv, RequestOK
  <1>2. ASSUME NEW why, Deny(why) PROVE IdentityInv'
    BY <1>1, <1>2 DEF Deny, IdentityInv, TokenOK, Passed
  <1>3. CASE PassTimer \/ FillLanguage \/ ResolveTrace \/ PassThrough
    <2>1. edge.plugins[at] # "jwt-headers"
      BY <1>3 DEF PassTimer, FillLanguage, ResolveTrace, PassThrough, Has
    <2>2. ASSUME NEW r, NEW from, Forward(r, from),
                 r.auth = req.auth, r.managed = req.managed, r.path = req.path, r.method = req.method
          PROVE  IdentityInv'
      BY <1>1, <2>1, <2>2, KeepsIdentity
    <2>3. CASE PassTimer
      BY <2>2, <2>3 DEF PassTimer
    <2>4. CASE FillLanguage
      BY <1>1, <2>2, <2>4 DEF FillLanguage, Request
    <2>5. CASE ResolveTrace
      BY <1>1, <2>2, <2>5 DEF ResolveTrace, Traced, Request
    <2>6. CASE PassThrough
      BY <1>1, <2>2, <2>6 DEF PassThrough, WithoutCookie, Request
    <2> QED
      BY <1>3, <2>3, <2>4, <2>5, <2>6
  <1>4. CASE Refuse
    BY <1>2, <1>4 DEF Refuse
  <1>5. CASE Resolve
    <2>1. ASSUME NEW t \in Tokens, Forward([WithoutCookie(req) EXCEPT !.auth = t], "session")
          PROVE  IdentityInv'
      <3>1. req.auth \notin Tokens
        BY <1>5, TokensAssumption DEF Resolve, PassesThrough
      <3>2. Passed("jwt-headers")' <=> Passed("jwt-headers")
        BY <1>1, <1>5, <2>1, Advance DEF Forward, Resolve, Has
      <3>3. req'.path = req.path /\ req'.method = req.method /\ req'.managed = req.managed
        BY <1>1, <2>1 DEF Forward, WithoutCookie, Request
      <3>4. Unchecked(req) <=> Unchecked(req')
        BY <3>3 DEF Unchecked
      <3> QED
        BY <1>1, <3>1, <3>2, <3>3, <3>4 DEF IdentityInv, TokenOK
    <2> QED
      BY <1>2, <1>5, <2>1 DEF Resolve
  <1>6. CASE SkipToken
    <2>1. req' = Stripped(req)
      BY <1>6 DEF SkipToken, Forward
    <2>2. Unchecked(req') /\ \A h \in ManagedHeaders : req'.managed[h] = ""
      BY <1>1, <1>6, <2>1 DEF SkipToken, Unchecked, Stripped, Request
    <2> QED
      BY <2>2 DEF IdentityInv
  <1>7. CASE CheckToken
    <2>1. ASSUME Rejected(req) = "no", Forward(Identified(Stripped(req)), source)
          PROVE  IdentityInv'
      <3>1. /\ req.auth \in Tokens /\ Payload[req.auth].valid
            /\ \A claim \in RequiredClaims : ClaimText(req.auth, claim) # ""
            /\ edge.enforce => RolesAllow(req.auth, req.path)
        BY <2>1 DEF Rejected
      <3>2. /\ req' = Identified(Stripped(req)) /\ sent' = sent
            /\ req'.auth = req.auth /\ req'.path = req.path
            /\ ClientIp(Stripped(req)) = ClientIp(sent) /\ Stripped(req).auth = req.auth
        BY <1>1, <2>1 DEF Forward, Identified, Stripped, Request, ClientIp, RequestOK
      <3>3. \A h \in ManagedHeaders :
                req'.managed[h] = IF h = "x-ip" THEN ClientIp(sent)
                                  ELSE ClaimText(req.auth, ClaimsToHeaders[h])
        BY <1>1, <3>2 DEF Identified, Stripped, Request
      <3>4. TokenOK'
        BY <3>1, <3>2, <3>3 DEF TokenOK, ManagedHeaders
      <3> QED
        BY <3>1, <3>2, <3>3, <3>4 DEF IdentityInv
    <2> QED
      BY <1>2, <1>7, <2>1 DEF CheckToken
  <1> QED
    BY <1>3, <1>4, <1>5, <1>6, <1>7 DEF Handle

\* Which handlers leave the bearer, the cookie and the token's source alone.
LEMMA OtherHandlers ==
    ASSUME ChainInv, at # 0, Handle, at \in DOMAIN edge.plugins, edge.plugins[at] # "session-resolver"
    PROVE  /\ req'.auth = req.auth /\ req'.cookie = req.cookie /\ source' = source
           /\ req'.path = req.path /\ req'.method = req.method
  <1>1. req \in Request
    BY DEF ChainInv, RequestOK
  <1> QED
    BY <1>1 DEF Handle, PassTimer, FillLanguage, ResolveTrace, PassThrough, Refuse, Resolve, SkipToken,
                CheckToken, Has, Forward, Deny, Traced, Stripped, Identified, Request

\* A step of the chain, as far as the handlers' positions go.
LEMMA Progress ==
    ASSUME ChainInv, at # 0, Handle, UNCHANGED edge
    PROVE  /\ RequestOK /\ RequestOK' /\ sent' = sent /\ denied = "no"
           /\ at \in Nat \ {0} /\ at \in DOMAIN edge.plugins
           /\ \/ at' = at + 1 /\ denied' = "no"
              \/ at' = at /\ req' = req /\ source' = source
           /\ at' \in Nat \ {0}
  BY HandleCarries DEF ChainInv, Forward, Deny

LEMMA CookieStep ==
    ASSUME ChainInv, at # 0, Handle, UNCHANGED edge
    PROVE  CookieInv'
  <1>1. CookieInv
    BY DEF ChainInv
  <1>2. CASE at' = at /\ req' = req
    BY <1>1, <1>2, Progress DEF CookieInv, Passed
  <1>3. CASE at' = at + 1 /\ edge.plugins[at] # "session-resolver"
    <2>1. Passed("session-resolver")' <=> Passed("session-resolver")
      BY <1>3, Progress, Advance
    <2> QED
      BY <1>1, <2>1, <1>3, Progress, OtherHandlers DEF CookieInv
  <1>4. CASE at' = at + 1 /\ edge.plugins[at] = "session-resolver"
    <2>1. Passed("session-resolver")'
      BY <1>4, Progress, Advance
    <2>2. req \in Request /\ sent' = sent
      BY Progress DEF RequestOK
    <2>3. /\ req'.path = req.path /\ req'.method = req.method
          /\ req'.auth = req.auth \/ req'.auth \in Tokens
          /\ req'.cookie # "none" => SessionSkips(req.path)
          /\ PassesThrough(req) \/ req'.auth \in Tokens
      <3>1. CASE PassThrough
        BY <2>2, <3>1 DEF PassThrough, Forward, WithoutCookie, Request
      <3>2. CASE Refuse
        BY <1>4, <3>2, Progress DEF Refuse, Deny
      <3>3. CASE Resolve
        <4>1. PICK t \in Tokens : req' = [WithoutCookie(req) EXCEPT !.auth = t]
          BY <1>4, <3>3, Progress DEF Resolve, Forward, Deny
        <4> QED
          BY <2>2, <4>1 DEF WithoutCookie, Request
      <3> QED
        BY <1>4, <3>1, <3>2, <3>3 DEF Handle, PassTimer, FillLanguage, ResolveTrace, SkipToken,
                                      CheckToken, Has
    <2>4. PassesThrough(req) <=> \/ SessionSkips(req.path) \/ req.method = "OPTIONS"
                                \/ req.auth # "none" \/ req.cookie = "none"
      BY DEF PassesThrough
    <2> QED
      BY <1>1, <2>1, <2>2, <2>3, <2>4 DEF CookieInv
  <1> QED
    BY <1>2, <1>3, <1>4, Progress

LEMMA OriginStep ==
    ASSUME ChainInv, at # 0, Handle, UNCHANGED edge
    PROVE  OriginInv'
  <1>1. OriginInv /\ RequestOK /\ req \in Request
    BY DEF ChainInv, RequestOK
  <1>2. req'.method = req.method /\ sent' = sent
    BY Progress DEF RequestOK
  <1>3. CASE source' = source
    BY <1>1, <1>2, <1>3 DEF OriginInv
  <1>4. CASE source' # source
    <2>1. Resolve
      BY <1>4 DEF Handle, PassTimer, FillLanguage, ResolveTrace, PassThrough, Refuse, SkipToken,
                  CheckToken, Forward, Deny
    <2>2. req.method \in SafeMethods \/ OriginAllowed(sent)
      BY <2>1, <1>1 DEF Resolve, OriginAllowed, RequestOK
    <2> QED
      BY <2>2, <1>2 DEF OriginInv, OriginAllowed
  <1> QED
    BY <1>3, <1>4

LEMMA TraceStep ==
    ASSUME ChainInv, at # 0, Handle, UNCHANGED edge
    PROVE  TraceInv'
  <1>1. TraceInv /\ RequestOK /\ req \in Request
    BY DEF ChainInv, RequestOK
  <1>2. CASE at' = at /\ req' = req
    BY <1>1, <1>2, Progress DEF TraceInv, Passed
  <1>3. CASE at' = at + 1 /\ edge.plugins[at] # "trace-context"
    <2>1. req'.traceparent = req.traceparent /\ req'.x_traceparent = req.x_traceparent
      BY <1>1, <1>3 DEF Handle, PassTimer, FillLanguage, ResolveTrace, PassThrough, Refuse, Resolve,
                        SkipToken, CheckToken, Has, Forward, Deny, WithoutCookie, Stripped, Identified,
                        Request
    <2>2. Passed("trace-context")' <=> Passed("trace-context")
      BY <1>3, Progress, Advance
    <2> QED
      BY <1>1, <2>1, <2>2, Progress DEF TraceInv
  <1>4. CASE at' = at + 1 /\ edge.plugins[at] = "trace-context"
    <2>1. req' = Traced(req)
      BY <1>4 DEF Handle, PassTimer, FillLanguage, ResolveTrace, PassThrough, Refuse, Resolve,
                  SkipToken, CheckToken, Has, Forward, Deny
    <2>2. req'.traceparent = TraceOf(req) /\ req'.x_traceparent = TraceOf(req)
      BY <1>1, <2>1 DEF Traced, Request
    <2>3. sent' = sent /\ req.trace_id = sent.trace_id
      BY Progress DEF RequestOK
    <2>4. Passed("trace-context")'
      BY <1>4, Progress, Advance
    <2>5. \/ req.traceparent = sent.traceparent
          \/ {sent.traceparent.trace, sent.trace_id} \cap Traces # {} =>
                 req.traceparent.trace \in {sent.traceparent.trace, sent.trace_id} \cap Traces
      BY <1>1 DEF TraceInv
    <2>6. {sent.traceparent.trace, sent.trace_id} \cap Traces # {} =>
              TraceOf(req).trace \in {sent.traceparent.trace, sent.trace_id} \cap Traces
      BY <2>3, <2>5 DEF TraceOf
    <2> QED
      BY <2>2, <2>3, <2>4, <2>6 DEF TraceInv
  <1> QED
    BY <1>2, <1>3, <1>4, Progress

LEMMA DeniedStep ==
    ASSUME ChainInv, at # 0, Handle, UNCHANGED edge
    PROVE  DeniedInv'
  <1>1. CASE denied' = "no"
    BY <1>1 DEF DeniedInv
  <1>2. CASE denied' # "no"
    <2>1. UNCHANGED <<at, req, edge>> /\ at \in DOMAIN edge.plugins
      BY <1>2, Progress, HandleCarries DEF ChainInv, Deny, Forward
    <2>2. CASE Refuse \/ Resolve
      <3>1. ~SessionSkips(req.path) /\ denied' # "missing"
        BY <1>2, <2>2, Progress DEF Refuse, Resolve, PassesThrough, Deny, Forward
      <3> QED
        BY <2>1, <3>1 DEF DeniedInv
    <2>3. CASE CheckToken
      <3>1. ~Unchecked(req) /\ edge.plugins[at] = "jwt-headers"
        BY <2>3 DEF CheckToken, Has
      <3>2. denied' = "missing" => req.auth \notin Tokens
        BY <1>2, <2>3, Progress DEF CheckToken, Deny, Forward, Rejected
      <3> QED
        BY <2>1, <3>1, <3>2 DEF DeniedInv, Unchecked
    <2> QED
      BY <1>2, <2>2, <2>3, Progress DEF Handle, PassTimer, FillLanguage, ResolveTrace, PassThrough,
                                        SkipToken, Forward
  <1> QED
    BY <1>1, <1>2

LEMMA HandleAfterReceipt == ASSUME Handle, 0 \notin DOMAIN edge.plugins PROVE at # 0
  BY DEF Handle, PassTimer, FillLanguage, ResolveTrace, PassThrough, Refuse, Resolve, SkipToken,
         CheckToken, Has

\* ChainInv is inductive, whichever plugins there are and in whichever order.
LEMMA ChainStep ==
    ASSUME ChainInv, Receive \/ Handle, UNCHANGED edge, 0 \notin DOMAIN edge.plugins
    PROVE  ChainInv'
  <1>1. CASE Receive
    BY <1>1, ReceiveInv
  <1>2. CASE Handle
    <2>1. at # 0
      BY <1>2, HandleAfterReceipt
    <2> QED
      BY <1>2, <2>1, Progress, IdentityStep, CookieStep, OriginStep, TraceStep, DeniedStep DEF ChainInv
  <1> QED
    BY <1>1, <1>2

-----------------------------------------------------------------------------
(* The arrays: jwt-headers is the first entry, so it runs last, with       *)
(* session-resolver right before it.                                       *)

LEMMA EntryFacts ==
    ASSUME NEW plugin \in Plugins, NEW on
    PROVE  /\ Entry(plugin, on) \in Seq(Plugins)
           /\ Len(Entry(plugin, on)) = IF plugin \in on THEN 1 ELSE 0
           /\ plugin \in on => Entry(plugin, on)[1] = plugin
  BY DEF Entry

LEMMA Joined ==
    ASSUME NEW s \in Seq(Plugins), NEW t \in Seq(Plugins)
    PROVE  /\ s \o t \in Seq(Plugins)
           /\ Len(s \o t) = Len(s) + Len(t)
           /\ \A i \in 1..Len(s \o t) : (s \o t)[i] = IF i <= Len(s) THEN s[i] ELSE t[i - Len(s)]
  OBVIOUS

\* What the order of an array must be, if jwt-headers is to find a bearer.
Ordered(array) ==
    \A i \in 1..Len(array) :
        array[i] = "jwt-headers" /\ Contains(array, "session-resolver") =>
            i = 1 /\ Len(array) > 1 /\ array[2] = "session-resolver"

LEMMA OrderedAppend ==
    ASSUME NEW s \in Seq(Plugins), NEW on,
           NEW plugin \in Plugins \ {"jwt-headers", "session-resolver"}, Ordered(s)
    PROVE  s \o Entry(plugin, on) \in Seq(Plugins) /\ Ordered(s \o Entry(plugin, on))
  <1> DEFINE d == s \o Entry(plugin, on)
  <1>1. /\ d \in Seq(Plugins) /\ Len(d) >= Len(s)
        /\ \A i \in 1..Len(s) : d[i] = s[i]
        /\ \A i \in 1..Len(d) : i > Len(s) => d[i] = plugin
    BY EntryFacts, Joined
  <1>2. Contains(d, "session-resolver") => Contains(s, "session-resolver")
    BY <1>1 DEF Contains
  <1> HIDE DEF d
  <1>3. Ordered(d)
    BY <1>1, <1>2 DEF Ordered
  <1> QED
    BY <1>1, <1>3 DEF d

LEMMA DeclaredOrder ==
    ASSUME NEW on
    PROVE  Declared(on) \in Seq(Plugins) /\ Ordered(Declared(on))
  <1> DEFINE two == Entry("jwt-headers", on) \o Entry("session-resolver", on)
  <1>1. two \in Seq(Plugins) /\ Ordered(two)
    <2>1. {"jwt-headers", "session-resolver"} \subseteq Plugins
      BY DEF Plugins
    <2>2. /\ two \in Seq(Plugins)
          /\ Len(two) = Len(Entry("jwt-headers", on)) + Len(Entry("session-resolver", on))
          /\ \A i \in 1..Len(two) : two[i] = IF i <= Len(Entry("jwt-headers", on))
                                              THEN Entry("jwt-headers", on)[i]
                                              ELSE Entry("session-resolver", on)[i - Len(Entry("jwt-headers", on))]
      BY <2>1, EntryFacts, Joined
    <2> HIDE DEF two
    <2> QED
      BY <2>1, <2>2, EntryFacts DEF Ordered, Contains
  <1> HIDE DEF two
  <1>2. {"trace-context", "accept-language", "gateway-timeout"} \subseteq Plugins \ {"jwt-headers", "session-resolver"}
    BY DEF Plugins
  <1> DEFINE three == two \o Entry("trace-context", on)
             four == three \o Entry("accept-language", on)
  <1>3. three \in Seq(Plugins) /\ Ordered(three)
    BY <1>1, <1>2, OrderedAppend
  <1> HIDE DEF three
  <1>4. four \in Seq(Plugins) /\ Ordered(four)
    BY <1>2, <1>3, OrderedAppend
  <1> HIDE DEF four
  <1>5. four \o Entry("gateway-timeout", on) \in Seq(Plugins) /\ Ordered(four \o Entry("gateway-timeout", on))
    BY <1>2, <1>4, OrderedAppend
  <1> QED
    BY <1>5 DEF Declared, two, three, four

LEMMA CheckedOrder ==
    ASSUME NEW a \in Arrays, ChainOrderChecked(a)
    PROVE  a \in Seq(Plugins) /\ Ordered(a)
  BY ArraysAssumption DEF ChainOrderChecked, Ordered, IsInjective

LEMMA Reversed ==
    ASSUME NEW a \in Seq(Plugins)
    PROVE  /\ Len(Reverse(a)) = Len(a) /\ DOMAIN Reverse(a) = 1..Len(a)
           /\ \A i \in 1..Len(a) : Reverse(a)[i] = a[Len(a) - i + 1]
  BY DEF Reverse

\* jwt-headers runs after session-resolver in every edge that has both.
LEMMA EdgeOrder ==
    ASSUME edge \in Edges
    PROVE  /\ Len(edge.plugins) \in Nat /\ DOMAIN edge.plugins = 1..Len(edge.plugins)
           /\ \A i \in DOMAIN edge.plugins :
                  edge.plugins[i] = "jwt-headers" /\ Loaded("session-resolver") =>
                      \E k \in 1..(i - 1) : edge.plugins[k] = "session-resolver"
  <1>1. PICK a \in {Declared(on) : on \in SUBSET Plugins} \cup {b \in Arrays : ChainOrderChecked(b)} :
            edge.plugins = Reverse(a)
    BY DEF Edges
  <1>2. a \in Seq(Plugins) /\ Ordered(a)
    BY DeclaredOrder, CheckedOrder
  <1>3. /\ Len(edge.plugins) = Len(a) /\ DOMAIN edge.plugins = 1..Len(a)
        /\ \A i \in 1..Len(a) : edge.plugins[i] = a[Len(a) - i + 1]
    BY <1>1, <1>2, Reversed
  <1>4. ASSUME NEW i \in 1..Len(a), edge.plugins[i] = "jwt-headers", Loaded("session-resolver")
        PROVE  \E k \in 1..(i - 1) : edge.plugins[k] = "session-resolver"
    <2>1. Contains(a, "session-resolver")
      <3>1. PICK m \in 1..Len(a) : edge.plugins[m] = "session-resolver"
        BY <1>3, <1>4 DEF Loaded, Contains
      <3>2. Len(a) - m + 1 \in 1..Len(a) /\ a[Len(a) - m + 1] = "session-resolver"
        BY <1>2, <1>3, <3>1
      <3> QED
        BY <3>2 DEF Contains
    <2>2. Len(a) - i + 1 \in 1..Len(a) /\ a[Len(a) - i + 1] = "jwt-headers"
      BY <1>2, <1>3, <1>4
    <2>3. Len(a) - i + 1 = 1 /\ Len(a) > 1 /\ a[2] = "session-resolver"
      BY <1>2, <2>1, <2>2 DEF Ordered
    <2>4. edge.plugins[i - 1] = "session-resolver" /\ i - 1 \in 1..(i - 1)
      BY <1>2, <1>3, <1>4, <2>3
    <2> QED
      BY <2>4
  <1> QED
    BY <1>2, <1>3, <1>4

-----------------------------------------------------------------------------
(* The theorems.                                                           *)

LEMMA StartInv == Init => TypeOK /\ ChainInv
  BY EdgeOrder DEF Init, NothingReceived, TypeOK, ChainInv

LEMMA StepInv == TypeOK /\ ChainInv /\ [Next]_vars => TypeOK' /\ ChainInv'
  <1> SUFFICES ASSUME TypeOK, ChainInv, [Next]_vars PROVE TypeOK' /\ ChainInv'
    OBVIOUS
  <1>1. /\ edge \in Edges /\ Len(edge.plugins) \in Nat
        /\ DOMAIN edge.plugins = 1..Len(edge.plugins) /\ 0 \notin DOMAIN edge.plugins
    BY EdgeOrder DEF TypeOK
  <1>2. CASE UNCHANGED vars
    BY <1>2 DEF vars, request, TypeOK, ChainInv, NothingReceived, RequestOK, IdentityInv, TokenOK,
                CookieInv, OriginInv, TraceInv, DeniedInv, Passed, Loaded
  <1>3. CASE Next
    <2>1. (Receive \/ Handle) /\ UNCHANGED edge
      BY <1>3 DEF Next
    <2>2. ChainInv'
      BY <1>1, <2>1, ChainStep
    <2>3. CASE Receive
      <3>1. at' = 1 /\ denied' = "no" /\ source' = "client"
        BY <2>3 DEF Receive, TypeOK, NothingReceived
      <3> QED
        BY <1>1, <2>1, <2>2, <3>1 DEF TypeOK, ChainInv
    <2>4. CASE Handle
      <3>1. at # 0
        BY <1>1, <2>4, HandleAfterReceipt
      <3>2. /\ at \in DOMAIN edge.plugins /\ at' \in Nat \ {0}
            /\ \/ at' = at + 1 /\ denied' = "no"
               \/ at' = at
        BY <2>1, <2>4, <3>1, Progress
      <3>3. denied' \in Denials \cup {"no"} /\ source' \in {"client", "session"}
        BY <1>1, <2>4, <3>1, HandleCarries DEF ChainInv, TypeOK, Forward, Deny
      <3> QED
        BY <1>1, <2>1, <2>2, <3>2, <3>3 DEF TypeOK, ChainInv
    <2> QED
      BY <2>1, <2>2, <2>3, <2>4
  <1> QED
    BY <1>2, <1>3

\* Type correctness, for every client, set of endpoints, tokens and plugins.
THEOREM TypeCorrect == Spec => []TypeOK
  BY StartInv, StepInv, PTL DEF Spec

LEMMA ChainCorrect == Spec => [](TypeOK /\ ChainInv)
  BY StartInv, StepInv, PTL DEF Spec

LEMMA RouterFacts ==
    ASSUME TypeOK, ChainInv, AtRouter
    PROVE  /\ at # 0 /\ RequestOK
           /\ \A plugin : Loaded(plugin) => Passed(plugin)
  <1>1. Len(edge.plugins) \in Nat /\ at \in Nat
    BY EdgeOrder DEF TypeOK
  <1> QED
    BY <1>1 DEF TypeOK, AtRouter, Loaded, Contains, Passed

\* What the invariant says of a request that has reached the router
LEMMA AtRouterFacts ==
    ASSUME TypeOK, ChainInv
    PROVE  NoForgedIdentity /\ CookieStaysAtEdge /\ NoCrossSiteWrite /\ OneTrace
  <1>1. NoForgedIdentity
    BY RouterFacts DEF ChainInv, IdentityInv, NoForgedIdentity
  <1>2. CookieStaysAtEdge
    BY RouterFacts DEF ChainInv, CookieInv, CookieStaysAtEdge
  <1>3. NoCrossSiteWrite
    BY RouterFacts DEF ChainInv, OriginInv, NoCrossSiteWrite
  <1>4. OneTrace
    BY RouterFacts DEF ChainInv, TraceInv, OneTrace
  <1> QED
    BY <1>1, <1>2, <1>3, <1>4

\* A backend sees a managed header only with a validated token, and one that is
\* named for a claim says what that token says.
THEOREM NoForgedIdentityHolds == Spec => []NoForgedIdentity
  BY AtRouterFacts, ChainCorrect, PTL

\* The cookie leaves the edge only towards the skip paths.
THEOREM CookieStaysAtEdgeHolds == Spec => []CookieStaysAtEdge
  BY AtRouterFacts, ChainCorrect, PTL

\* A write that a cookie authenticates comes from an allowed origin.
THEOREM NoCrossSiteWriteHolds == Spec => []NoCrossSiteWrite
  BY AtRouterFacts, ChainCorrect, PTL

\* A backend finds one trace in both headers, the client's where it can be.
THEOREM OneTraceHolds == Spec => []OneTrace
  BY AtRouterFacts, ChainCorrect, PTL

\* What a pattern is before its last segment
LEMMA BeforeLast ==
    ASSUME NEW p \in Seq(STRING), EndsInAny(p)
    PROVE  /\ Len(p) - 1 \in Nat /\ Len(p) - 1 <= Len(p)
           /\ Len(SubSeq(p, 1, Len(p) - 1)) = Len(p) - 1
           /\ DOMAIN SubSeq(p, 1, Len(p) - 1) = 1..(Len(p) - 1)
           /\ \A i \in 1..(Len(p) - 1) : SubSeq(p, 1, Len(p) - 1)[i] = p[i]
  <1>1. Len(p) - 1 \in Nat /\ Len(p) - 1 <= Len(p)
    BY DEF EndsInAny
  <1>2. ASSUME NEW m \in Nat, m <= Len(p)
        PROVE  /\ Len(SubSeq(p, 1, m)) = m
               /\ DOMAIN SubSeq(p, 1, m) = 1..m
               /\ \A i \in 1..m : SubSeq(p, 1, m)[i] = p[i]
    BY <1>2
  <1> QED
    BY <1>1, <1>2

\* A route of an endpoint is a path that its own pattern, as a skip path, spans.
LEMMA RoutesSkip ==
    ASSUME NEW p \in Seq(STRING), NEW path \in Seq(STRING),
           Len(p) = Len(path), PrefixMatches(p, path)
    PROVE  SkipMatches(p, path)
  <1>1. CASE EndsInAny(p)
    BY <1>1, BeforeLast DEF SkipMatches, PrefixMatches
  <1>2. CASE ~EndsInAny(p)
    BY <1>2 DEF SkipMatches
  <1> QED
    BY <1>1, <1>2

LEMMA DeniedIsNotPublic == ASSUME TypeOK, ChainInv PROVE PublicStaysOpen
  <1>1. ASSUME TypeOK, ChainInv, denied # "no", NEW e \in Endpoints, e.auth = "public", Routes(e, sent.path)
        PROVE  FALSE
    <2>1. at # 0 /\ RequestOK /\ DeniedInv
      BY <1>1 DEF TypeOK, ChainInv, NothingReceived
    <2>2. sent.path \in Seq(STRING) /\ req.path = sent.path /\ e.path \in Seq(STRING)
      BY <2>1, RequestsAssumption, EndpointsAssumption DEF RequestOK, Request
    <2>3. e.path \in PublicPaths /\ SkipMatches(e.path, req.path)
      BY <1>1, <2>2, RoutesSkip DEF PublicPaths, Routes
    <2> QED
      BY <1>1, <2>1, <2>3 DEF DeniedInv, SessionSkips, JwtSkips
  <1> QED
    BY <1>1 DEF PublicStaysOpen

\* A public endpoint is never answered by the edge.
THEOREM PublicStaysOpenHolds == Spec => []PublicStaysOpen
  BY DeniedIsNotPublic, ChainCorrect, PTL

LEMMA MissingIsNoSession ==
    ASSUME TypeOK, ChainInv, SessionSkip \subseteq JwtSkip
    PROVE  CookieBecomesBearer
  <1>1. ASSUME TypeOK, ChainInv, denied = "missing", Loaded("session-resolver")
        PROVE  sent.cookie = "none" \/ sent.auth # "none"
    <2>1. at # 0 /\ CookieInv /\ DeniedInv
      BY <1>1 DEF TypeOK, ChainInv, NothingReceived
    <2>2. at \in DOMAIN edge.plugins /\ edge.plugins[at] = "jwt-headers"
          /\ ~Unchecked(req) /\ req.auth \notin Tokens
      BY <1>1, <2>1 DEF DeniedInv
    <2>3. Passed("session-resolver")
      BY <1>1, <2>2, EdgeOrder DEF TypeOK, Passed
    <2>4. ~SessionSkips(req.path) /\ req.method # "OPTIONS"
      BY <2>2 DEF Unchecked, SessionSkips, JwtSkips
    <2> QED
      BY <2>1, <2>2, <2>3, <2>4 DEF CookieInv
  <1> QED
    BY <1>1 DEF CookieBecomesBearer

\* jwt-headers finds a bearer on every request of a browser with a session, if
\* no path is exempt from the session only.
THEOREM CookieBecomesBearerHolds ==
    ASSUME SessionSkip \subseteq JwtSkip
    PROVE  Spec => []CookieBecomesBearer
  BY MissingIsNoSession, ChainCorrect, PTL

SentPaths == {r.path : r \in Requests}

\* Behind jwt-headers, an endpoint that nothing spans serves a checked token.
LEMMA ServedIsChecked ==
    ASSUME TypeOK, ChainInv, NEW e \in Endpoints, Serves(e), Separate(e, SentPaths),
           Loaded("jwt-headers")
    PROVE  TokenOK
  <1>1. at # 0 /\ RequestOK /\ Passed("jwt-headers") /\ IdentityInv
    BY RouterFacts DEF Serves, ChainInv
  <1>2. req.path \in SentPaths
    BY <1>1 DEF RequestOK, SentPaths
  <1>3. ~Unchecked(req)
    BY <1>2 DEF Serves, Separate, Unchecked
  <1> QED
    BY <1>1, <1>3 DEF IdentityInv

LEMMA SeparateIsGuarded ==
    ASSUME TypeOK, ChainInv, \A e \in Endpoints : e.auth = "protected" => Separate(e, SentPaths)
    PROVE  ProtectedIsGuarded
  BY ServedIsChecked DEF ProtectedIsGuarded, TokenOK

\* A protected endpoint that no public one spans only serves a valid token.
THEOREM ProtectedIsGuardedHolds ==
    ASSUME \A e \in Endpoints : e.auth = "protected" => Separate(e, SentPaths)
    PROVE  Spec => []ProtectedIsGuarded
  BY SeparateIsGuarded, ChainCorrect, PTL

\* The fixed segments of a skip path
Fixed(p) == IF EndsInAny(p) THEN Len(p) - 1 ELSE Len(p)

LEMMA SkipFacts ==
    ASSUME NEW p \in Seq(STRING), NEW s \in Seq(STRING)
    PROVE  /\ Fixed(p) \in Nat /\ Fixed(p) <= Len(p)
           /\ SkipMatches(p, s) <=>
                 /\ IF EndsInAny(p) THEN Fixed(p) <= Len(s) ELSE Fixed(p) = Len(s)
                 /\ \A i \in 1..Fixed(p) : SegmentMatches(p[i], s[i])
  <1>1. CASE EndsInAny(p)
    BY <1>1, BeforeLast DEF SkipMatches, PrefixMatches, Fixed
  <1>2. CASE ~EndsInAny(p)
    <2>1. DOMAIN p = 1..Len(p) /\ Len(p) \in Nat /\ (Len(p) = Len(s) => Len(p) <= Len(s))
      OBVIOUS
    <2>2. Fixed(p) = Len(p)
      BY <1>2 DEF Fixed
    <2>3. SkipMatches(p, s) <=> Len(p) = Len(s) /\ \A i \in DOMAIN p : SegmentMatches(p[i], s[i])
      BY <1>2, <2>1 DEF SkipMatches, PrefixMatches
    <2> QED
      BY <1>2, <2>1, <2>2, <2>3
  <1> QED
    BY <1>1, <1>2

\* Overlaps is exact: it holds of a skip path and an endpoint's path if, and
\* only if, there is a path that the first spans and the second routes.
THEOREM OverlapsIsExact ==
    ASSUME NEW p \in Seq(STRING), NEW q \in Seq(STRING)
    PROVE  Overlaps(p, q) <=>
             \E s \in Seq(STRING) : SkipMatches(p, s) /\ Len(q) = Len(s) /\ PrefixMatches(q, s)
  <1> DEFINE n == Fixed(p)
  <1>1. n \in Nat /\ n <= Len(p) /\ Len(q) \in Nat /\ DOMAIN q = 1..Len(q)
    BY SkipFacts
  <1>2. Overlaps(p, q) <=>
            /\ IF EndsInAny(p) THEN n <= Len(q) ELSE n = Len(q)
            /\ \A i \in 1..n : SegmentMatches(p[i], q[i]) \/ SegmentMatches(q[i], p[i])
    BY DEF Overlaps, Fixed
  <1> HIDE DEF n
  <1>3. ASSUME NEW s \in Seq(STRING), SkipMatches(p, s), Len(q) = Len(s), PrefixMatches(q, s)
        PROVE  Overlaps(p, q)
    <2>1. /\ IF EndsInAny(p) THEN n <= Len(q) ELSE n = Len(q)
          /\ \A i \in 1..n : SegmentMatches(p[i], s[i])
      BY <1>3, SkipFacts DEF n
    <2>2. ASSUME NEW i \in 1..n PROVE SegmentMatches(p[i], q[i]) \/ SegmentMatches(q[i], p[i])
      <3>1. i \in DOMAIN q
        <4>1. n = Len(q) => n <= Len(q)
          BY <1>1
        <4>2. n <= Len(q)
          BY <2>1, <4>1, Zenon
        <4> QED
          BY <1>1, <4>2
      <3>2. SegmentMatches(q[i], s[i]) /\ SegmentMatches(p[i], s[i])
        BY <1>3, <2>1, <3>1 DEF PrefixMatches
      <3> QED
        BY <3>2, Zenon DEF SegmentMatches
    <2> QED
      BY <1>2, <2>1, <2>2, Zenon
  <1>4. ASSUME Overlaps(p, q)
        PROVE  \E s \in Seq(STRING) : SkipMatches(p, s) /\ Len(q) = Len(s) /\ PrefixMatches(q, s)
    <2> DEFINE s == [i \in 1..Len(q) |-> IF i <= n /\ q[i] = Star THEN p[i] ELSE q[i]]
    <2>1. s \in Seq(STRING) /\ Len(s) = Len(q)
      <3>1. ASSUME NEW i \in 1..Len(q) PROVE s[i] \in STRING
        <4>1. i <= n => i \in 1..Len(p)
          BY <1>1
        <4> QED
          BY <4>1
      <3> QED
        BY <1>1, <3>1
    <2>2. ASSUME NEW i \in 1..n, i \in 1..Len(q)
          PROVE  SegmentMatches(p[i], s[i]) /\ SegmentMatches(q[i], s[i])
      <3>1. SegmentMatches(p[i], q[i]) \/ SegmentMatches(q[i], p[i])
        BY <1>2, <1>4
      <3>2. s[i] = IF q[i] = Star THEN p[i] ELSE q[i]
        BY <1>1, <2>2
      <3> QED
        BY <3>1, <3>2, Zenon DEF SegmentMatches
    <2>3. ASSUME NEW i \in 1..Len(q) PROVE SegmentMatches(q[i], s[i])
      <3>1. CASE i <= n
        BY <1>1, <2>2, <3>1
      <3>2. CASE ~(i <= n)
        BY <3>2 DEF SegmentMatches
      <3> QED
        BY <3>1, <3>2
    <2>4. SkipMatches(p, s)
      <3>1. IF EndsInAny(p) THEN n <= Len(q) ELSE n = Len(q)
        BY <1>2, <1>4, Zenon
      <3>2. n = Len(q) => n <= Len(q)
        BY <1>1
      <3>3. n <= Len(q)
        BY <3>1, <3>2, Zenon
      <3>4. \A i \in 1..n : i \in 1..Len(q)
        BY <1>1, <3>3
      <3> HIDE DEF s
      <3> QED
        BY <2>1, <2>2, <3>1, <3>4, SkipFacts DEF n
    <2>5. PrefixMatches(q, s)
      BY <1>1, <2>1, <2>3 DEF PrefixMatches
    <2> QED
      BY <2>1, <2>4, <2>5
  <1> QED
    BY <1>3, <1>4

\* A configuration in which an endpoint's path is apart opens none of its paths.
LEMMA ApartSeparates ==
    ASSUME NEW e \in Endpoints, Apart(e), JwtSkip \subseteq Seq(STRING)
    PROVE  Separate(e, SentPaths)
  <1>1. SentPaths \subseteq Seq(STRING)
    BY RequestsAssumption DEF SentPaths, Request
  <1>2. JwtSkip \cup PublicPaths \subseteq Seq(STRING)
    BY EndpointsAssumption DEF PublicPaths
  <1>3. ASSUME NEW path \in SentPaths, Routes(e, path), NEW p \in JwtSkip \cup PublicPaths,
               SkipMatches(p, path)
        PROVE  FALSE
    BY <1>1, <1>2, <1>3, EndpointsAssumption, OverlapsIsExact DEF Apart, Routes
  <1> QED
    BY <1>3 DEF Separate, JwtSkips, Apart

\* Whether protected endpoints are guarded can be read off the configuration,
\* whatever the paths are that clients ask for.
THEOREM ApartIsGuarded ==
    ASSUME JwtSkip \subseteq Seq(STRING),
           \A e \in Endpoints : e.auth = "protected" => Apart(e)
    PROVE  Spec => []ProtectedIsGuarded
  BY ApartSeparates, ProtectedIsGuardedHolds

\* Where every entry is another one than e, trimming e leaves all of them.
LEMMA FullFacts ==
    ASSUME NEW S, NEW s \in Seq(S), s # <<>>, NEW e, \A i \in DOMAIN s : s[i] # e
    PROVE  LET full == {i \in DOMAIN s : s[i] # e} IN
           full # {} /\ SubSeq(s, Min(full), Max(full)) = s
  <1> DEFINE full == {i \in DOMAIN s : s[i] # e}
             n == Len(s)
  <1>1. n \in Nat \ {0} /\ DOMAIN s = 1..n
    OBVIOUS
  <1>2. full = 1..n
    OBVIOUS
  <1>3. SubSeq(s, 1, n) = s
    OBVIOUS
  <1> HIDE DEF n
  <1>4. Min(1..n) = 1
    <2>1. \A x \in 1..n : (\A y \in 1..n : x <= y) <=> x = 1
      BY <1>1
    <2>2. Min(1..n) = CHOOSE x \in 1..n : \A y \in 1..n : x <= y
      BY DEF Min
    <2> QED
      BY <1>1, <2>1, <2>2
  <1>5. Max(1..n) = n
    <2>1. \A x \in 1..n : (\A y \in 1..n : x >= y) <=> x = n
      BY <1>1
    <2>2. Max(1..n) = CHOOSE x \in 1..n : \A y \in 1..n : x >= y
      BY DEF Max
    <2> QED
      BY <1>1, <2>1, <2>2
  <1>6. full # {}
    BY <1>1, <1>2
  <1>7. SubSeq(s, Min(full), Max(full)) = SubSeq(s, 1, n)
    BY <1>2, <1>4, <1>5
  <1> QED
    BY <1>3, <1>6, <1>7, Zenon

\* A path without empty segments
Filled(s) == \A i \in DOMAIN s : s[i] # ""

LEMMA TrimmedStays ==
    ASSUME NEW S, NEW s \in Seq(S), s # <<>>, Filled(s)
    PROVE  Trimmed(s) = s
  BY FullFacts, Zenon DEF Trimmed, Filled

\* On such paths a pattern spans the same as a rule and as a route.
LEMMA RuleIsRoute ==
    ASSUME NEW p \in Seq(STRING), NEW path \in Seq(STRING),
           p # <<>>, Filled(p), path # <<>>, Filled(path)
    PROVE  RuleMatches(p, path) <=> Len(p) = Len(path) /\ PrefixMatches(p, path)
  <1>1. Trimmed(p) = p /\ Trimmed(path) = path
    BY TrimmedStays
  <1>2. DOMAIN p = 1..Len(p) /\ DOMAIN path = 1..Len(path) /\ Len(p) \in Nat
    OBVIOUS
  <1>3. RuleMatches(p, path) <=> Len(p) = Len(path) /\ \A i \in DOMAIN p : p[i] = Star \/ p[i] = path[i]
    BY <1>1, Zenon DEF RuleMatches
  <1>4. Len(p) = Len(path) =>
            \A i \in DOMAIN p : SegmentMatches(p[i], path[i]) <=> (p[i] = Star \/ p[i] = path[i])
    <2>1. ASSUME NEW i \in DOMAIN p, Len(p) = Len(path) PROVE path[i] # ""
      BY <1>2, <2>1, Zenon DEF Filled
    <2> QED
      BY <2>1, Zenon DEF SegmentMatches
  <1>5. Len(p) = Len(path) => Len(p) <= Len(path)
    BY <1>2
  <1> QED
    BY <1>3, <1>4, <1>5, Zenon DEF PrefixMatches

LEMMA SeparateIsGated ==
    ASSUME TypeOK, ChainInv,
           \A e \in Endpoints :
               /\ e.path # <<>> /\ Filled(e.path)
               /\ e.roles # {} => Separate(e, SentPaths)
    PROVE  RolesGate
  <1>1. ASSUME TypeOK, ChainInv, NEW e \in Endpoints, Serves(e), e.roles # {}, edge.enforce,
               Loaded("jwt-headers")
        PROVE  \E rule \in Rules :
                  /\ \E f \in Endpoints : f.path = rule.path /\ Routes(f, req.path)
                  /\ rule.roles \cap ClaimItems(req.auth, rule.claim) # {}
    <2>1. RolesAllow(req.auth, req.path)
      BY <1>1, ServedIsChecked DEF TokenOK
    <2>2. req.path \in Seq(STRING) /\ e.path \in Seq(STRING) /\ Routes(e, req.path)
      BY <1>1, RouterFacts, EndpointsAssumption DEF Serves, RequestOK, Request
    <2>3. req.path # <<>> /\ Filled(req.path)
      <3>1. DOMAIN req.path = DOMAIN e.path /\ (req.path = <<>> => e.path = <<>>)
        BY <2>2 DEF Routes
      <3>2. ASSUME NEW i \in DOMAIN e.path PROVE req.path[i] # ""
        <4>1. e.path[i] # "" /\ SegmentMatches(e.path[i], req.path[i])
          BY <2>2, Zenon DEF Filled, Routes, PrefixMatches
        <4> QED
          BY <4>1, Zenon DEF SegmentMatches
      <3> QED
        BY <3>1, <3>2, Zenon DEF Filled
    <2>4. \A f \in Endpoints : RuleMatches(f.path, req.path) <=> Routes(f, req.path)
      BY <2>2, <2>3, RuleIsRoute, EndpointsAssumption DEF Routes
    <2>5. ASSUME NEW rule \in Matching(req.path)
          PROVE  rule \in Rules /\ \E f \in Endpoints : f.path = rule.path /\ Routes(f, req.path)
      <3>1. rule \in Rules /\ RuleMatches(rule.path, req.path)
        BY DEF Matching
      <3>2. PICK f \in Endpoints : rule = RuleOf(f)
        BY <3>1 DEF Rules
      <3> QED
        BY <3>1, <3>2, <2>4 DEF RuleOf
    <2>6. Matching(req.path) # {}
      <3>1. RuleOf(e) \in Rules /\ RuleOf(e).path = e.path
        BY <1>1 DEF Rules, RuleOf
      <3> QED
        BY <3>1, <2>2, <2>4 DEF Matching
    <2> QED
      BY <2>1, <2>5, <2>6 DEF RolesAllow
  <1> QED
    BY <1>1 DEF RolesGate

\* The roles of a rule for the path are asked of every token that gets through.
THEOREM RolesGateHolds ==
    ASSUME \A e \in Endpoints :
               /\ e.path # <<>> /\ Filled(e.path)
               /\ e.roles # {} => Separate(e, SentPaths)
    PROVE  Spec => []RolesGate
  BY SeparateIsGated, ChainCorrect, PTL

\* So can whether its roles are asked for.
THEOREM ApartIsGated ==
    ASSUME JwtSkip \subseteq Seq(STRING),
           \A e \in Endpoints :
               /\ e.path # <<>> /\ Filled(e.path)
               /\ e.roles # {} => Apart(e)
    PROVE  Spec => []RolesGate
  BY ApartSeparates, RolesGateHolds

=============================================================================
