--------------------------- MODULE SessionResolver ---------------------------
(***************************************************************************)
(* The cookie-to-bearer resolver of plugins/session-resolver: concurrent   *)
(* requests that carry the same session cookie, the Valkey record and the  *)
(* refresh lock they share, and auth-bff, which is the only writer of the  *)
(* record and is called at most under that lock.                           *)
(*                                                                         *)
(* A store command or an HTTP call is two steps, the server's and the      *)
(* handler's, wherever the moment at which the handler learns the answer   *)
(* matters: HMGET, SET NX and the POST to auth-bff.  A DEL, TTL, EXPIRE or *)
(* release whose answer only moves the handler on is one step.  Any of     *)
(* them may instead fail, on either side of its effect on the server.      *)
(*                                                                         *)
(* Data: an access token is named by the exp it was minted with, 0 is the  *)
(* empty token and a malformed exp or abs_exp reads as 0 (asInt64).        *)
(***************************************************************************)
EXTENDS Integers, FiniteSets

CONSTANTS
    Reqs,           \* the concurrent requests of one session, on any replica
    Nobody,         \* the owner of a free lock
    InitSessions,   \* the records auth-bff may have left in Valkey
    IdleTTL,        \* idle_ttl_seconds
    Threshold,      \* refresh_threshold_seconds
    StoreTimeout,   \* valkey_timeout_ms
    RefreshTimeout, \* refresh_timeout_ms
    LockTTL,        \* refresh_lock_ttl_seconds
    WaitStep,       \* the poll interval of waitForOtherRefresh
    TokenLife,      \* lifetime of a token auth-bff obtains
    Faults,         \* the kinds of failure that may happen
    LastArrival,    \* bound: no request arrives after this time
    MaxTime         \* bound: the clock stops here

FaultKinds == {"error", "late", "crash", "logout", "revoke", "garble", "orphan"}

Session == [tok : Nat, exp : Nat, abs : Nat, expires : Nat]

\* A key that does not exist.  A live key's expires is in the future.
NoSession == [tok |-> 0, exp |-> 0, abs |-> 0, expires |-> 0]

\* The token field is empty, or is the token whose exp the record carries,
\* or the record's exp field is malformed.
WellFormed(s) == s.tok # 0 /\ s.exp # 0 => s.tok = s.exp

ASSUME RequestsAssumption == Nobody \notin Reqs
ASSUME SessionsAssumption ==
    \A s \in InitSessions : s = NoSession \/ (s \in Session /\ s.expires > 0 /\ WellFormed(s))
ASSUME TimesAssumption ==
    /\ {Threshold, LastArrival, MaxTime} \subseteq Nat
    /\ {IdleTTL, StoreTimeout, RefreshTimeout, LockTTL, WaitStep, TokenLife} \subseteq Nat \ {0}
ASSUME FaultsAssumption == Faults \subseteq FaultKinds

VARIABLES
    now,      \* the clock every party reads
    session,  \* v1:session:{sid}
    lock,     \* v1:lock:refresh:{sid}
    late,     \* writes sent to Valkey by a handler that no longer waits for them
    spoiled,  \* the record can no longer be refreshed: its refresh token is
              \* revoked, or its access token was stored empty
    job,      \* auth-bff's work for each request's POST
    pc,       \* where each request's handler is
    dl,       \* when the context (or the sleep) it waits under ends
    reply,    \* the server's answer that the handler has not consumed yet
    data,     \* exp and abs_exp of the handler's own load (main.go's data)
    until,    \* waitForOtherRefresh's deadline
    tok,      \* the token refresh returned or load read
    out       \* the outcome the handler logs

store  == <<session, lock, late>>
bff    == <<spoiled, job>>
locals == <<data, until, tok, out>>
vars   == <<now, store, bff, pc, dl, reply, locals>>

Loads    == {"load", "reload", "recheck", "poll"}
Writes   == {"acquire", "release", "drop", "expire"}
Pending  == Loads \cup Writes \cup {"call", "ttl"}
Active   == Pending \cup {"sleep"}
Phases   == Active \cup {"new", "done", "crashed"}
Outcomes == {"none", "hit", "refreshed", "miss", "expired", "gone", "store_error", "refresh_error"}
Denied401 == {"miss", "expired", "gone"}

NoLock  == [owner |-> Nobody, expires |-> 0]
NoReply == [code |-> "none", tok |-> 0, exp |-> 0, abs |-> 0]
Answer(c) == [NoReply EXCEPT !.code = c]

Reply   == [code : {"none", "ok", "nil", "unauthorized", "status"}, tok : Nat, exp : Nat, abs : Nat]

-----------------------------------------------------------------------------
(* How long the handler waits in each phase; the renewIdle context spans   *)
(* both of its commands, so "expire" keeps the deadline of "ttl".          *)

\* Mutant: a fixed wait.
FixedWait == WaitStep

MaxWait == RefreshTimeout + StoreTimeout + WaitStep

Budget(p) == IF p = "call" THEN RefreshTimeout
             ELSE IF p = "sleep" THEN WaitStep ELSE StoreTimeout

Begin(r, p) ==
    /\ pc' = [pc EXCEPT ![r] = p]
    /\ dl' = [dl EXCEPT ![r] = now + Budget(p)]
    /\ reply' = [reply EXCEPT ![r] = NoReply]

Finish(r, p) ==
    /\ pc' = [pc EXCEPT ![r] = p]
    /\ dl' = [dl EXCEPT ![r] = 0]
    /\ reply' = [reply EXCEPT ![r] = NoReply]

SetOut(r, o) == out' = [out EXCEPT ![r] = o]

\* deny: the request ends with outcome o.
Deny(r, o) == Finish(r, "done") /\ SetOut(r, o) /\ UNCHANGED <<data, until, tok>>

\* refresh() returns to the handler, which denies or goes on to renewIdle.
Return(r, o, t) ==
    /\ SetOut(r, o)
    /\ tok' = [tok EXCEPT ![r] = t]
    /\ IF o = "refreshed" THEN Begin(r, "ttl") ELSE Finish(r, "done")
    /\ UNCHANGED <<data, until>>

\* refresh() returns from under the lock: its deferred release runs first.
Unwind(r, o, t) ==
    /\ SetOut(r, o)
    /\ tok' = [tok EXCEPT ![r] = t]
    /\ Begin(r, "release")
    /\ UNCHANGED <<data, until>>

TokenOrErr(d) == IF d.tok = 0 THEN "refresh_error" ELSE "refreshed"

\* Mutant: the same exp counts as a refresh.
FresherOrSame(r, d) == d.exp >= data[r].exp

\* Somebody refreshed past what the caller observed: d.Exp > observedExp.
Fresher(r, d) == d.exp > data[r].exp

Has(r, p) == pc[r] = p /\ reply[r] # NoReply

-----------------------------------------------------------------------------
(* Valkey: what the server does with a command that reached it.            *)

Awaits(r, p) == pc[r] = p /\ reply[r] = NoReply

\* auth-bff writes all fields of a record at once, so the first of them, the one
\* that load looks at, is missing only if the record is.
Hmget == IF session = NoSession
         THEN Answer("nil")
         ELSE [code |-> "ok", tok |-> session.tok, exp |-> session.exp, abs |-> session.abs]

LoadExec(r) ==
    /\ \E p \in Loads : Awaits(r, p)
    /\ reply' = [reply EXCEPT ![r] = Hmget]
    /\ UNCHANGED <<now, store, bff, pc, dl, locals>>

\* Mutant: the TTL is the store timeout.
SetNxShort(r) == lock' = IF lock = NoLock THEN [owner |-> r, expires |-> now + StoreTimeout] ELSE lock

SetNx(r) == lock' = IF lock = NoLock THEN [owner |-> r, expires |-> now + LockTTL] ELSE lock

SetNxExec(r) ==
    /\ Awaits(r, "acquire")
    /\ SetNx(r)
    /\ reply' = [reply EXCEPT ![r] = Answer(IF lock = NoLock THEN "ok" ELSE "nil")]
    /\ UNCHANGED <<now, session, late, bff, pc, dl, locals>>

\* Mutant: a blind DEL.
BlindDelete(r) == lock' = NoLock

\* The Lua script of release: GET and DEL in one step.
CompareAndDelete(r) == lock' = IF lock.owner = r THEN NoLock ELSE lock

Del == session' = NoSession

\* Mutant: the deadline is set back instead of forward.
ExpireBackwards == session' = IF session = NoSession THEN NoSession
                              ELSE [session EXCEPT !.expires = now - IdleTTL]

Expire == session' = IF session = NoSession THEN NoSession
                     ELSE [session EXCEPT !.expires = now + IdleTTL]

\* A write whose handler gave up on it, or whose process died, is lost or
\* still reaches Valkey later.
LeaveBehind(r) ==
    late' \in {late} \cup
        (IF "late" \in Faults /\ pc[r] \in Writes /\ reply[r] = NoReply
         THEN {late \cup {[req |-> r, cmd |-> pc[r]]}} ELSE {})

LateExec(c) ==
    /\ c \in late
    /\ late' = late \ {c}
    /\ \/ c.cmd = "acquire" /\ SetNx(c.req) /\ UNCHANGED session
       \/ c.cmd = "release" /\ CompareAndDelete(c.req) /\ UNCHANGED session
       \/ c.cmd = "drop" /\ Del /\ UNCHANGED lock
       \/ c.cmd = "expire" /\ Expire /\ UNCHANGED lock
    /\ UNCHANGED <<now, bff, pc, dl, reply, locals>>

-----------------------------------------------------------------------------
(* auth-bff and Keycloak, seen through Valkey and the POST's answer.       *)

\* The contract of docs/session-flow.md: a strictly greater exp, in Valkey
\* before the answer.
NextExp == IF now + TokenLife > session.exp THEN now + TokenLife ELSE session.exp + 1

\* The answer reaches the handler only while it still waits for this call.
Respond(r, a) ==
    /\ job' = [job EXCEPT ![r] = "none"]
    /\ reply' = IF Awaits(r, "call") THEN [reply EXCEPT ![r] = a] ELSE reply
    /\ UNCHANGED <<now, pc, dl, locals, lock, late>>

Refreshable == session # NoSession /\ ~spoiled

BffRefresh(r) ==
    /\ job[r] = "running" /\ Refreshable
    /\ session' = [session EXCEPT !.tok = NextExp, !.exp = NextExp, !.expires = now + IdleTTL]
    /\ Respond(r, [NoReply EXCEPT !.code = "ok", !.tok = NextExp])
    /\ UNCHANGED spoiled

\* 401: no such session, its refresh token is refused, or (if auth-bff looks
\* at it) it is past its ceiling.
BffRefuse(r) ==
    /\ job[r] = "running"
    /\ ~Refreshable \/ now >= session.abs
    /\ session' \in {session, NoSession}
    /\ Respond(r, Answer("unauthorized"))
    /\ UNCHANGED spoiled

BffError(r) ==
    /\ "error" \in Faults /\ job[r] = "running"
    /\ Respond(r, Answer("status"))
    /\ UNCHANGED <<session, spoiled>>

\* A 200 with an empty access_token, and a record to match.
BffGarble(r) ==
    /\ "garble" \in Faults /\ job[r] = "running" /\ Refreshable
    /\ session' = [session EXCEPT !.tok = 0, !.exp = NextExp]
    /\ spoiled' = TRUE
    /\ Respond(r, Answer("ok"))

\* The user logs out: auth-bff deletes the record.
Logout ==
    /\ "logout" \in Faults /\ session # NoSession
    /\ Del
    /\ UNCHANGED <<now, lock, late, bff, pc, dl, reply, locals>>

\* Keycloak revokes the refresh token.
Revoke ==
    /\ "revoke" \in Faults /\ ~spoiled
    /\ spoiled' = TRUE
    /\ UNCHANGED <<now, store, job, pc, dl, reply, locals>>

\* When the connection of r's POST closes, auth-bff drops the work, unless
\* it cannot ("orphan").
HangUp(r) ==
    job' \in {[job EXCEPT ![r] = "none"]} \cup (IF "orphan" \in Faults THEN {job} ELSE {})

-----------------------------------------------------------------------------
(* The handler: from decide's actionResolve to h.ServeHTTP.                *)

Arrive(r) ==
    /\ pc[r] = "new" /\ now <= LastArrival
    /\ Begin(r, "load")
    /\ UNCHANGED <<now, store, bff, locals>>

\* Mutants: a malformed abs_exp is no ceiling; the refresh threshold is
\* applied to the ceiling.
NoCeilingIfMalformed(d) == d.abs # 0 /\ now >= d.abs
CeilingWithThreshold(d) == now >= d.abs - Threshold

NearExpiry(d) == now >= d.exp - Threshold
PastCeiling(d) == now >= d.abs

OnLoad(r) ==
    /\ Has(r, "load")
    /\ LET d == reply[r] IN
       \/ /\ d.code = "nil" \/ (d.code = "ok" /\ d.tok = 0)
          /\ Deny(r, "miss")
       \/ /\ d.code = "ok" /\ d.tok # 0 /\ PastCeiling(d)
          /\ Begin(r, "drop") /\ SetOut(r, "expired")
          /\ UNCHANGED <<data, until, tok>>
       \/ /\ d.code = "ok" /\ d.tok # 0 /\ ~PastCeiling(d) /\ ~NearExpiry(d)
          /\ data' = [data EXCEPT ![r] = [exp |-> d.exp, abs |-> d.abs]]
          /\ tok' = [tok EXCEPT ![r] = d.tok]
          /\ Begin(r, "ttl") /\ SetOut(r, "hit")
          /\ UNCHANGED until
       \/ /\ d.code = "ok" /\ d.tok # 0 /\ ~PastCeiling(d) /\ NearExpiry(d)
          /\ data' = [data EXCEPT ![r] = [exp |-> d.exp, abs |-> d.abs]]
          /\ Begin(r, "reload")
          /\ UNCHANGED <<until, tok, out>>
    /\ UNCHANGED <<now, store, bff>>

\* refresh's own load, the ceiling, the caller's observedExp, and whether
\* somebody was faster.
OnReload(r) ==
    /\ Has(r, "reload")
    /\ LET d == reply[r]
           dead == d.code = "nil" \/ PastCeiling(d)
       IN \/ /\ dead
             /\ Return(r, "gone", 0)
          \/ /\ ~dead /\ data[r].exp <= 0
             /\ Return(r, "refresh_error", 0)
          \/ /\ ~dead /\ data[r].exp > 0 /\ Fresher(r, d)
             /\ Return(r, TokenOrErr(d), d.tok)
          \/ /\ ~dead /\ data[r].exp > 0 /\ ~Fresher(r, d)
             /\ Begin(r, "acquire")
             /\ UNCHANGED locals
    /\ UNCHANGED <<now, store, bff>>

\* Mutant: the nil reply of SET NX is not told from success.
AcquireIgnoresNil(r) ==
    /\ Has(r, "acquire")
    /\ Begin(r, "recheck")
    /\ UNCHANGED <<now, store, bff, locals>>

OnAcquire(r) ==
    /\ Has(r, "acquire")
    /\ \/ /\ reply[r].code = "ok"
          /\ Begin(r, "recheck")
          /\ UNCHANGED until
       \/ /\ reply[r].code = "nil"
          /\ until' = [until EXCEPT ![r] = now + MaxWait]
          /\ Begin(r, "sleep")
    /\ UNCHANGED <<now, store, bff, data, tok, out>>

\* Mutant: the winner does not read the record again.
NoRecheck(r) ==
    /\ Has(r, "recheck")
    /\ Begin(r, "call")
    /\ job' = [job EXCEPT ![r] = "running"]
    /\ UNCHANGED <<now, store, spoiled, locals>>

\* The re-check under the lock; the last disjunct sends the POST.
OnRecheck(r) ==
    /\ Has(r, "recheck")
    /\ LET d == reply[r] IN
       \/ /\ d.code = "nil"
          /\ Unwind(r, "gone", 0)
          /\ UNCHANGED job
       \/ /\ d.code = "ok" /\ Fresher(r, d)
          /\ Unwind(r, TokenOrErr(d), d.tok)
          /\ UNCHANGED job
       \/ /\ d.code = "ok" /\ ~Fresher(r, d)
          /\ Begin(r, "call")
          /\ job' = [job EXCEPT ![r] = "running"]
          /\ UNCHANGED locals
    /\ UNCHANGED <<now, store, spoiled>>

\* Mutant: any answer but 200 means that the session is gone.
AnyStatusIsGone(r) ==
    /\ Has(r, "call")
    /\ \/ reply[r].code \in {"unauthorized", "status"} /\ Unwind(r, "gone", 0)
       \/ reply[r].code = "ok" /\ Unwind(r, TokenOrErr(reply[r]), reply[r].tok)
    /\ UNCHANGED <<now, store, bff>>

OnCall(r) ==
    /\ Has(r, "call")
    /\ \/ reply[r].code = "unauthorized" /\ Unwind(r, "gone", 0)
       \/ reply[r].code = "status" /\ Unwind(r, "refresh_error", 0)
       \/ reply[r].code = "ok" /\ Unwind(r, TokenOrErr(reply[r]), reply[r].tok)
    /\ UNCHANGED <<now, store, bff>>

\* time.Sleep(waitStep): it looks at no context.
Wake(r) ==
    /\ pc[r] = "sleep" /\ now >= dl[r]
    /\ Begin(r, "poll")
    /\ UNCHANGED <<now, store, bff, locals>>

\* Mutant: every poll starts the wait anew.
PollRestartsWait(r) ==
    /\ Has(r, "poll") /\ reply[r].code = "ok" /\ ~Fresher(r, reply[r])
    /\ until' = [until EXCEPT ![r] = now + MaxWait]
    /\ Begin(r, "sleep")
    /\ UNCHANGED <<now, store, bff, data, tok, out>>

PollAgain(r) ==
    /\ Has(r, "poll") /\ reply[r].code = "ok" /\ ~Fresher(r, reply[r])
    /\ now < until[r]
    /\ Begin(r, "sleep")
    /\ UNCHANGED <<now, store, bff, locals>>

\* The loop of waitForOtherRefresh ends without a fresher token.
GiveUp(r) ==
    /\ Has(r, "poll") /\ reply[r].code = "ok" /\ ~Fresher(r, reply[r])
    /\ now >= until[r]
    /\ Return(r, "refresh_error", 0)
    /\ UNCHANGED <<now, store, bff>>

OnPoll(r) ==
    /\ Has(r, "poll")
    /\ LET d == reply[r] IN
       \/ /\ d.code = "nil"
          /\ Return(r, "gone", 0)
       \/ /\ d.code = "ok" /\ Fresher(r, d)
          /\ Return(r, TokenOrErr(d), d.tok)
    /\ UNCHANGED <<now, store, bff>>

AfterRelease(r) == IF out[r] = "refreshed" THEN Begin(r, "ttl") ELSE Finish(r, "done")

Release(r) ==
    /\ pc[r] = "release"
    /\ CompareAndDelete(r)
    /\ AfterRelease(r)
    /\ UNCHANGED <<now, session, late, bff, locals>>

Drop(r) ==
    /\ pc[r] = "drop"
    /\ Del
    /\ Finish(r, "done")
    /\ UNCHANGED <<now, lock, late, bff, locals>>

\* Less than half of the idle TTL is left.
HalfGone == session # NoSession /\ 2 * (session.expires - now) < IdleTTL

\* The EXPIRE of renewIdle runs under the context of its TTL.
Ttl(r) ==
    /\ pc[r] = "ttl"
    /\ IF HalfGone
       THEN pc' = [pc EXCEPT ![r] = "expire"] /\ UNCHANGED <<dl, reply>>
       ELSE Finish(r, "done")
    /\ UNCHANGED <<now, store, bff, locals>>

ExpireExec(r) ==
    /\ pc[r] = "expire"
    /\ Expire
    /\ Finish(r, "done")
    /\ UNCHANGED <<now, lock, late, bff, locals>>

\* Mutant: a request is let through when Valkey cannot be asked.
FailOpen(r) ==
    \/ pc[r] = "load" /\ Deny(r, "hit")
    \/ pc[r] = "ttl" /\ Finish(r, "done") /\ UNCHANGED locals

\* An operation ends in an error: its context ran out or was cancelled, the
\* connection broke, the server refused it.  It may have had its effect.
FailOutcome(r) ==
    \/ pc[r] = "load" /\ Deny(r, "store_error")
    \/ pc[r] \in {"reload", "acquire", "poll"} /\ Return(r, "refresh_error", 0)
    \/ pc[r] \in {"recheck", "call"} /\ Unwind(r, "refresh_error", 0)
    \/ pc[r] = "release" /\ AfterRelease(r) /\ UNCHANGED locals
    \/ pc[r] \in {"drop", "ttl", "expire"} /\ Finish(r, "done") /\ UNCHANGED locals

Fail(r) ==
    /\ "error" \in Faults \/ now >= dl[r]
    /\ FailOutcome(r)
    /\ LeaveBehind(r)
    /\ IF pc[r] = "call" THEN HangUp(r) ELSE UNCHANGED job
    /\ UNCHANGED <<now, session, lock, spoiled>>

\* The gateway process serving r dies.
Crash(r) ==
    /\ "crash" \in Faults /\ pc[r] \in Active
    /\ Finish(r, "crashed")
    /\ LeaveBehind(r)
    /\ IF pc[r] = "call" THEN HangUp(r) ELSE UNCHANGED job
    /\ UNCHANGED <<now, session, lock, spoiled, locals>>

-----------------------------------------------------------------------------

\* Time passes; keys whose TTL is over are gone.
Tick ==
    /\ now < MaxTime
    /\ now' = now + 1
    /\ session' = IF session.expires <= now + 1 THEN NoSession ELSE session
    /\ lock' = IF lock.expires <= now + 1 THEN NoLock ELSE lock
    /\ UNCHANGED <<late, bff, pc, dl, reply, locals>>

Init ==
    /\ now = 0
    /\ session \in InitSessions
    /\ lock = NoLock
    /\ late = {}
    /\ spoiled = (session # NoSession /\ session.tok = 0)
    /\ job = [r \in Reqs |-> "none"]
    /\ pc = [r \in Reqs |-> "new"]
    /\ dl = [r \in Reqs |-> 0]
    /\ reply = [r \in Reqs |-> NoReply]
    /\ data = [r \in Reqs |-> [exp |-> 0, abs |-> 0]]
    /\ until = [r \in Reqs |-> 0]
    /\ tok = [r \in Reqs |-> 0]
    /\ out = [r \in Reqs |-> "none"]

Handler(r) ==
    \/ OnLoad(r) \/ OnReload(r) \/ OnAcquire(r) \/ OnRecheck(r) \/ OnCall(r)
    \/ Wake(r) \/ OnPoll(r) \/ PollAgain(r) \/ GiveUp(r) \/ Release(r) \/ Drop(r) \/ Ttl(r) \/ ExpireExec(r)
    \/ Fail(r)

Valkey(r) == LoadExec(r) \/ SetNxExec(r)

AuthBff(r) == BffRefresh(r) \/ BffRefuse(r) \/ BffError(r) \/ BffGarble(r)

Step ==
    \/ \E r \in Reqs : Arrive(r) \/ Handler(r) \/ Valkey(r) \/ AuthBff(r) \/ Crash(r)
    \/ \E c \in late : LateExec(c)
    \/ Logout \/ Revoke

Next == Step \/ Tick

Spec == Init /\ [][Next]_vars

-----------------------------------------------------------------------------
(* What must hold whatever the delays: a paused process, a slow network.   *)

TypeOK ==
    /\ now \in Nat
    /\ session \in Session
    /\ lock \in [owner : Reqs \cup {Nobody}, expires : Nat]
    /\ late \in SUBSET [req : Reqs, cmd : Writes]
    /\ spoiled \in BOOLEAN
    /\ job \in [Reqs -> {"none", "running"}]
    /\ pc \in [Reqs -> Phases]
    /\ dl \in [Reqs -> Nat]
    /\ reply \in [Reqs -> Reply]
    /\ data \in [Reqs -> [exp : Nat, abs : Nat]]
    /\ until \in [Reqs -> Nat]
    /\ tok \in [Reqs -> Nat]
    /\ out \in [Reqs -> Outcomes]

\* A request whose handler saw a token near its expiry is never forwarded
\* with that token: whatever refresh returns was minted after the token the
\* handler loaded (refresh.go's observedExp comparisons and tokenOrErr).
FreshToken ==
    \A r \in Reqs : pc[r] = "done" /\ out[r] = "refreshed" => tok[r] > data[r].exp

\* The record can no longer authenticate anybody, now or later.
Dead == session = NoSession \/ spoiled \/ now >= session.abs

\* A 401 makes the front end log in again, so it is only for a session that
\* is really over; a store or auth-bff failure is a 503 (main.go's split of
\* errSessionGone from every other error, load's nil from its error).
UnauthorizedOnlyIfDead ==
    \A r \in Reqs : pc[r] = "done" /\ out[r] \in Denied401 => Dead

Holding(r) == pc[r] \in {"recheck", "call"}

\* A request that works under the refresh lock loses it to nobody before the
\* lock's own TTL: no release, however late, deletes another one's lock
\* (the random token and the compare-and-delete of release).
LockLostOnlyByTTL ==
    [][\A r \in Reqs :
          lock.owner = r /\ Holding(r) /\ Holding(r)' /\ lock' # lock => now' >= lock.expires]_vars

\* No write of the gateway brings a deleted session back, and nothing but a
\* logout, auth-bff, the ceiling or the idle TTL removes one.
RemovedForCause ==
    [][/\ session = NoSession => session' = NoSession
       /\ session # NoSession /\ session' = NoSession
             => Dead \/ Logout \/ now' >= session.expires]_vars

\* The session and the requests as the front end sees them.  A handler has
\* seen the session once its own load is answered with a record.
Life == IF session = NoSession THEN "gone" ELSE IF Dead THEN "doomed" ELSE "live"

AnswerOf(r) ==
    CASE pc[r] = "crashed" -> "lost"
      [] pc[r] = "done" /\ out[r] \in {"hit", "refreshed"} -> "forwarded"
      [] pc[r] = "done" /\ out[r] \in Denied401 -> "refused"
      [] pc[r] = "done" /\ out[r] \notin {"hit", "refreshed"} \cup Denied401 -> "unavailable"
      [] pc[r] = "new" \/ (pc[r] = "load" /\ reply[r].code # "ok") -> "waiting"
      [] OTHER -> "admitted"

Promise == INSTANCE SessionPromise WITH life <- Life, answer <- [r \in Reqs |-> AnswerOf(r)]

\* The resolver implements SessionPromise: nobody gets through on a session
\* that was over before the request arrived (a logout that raced a poll, a
\* refresh or a crash), and nobody is refused while the session is usable.
ImplementsPromise == Promise!PSpec

=============================================================================
