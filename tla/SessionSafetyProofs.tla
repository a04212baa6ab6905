------------------------ MODULE SessionSafetyProofs ------------------------
(* FreshToken and UnauthorizedOnlyIfDead, whatever the delays and failures. *)
EXTENDS SessionResolverProofs

-----------------------------------------------------------------------------
(* FreshToken.  exp only grows while a record lives, so whatever a handler *)
(* read earlier is at most the stored exp, and auth-bff's next is above it. *)

FreshReq(r) ==
    /\ WellFormed(reply[r])
    /\ session # NoSession => session.exp >= data[r].exp /\ session.exp >= reply[r].exp
    /\ pc[r] = "call" /\ reply[r].code = "ok" /\ reply[r].tok # 0 => reply[r].tok > data[r].exp
    /\ pc[r] \in {"new", "load"} => out[r] = "none"
    /\ out[r] = "refreshed" => tok[r] > data[r].exp

FreshInv == WellFormed(session) /\ \A r \in Reqs : FreshReq(r)

LEMMA FreshInit == Init => FreshInv
  <1> SUFFICES ASSUME Init PROVE FreshInv
    OBVIOUS
  <1>1. WellFormed(session)
    BY SessionsAssumption DEF Init, NoSession, WellFormed
  <1>2. session # NoSession => session \in Session
    BY SessionsAssumption DEF Init
  <1> QED
    BY <1>1, <1>2 DEF Init, FreshInv, FreshReq, WellFormed, NoReply, Session

\* The record may change under a request only by growing or by going away.
Grows == session' = NoSession \/ session' = session
         \/ (session # NoSession /\ session' # NoSession /\ session'.exp >= session.exp)

\* A request whose own state does not change keeps its part of FreshInv.
LEMMA FreshFrame ==
    ASSUME TypeOK, TypeOK', NEW s \in Reqs, FreshReq(s), Grows,
           pc'[s] = pc[s], reply'[s] = reply[s], data'[s] = data[s],
           tok'[s] = tok[s], out'[s] = out[s]
    PROVE  FreshReq(s)'
  BY DEF FreshReq, Grows, TypeOK, Session, Reply, WellFormed

\* A request that enters a phase keeps it if what it returns is fresh.
LEMMA FreshMove ==
    ASSUME TypeOK, TypeOK', NEW r \in Reqs, FreshReq(r), Grows,
           reply'[r] = NoReply, data'[r] = data[r],
           pc'[r] # "new", pc'[r] = "load" => out'[r] = "none",
           out'[r] = "refreshed" => tok'[r] > data[r].exp
    PROVE  FreshReq(r)'
  BY DEF FreshReq, Grows, TypeOK, Session, NoReply, WellFormed

\* What a fresher record gives to refresh's caller is fresh.
LEMMA FresherToken ==
    ASSUME TypeOK, NEW r \in Reqs, FreshReq(r), Fresher(r, reply[r]),
           TokenOrErr(reply[r]) = "refreshed"
    PROVE  reply[r].tok > data[r].exp
  BY DEF FreshReq, Fresher, TokenOrErr, WellFormed, TypeOK, Reply

LEMMA FreshHandler ==
    ASSUME TypeOK, TypeOK', FreshInv, NEW r \in Reqs, Handler(r) \/ Arrive(r) \/ Crash(r)
    PROVE  FreshInv'
  <1>1. Grows /\ (session' = session \/ session' = NoSession \/ ExpireExec(r))
    <2>1. CASE Drop(r)
      BY <2>1 DEF Drop, Del, Grows
    <2>2. CASE ExpireExec(r)
      BY <2>2 DEF ExpireExec, Expire, Grows, TypeOK, Session
    <2>3. CASE ~Drop(r) /\ ~ExpireExec(r)
      <3>1. UNCHANGED session
        BY <2>3, Zenon DEF Handler, Arrive, Crash, OnLoad, OnReload, OnAcquire, OnRecheck, OnCall,
              Wake, OnPoll, PollAgain, GiveUp, Release, Ttl, Fail, store
      <3> QED
        BY <3>1 DEF Grows
    <2> QED
      BY <2>1, <2>2, <2>3
  <1>2. WellFormed(session')
    BY <1>1 DEF FreshInv, WellFormed, NoSession, ExpireExec, Expire, TypeOK, Session
  <1>3. FreshReq(r)
    BY DEF FreshInv
  <1>4. FreshReq(r)'
    <2>1. CASE Arrive(r)
      BY <2>1, <1>1, <1>3, FreshMove DEF Arrive, Begin, locals, FreshReq, TypeOK
    <2>2. CASE OnLoad(r)
      <3>1. CASE Deny(r, "miss")
        BY <3>1, <1>1, <1>3, FreshMove DEF Deny, Finish, SetOut, FreshReq, TypeOK
      <3>2. CASE Begin(r, "drop") /\ SetOut(r, "expired") /\ UNCHANGED <<data, until, tok>>
        BY <3>2, <1>1, <1>3, FreshMove DEF Begin, SetOut, FreshReq, TypeOK
      <3>3. CASE /\ data' = [data EXCEPT ![r] = [exp |-> reply[r].exp, abs |-> reply[r].abs]]
                 /\ Begin(r, "ttl") /\ SetOut(r, "hit")
        BY <3>3, <1>1, <1>3 DEF Begin, SetOut, FreshReq, TypeOK, Grows, Session, NoReply, WellFormed
      <3>4. CASE /\ data' = [data EXCEPT ![r] = [exp |-> reply[r].exp, abs |-> reply[r].abs]]
                 /\ Begin(r, "reload") /\ UNCHANGED <<until, tok, out>>
        <4>1. out[r] = "none"
          BY <1>3, <2>2 DEF OnLoad, Has, FreshReq
        <4> QED
          BY <3>4, <4>1, <1>1, <1>3 DEF Begin, FreshReq, TypeOK, Grows, Session, NoReply, WellFormed
      <3> QED
        BY <2>2, <3>1, <3>2, <3>3, <3>4 DEF OnLoad
    <2>3. ASSUME NEW o, NEW t, Return(r, o, t) \/ Unwind(r, o, t),
                 o = "refreshed" => t > data[r].exp
          PROVE  FreshReq(r)'
      BY <2>3, <1>1, <1>3, FreshMove DEF Return, Unwind, Begin, Finish, SetOut, TypeOK
    <2>4. CASE OnReload(r)
      BY <2>3, <2>4, <1>1, <1>3, FreshMove, FresherToken
         DEF OnReload, Begin, locals, FreshReq, TypeOK
    <2>5. CASE OnAcquire(r)
      BY <2>5, <1>1, <1>3, FreshMove DEF OnAcquire, Begin, FreshReq, TypeOK
    <2>6. CASE OnRecheck(r)
      BY <2>3, <2>6, <1>1, <1>3, FreshMove, FresherToken
         DEF OnRecheck, Begin, locals, FreshReq, TypeOK
    <2>7. CASE OnCall(r)
      <3>1. reply[r].code = "ok" /\ TokenOrErr(reply[r]) = "refreshed"
              => reply[r].tok > data[r].exp
        BY <2>7, <1>3 DEF OnCall, Has, FreshReq, TokenOrErr
      <3> QED
        BY <2>3, <2>7, <3>1 DEF OnCall
    <2>8. CASE Wake(r) \/ PollAgain(r)
      BY <2>8, <1>1, <1>3, FreshMove DEF Wake, PollAgain, Begin, locals, FreshReq, TypeOK
    <2>9. CASE OnPoll(r) \/ GiveUp(r)
      BY <2>3, <2>9, <1>3, FresherToken DEF OnPoll, GiveUp
    <2>10. ASSUME AfterRelease(r) \/ Finish(r, "done") \/ Finish(r, "crashed"), UNCHANGED locals
           PROVE  FreshReq(r)'
      BY <2>10, <1>1, <1>3, FreshMove
         DEF AfterRelease, Begin, Finish, locals, FreshReq, TypeOK
    <2>11. CASE Release(r) \/ Drop(r) \/ ExpireExec(r) \/ Crash(r)
      BY <2>10, <2>11 DEF Release, Drop, ExpireExec, Crash
    <2>12. CASE Ttl(r)
      <3>1. CASE pc' = [pc EXCEPT ![r] = "expire"] /\ UNCHANGED <<dl, reply>>
        BY <2>12, <3>1, <1>1, <1>3 DEF Ttl, FreshReq, Grows, TypeOK, Session, Reply, WellFormed, locals
      <3> QED
        BY <2>10, <2>12, <3>1 DEF Ttl
    <2>13. CASE Fail(r)
      <3>1. CASE Deny(r, "store_error")
        BY <3>1, <1>1, <1>3, FreshMove DEF Deny, Finish, SetOut, FreshReq, TypeOK
      <3> QED
        BY <2>3, <2>10, <2>13, <3>1 DEF Fail, FailOutcome
    <2> QED
      BY <2>1, <2>2, <2>4, <2>5, <2>6, <2>7, <2>8, <2>9, <2>11, <2>12, <2>13 DEF Handler
  <1>5. ASSUME NEW s \in Reqs, s # r PROVE FreshReq(s)'
    <2>1. /\ pc'[s] = pc[s] /\ reply'[s] = reply[s] /\ data'[s] = data[s]
          /\ tok'[s] = tok[s] /\ out'[s] = out[s]
      BY <1>5 DEF Handler, Arrive, Crash, OnLoad, OnReload, OnAcquire, OnRecheck, OnCall, Wake,
                  OnPoll, PollAgain, GiveUp, Release, AfterRelease, Drop, Ttl, ExpireExec, Fail,
                  FailOutcome, Deny, Return, Unwind, SetOut, Begin, Finish, locals, TypeOK
    <2> QED
      BY <1>1, <2>1, FreshFrame DEF FreshInv
  <1> QED
    BY <1>2, <1>4, <1>5 DEF FreshInv

LEMMA FreshServers ==
    ASSUME TypeOK, TypeOK', FreshInv, NEW r \in Reqs, Valkey(r) \/ AuthBff(r)
    PROVE  FreshInv'
  <1>1. UNCHANGED <<pc, data, tok, out>> /\ \A s \in Reqs : s # r => reply'[s] = reply[s]
    BY DEF Valkey, AuthBff, LoadExec, SetNxExec, BffRefresh, BffRefuse, BffError, BffGarble,
           Respond, locals, TypeOK
  <1>2. Grows /\ WellFormed(session')
    <2>1. ASSUME NEW t \in {0, NextExp}, NEW e \in Nat, session # NoSession,
                 session' = [session EXCEPT !.tok = t, !.exp = NextExp, !.expires = e]
          PROVE  Grows /\ WellFormed(session')
      <3>1. session'.exp = NextExp /\ session'.tok = t
        BY <2>1 DEF TypeOK, Session
      <3> QED
        BY <2>1, <3>1, NextExpType DEF Grows, WellFormed, NoSession, TypeOK, Session
    <2>2. CASE BffRefresh(r)
      BY <2>1, <2>2, RecordType DEF BffRefresh, Refreshable
    <2>3. CASE BffGarble(r)
      <3>1. session' = [session EXCEPT !.tok = 0, !.exp = NextExp, !.expires = session.expires]
        BY <2>3 DEF BffGarble, TypeOK, Session
      <3> QED
        BY <2>1, <2>3, <3>1 DEF BffGarble, Refreshable, TypeOK, Session
    <2>4. CASE LoadExec(r) \/ SetNxExec(r) \/ BffRefuse(r) \/ BffError(r)
      BY <2>4 DEF LoadExec, SetNxExec, BffRefuse, BffError, Grows, FreshInv, WellFormed,
                  NoSession, store
    <2> QED
      BY <2>2, <2>3, <2>4 DEF Valkey, AuthBff
  <1>4. FreshReq(r)'
    <2>1. CASE LoadExec(r)
      BY <2>1, <1>1 DEF LoadExec, Hmget, Answer, NoReply, Awaits, Loads, FreshInv, FreshReq,
                        WellFormed, TypeOK, Session, store
    <2>2. CASE SetNxExec(r)
      BY <2>2, <1>1 DEF SetNxExec, Answer, NoReply, Awaits, FreshInv, FreshReq, WellFormed,
                        TypeOK, Session
    <2>3. CASE BffRefresh(r)
      <3>1. session # NoSession /\ NextExp > data[r].exp
        BY <2>3, NextExpType DEF BffRefresh, Refreshable, FreshInv, FreshReq, TypeOK, Session
      <3>2. reply'[r] = reply[r] \/ reply'[r] = [NoReply EXCEPT !.code = "ok", !.tok = NextExp]
        BY <2>3 DEF BffRefresh, Respond, TypeOK
      <3>3. CASE reply'[r] = [NoReply EXCEPT !.code = "ok", !.tok = NextExp]
        <4>1. reply'[r].tok = NextExp /\ reply'[r].exp = 0
          BY <3>3 DEF NoReply
        <4> QED
          BY <3>1, <4>1, <1>1, <1>2
             DEF FreshInv, FreshReq, WellFormed, Grows, TypeOK, Session
      <3> QED
        BY <3>2, <3>3, <1>1, <1>2, FreshFrame DEF FreshInv
    <2>4. CASE BffRefuse(r) \/ BffError(r) \/ BffGarble(r)
      <3>1. reply'[r] = reply[r]
            \/ \E c \in {"ok", "unauthorized", "status"} : reply'[r] = Answer(c)
        BY <2>4 DEF BffRefuse, BffError, BffGarble, Respond, TypeOK
      <3> QED
        BY <3>1, <1>1, <1>2, FreshFrame
           DEF FreshInv, FreshReq, Answer, NoReply, WellFormed, Grows, TypeOK, Session
    <2> QED
      BY <2>1, <2>2, <2>3, <2>4 DEF Valkey, AuthBff
  <1> QED
    BY <1>1, <1>2, <1>4, FreshFrame DEF FreshInv

\* FreshInv is inductive.
LEMMA FreshStep == TypeOK /\ TypeOK' /\ FreshInv /\ [Next]_vars => FreshInv'
  <1> SUFFICES ASSUME TypeOK, TypeOK', FreshInv, [Next]_vars PROVE FreshInv'
    OBVIOUS
  <1>1. CASE \E r \in Reqs : Arrive(r) \/ Handler(r) \/ Valkey(r) \/ AuthBff(r) \/ Crash(r)
    BY <1>1, FreshHandler, FreshServers
  <1>2. CASE (\E c \in late : LateExec(c)) \/ Logout \/ Revoke \/ Tick \/ UNCHANGED vars
    <2>1. UNCHANGED <<pc, reply, data, tok, out>>
      BY <1>2 DEF LateExec, Logout, Revoke, Tick, vars, locals
    <2>2. Grows /\ WellFormed(session')
      BY <1>2 DEF LateExec, Logout, Revoke, Tick, Expire, Del, vars, store, FreshInv, Grows,
                  WellFormed, NoSession, TypeOK, Session
    <2> QED
      BY <2>1, <2>2, FreshFrame DEF FreshInv
  <1> QED
    BY <1>1, <1>2 DEF Next, Step

\* A request whose handler found the token near its expiry is never forwarded
\* with that token, or an older one, however late anything happens.
THEOREM FreshTokenHolds == Spec => []FreshToken
  <1>1. FreshInv => FreshToken
    BY DEF FreshInv, FreshReq, FreshToken
  <1> QED
    BY <1>1, TypeCorrect, FreshInit, FreshStep, PTL DEF Spec

-----------------------------------------------------------------------------
(* UnauthorizedOnlyIfDead and RemovedForCause.  Whatever tells a handler   *)
(* that the session is over stays true: a deleted record does not return,  *)
(* abs_exp does not move, a revoked refresh token stays revoked.           *)

DeadReq(r) ==
    /\ pc[r] \in Loads /\ reply[r].code = "nil" => session = NoSession
    /\ pc[r] \in Loads /\ reply[r] # NoReply /\ reply[r].code # "nil" =>
           /\ reply[r].tok = 0 => session = NoSession \/ spoiled
           /\ session = NoSession \/ session.abs = reply[r].abs
    /\ reply[r].code = "unauthorized" => Dead
    /\ out[r] \in Denied401 => Dead
    /\ pc[r] = "drop" => Dead

DeadInv ==
    /\ session # NoSession /\ session.tok = 0 => spoiled
    /\ \A r \in Reqs : DeadReq(r)
    /\ \A c \in late : c.cmd = "drop" => Dead

\* How the record may age in a step.
Ages ==
    /\ session = NoSession => session' = NoSession
    /\ session' # NoSession => session'.abs = session.abs
    /\ session' # NoSession /\ session'.tok = 0 => spoiled' \/ session' = session \/ session.tok = 0
    /\ spoiled => spoiled'
    /\ now' >= now

LEMMA DeadStays == ASSUME TypeOK, TypeOK', Ages, Dead PROVE Dead'
  BY DEF Ages, Dead, TypeOK, Session

LEMMA DeadInit == Init => DeadInv
  <1> SUFFICES ASSUME Init PROVE DeadInv
    OBVIOUS
  <1>1. session # NoSession /\ session.tok = 0 => spoiled
    BY DEF Init
  <1>2. \A r \in Reqs : pc[r] = "new" /\ reply[r].code = "none" /\ out[r] = "none"
    BY DEF Init, NoReply
  <1>3. late = {}
    BY DEF Init
  <1> QED
    BY <1>1, <1>2, <1>3 DEF DeadInv, DeadReq, Loads, Denied401

LEMMA DeadFrame ==
    ASSUME TypeOK, TypeOK', NEW s \in Reqs, DeadReq(s), Ages,
           pc'[s] = pc[s], reply'[s] = reply[s], out'[s] = out[s]
    PROVE  DeadReq(s)'
  <1>1. Dead => Dead'
    BY DeadStays
  <1>2. session = NoSession => session' = NoSession
    BY DEF Ages
  <1>3. spoiled => spoiled'
    BY DEF Ages
  <1>4. session' # NoSession => session'.abs = session.abs
    BY DEF Ages
  <1> QED
    BY <1>1, <1>2, <1>3, <1>4 DEF DeadReq

\* A request that enters a phase keeps it if its outcome is justified.
LEMMA DeadMove ==
    ASSUME TypeOK, TypeOK', NEW r \in Reqs, DeadReq(r), Ages, reply'[r] = NoReply,
           out'[r] # out[r] /\ out'[r] \in Denied401 => Dead,
           pc'[r] = "drop" => Dead
    PROVE  DeadReq(r)'
  BY DeadStays DEF DeadReq, NoReply

\* A record that a handler reads as over is over.
LEMMA OverWhenRead ==
    ASSUME DeadInv, NEW r \in Reqs, pc[r] \in Loads, reply[r] # NoReply
    PROVE  /\ reply[r].code = "nil" => Dead
           /\ reply[r].tok = 0 => Dead
           /\ PastCeiling(reply[r]) => Dead
  BY DEF DeadInv, DeadReq, Dead, PastCeiling

LEMMA DeadHandler ==
    ASSUME TypeOK, TypeOK', DeadInv, NEW r \in Reqs, Handler(r) \/ Arrive(r) \/ Crash(r)
    PROVE  /\ Ages
           /\ \A s \in Reqs : DeadReq(s)'
           /\ session # NoSession /\ session' = NoSession => Dead
  <1>1. /\ now' = now /\ spoiled' = spoiled
        /\ session' = session \/ Drop(r) \/ ExpireExec(r)
    BY DEF Handler, Arrive, Crash, OnLoad, OnReload, OnAcquire, OnRecheck, OnCall, Wake, OnPoll,
           PollAgain, GiveUp, Release, Drop, Ttl, ExpireExec, Fail, store, bff
  <1>2. Ages
    <2>1. CASE ExpireExec(r)
      BY <1>1, <2>1 DEF Ages, ExpireExec, Expire, TypeOK, Session
    <2> QED
      BY <1>1, <2>1 DEF Ages, Drop, Del, TypeOK, Session
  <1>3. DeadReq(r)
    BY DEF DeadInv
  <1>4. session # NoSession /\ session' = NoSession => Dead
    <2>1. CASE ExpireExec(r) /\ session # NoSession
      <3>1. IdleTTL \in Nat /\ IdleTTL # 0
        BY TimesAssumption
      <3>2. session'.expires = now + IdleTTL
        BY <2>1 DEF ExpireExec, Expire, TypeOK, Session
      <3>3. session'.expires > 0
        BY <3>1, <3>2 DEF TypeOK
      <3> QED
        BY <3>3 DEF NoSession
    <2> QED
      BY <1>1, <1>3, <2>1 DEF Drop, DeadReq
  <1>5. DeadReq(r)'
    <2>1. ASSUME NEW o, NEW t, Return(r, o, t) \/ Unwind(r, o, t) \/ Deny(r, o),
                 o \in Denied401 => Dead
          PROVE  DeadReq(r)'
      BY <2>1, <1>2, <1>3, DeadMove DEF Return, Unwind, Deny, Begin, Finish, SetOut, TypeOK
    <2>2. ASSUME NEW p \in Phases, Begin(r, p) \/ Finish(r, p), p # "drop", out' = out
          PROVE  DeadReq(r)'
      BY <2>2, <1>2, <1>3, DeadMove DEF Begin, Finish, TypeOK
    <2> USE PhaseFacts
    <2>3. CASE Arrive(r) \/ OnAcquire(r) \/ Wake(r) \/ PollAgain(r) \/ Release(r) \/ Drop(r)
               \/ ExpireExec(r) \/ Crash(r)
      BY <2>2, <2>3 DEF Arrive, OnAcquire, Wake, PollAgain, Release, AfterRelease, Drop,
                        ExpireExec, Crash, locals, Phases
    <2>4. CASE OnLoad(r)
      <3>1. /\ reply[r].code = "nil" => Dead
            /\ reply[r].tok = 0 => Dead
            /\ PastCeiling(reply[r]) => Dead
        BY <2>4, OverWhenRead DEF OnLoad, Has, Loads
      <3>2. CASE Deny(r, "miss") /\ (reply[r].code = "nil" \/ (reply[r].code = "ok" /\ reply[r].tok = 0))
        BY <2>1, <3>1, <3>2
      <3>3. CASE /\ Begin(r, "drop") /\ SetOut(r, "expired")
                 /\ reply[r].code = "ok" /\ PastCeiling(reply[r])
        BY <3>1, <3>3, <1>2, <1>3, DeadMove DEF Begin, SetOut, TypeOK
      <3>4. CASE Begin(r, "ttl") /\ SetOut(r, "hit")
        BY <3>4, <1>2, <1>3, DeadMove DEF Begin, SetOut, Denied401, TypeOK
      <3>5. CASE Begin(r, "reload") /\ UNCHANGED out
        BY <3>5, <2>2
      <3> QED
        BY <2>4, <3>2, <3>3, <3>4, <3>5 DEF OnLoad
    <2>5. TokenOrErr(reply[r]) \notin Denied401 /\ "refresh_error" \notin Denied401
          /\ "store_error" \notin Denied401
      BY DEF TokenOrErr, Denied401
    <2>6. CASE OnReload(r)
      <3>1. reply[r].code = "nil" \/ PastCeiling(reply[r]) => Dead
        BY <2>6, OverWhenRead DEF OnReload, Has, Loads
      <3> QED
        BY <2>1, <2>2, <2>5, <2>6, <3>1 DEF OnReload, locals
    <2>7. CASE OnRecheck(r)
      <3>1. reply[r].code = "nil" => Dead
        BY <2>7, <1>3 DEF OnRecheck, Has, DeadReq, Dead, Loads
      <3> QED
        BY <2>1, <2>2, <2>5, <2>7, <3>1 DEF OnRecheck, locals
    <2>8. CASE OnCall(r)
      BY <2>1, <2>5, <2>8, <1>3 DEF OnCall, DeadReq
    <2>9. CASE OnPoll(r) \/ GiveUp(r)
      <3>1. OnPoll(r) /\ reply[r].code = "nil" => Dead
        BY <1>3 DEF OnPoll, Has, DeadReq, Dead, Loads
      <3> QED
        BY <2>1, <2>5, <2>9, <3>1 DEF OnPoll, GiveUp
    <2>10. CASE Ttl(r)
      <3>1. CASE pc' = [pc EXCEPT ![r] = "expire"] /\ UNCHANGED <<dl, reply>>
        BY <2>10, <3>1, <1>2, <1>3, DeadStays DEF Ttl, DeadReq, Loads, TypeOK, locals
      <3> QED
        BY <2>2, <2>10, <3>1 DEF Ttl, locals, Phases
    <2>11. CASE Fail(r)
      BY <2>1, <2>2, <2>5, <2>11 DEF Fail, FailOutcome, AfterRelease, locals, Phases
    <2> QED
      BY <2>3, <2>4, <2>6, <2>7, <2>8, <2>9, <2>10, <2>11 DEF Handler
  <1>6. ASSUME NEW s \in Reqs, s # r PROVE DeadReq(s)'
    <2>1. pc'[s] = pc[s] /\ reply'[s] = reply[s] /\ out'[s] = out[s]
      BY <1>6 DEF Handler, Arrive, Crash, OnLoad, OnReload, OnAcquire, OnRecheck, OnCall, Wake,
                  OnPoll, PollAgain, GiveUp, Release, AfterRelease, Drop, Ttl, ExpireExec, Fail,
                  FailOutcome, Deny, Return, Unwind, SetOut, Begin, Finish, locals, TypeOK
    <2> QED
      BY <1>2, <2>1, DeadFrame DEF DeadInv
  <1> QED
    BY <1>2, <1>4, <1>5, <1>6

LEMMA DeadServers ==
    ASSUME TypeOK, TypeOK', DeadInv, NEW r \in Reqs, Valkey(r) \/ AuthBff(r)
    PROVE  /\ Ages
           /\ \A s \in Reqs : DeadReq(s)'
           /\ session # NoSession /\ session' = NoSession => Dead
  <1>1. UNCHANGED <<now, pc, out, late>> /\ \A s \in Reqs : s # r => reply'[s] = reply[s]
    BY DEF Valkey, AuthBff, LoadExec, SetNxExec, BffRefresh, BffRefuse, BffError, BffGarble,
           Respond, locals, store, TypeOK
  <1>2. Ages /\ (session # NoSession /\ session' = NoSession => Dead)
    <2>1. CASE BffRefresh(r)
      <3>1. session # NoSession /\ session'.abs = session.abs /\ session'.tok = NextExp
            /\ session'.exp = NextExp /\ spoiled' = spoiled
        BY <2>1 DEF BffRefresh, Refreshable, TypeOK, Session
      <3> QED
        BY <3>1, <1>1, NextExpType DEF Ages, NoSession, TypeOK, Session
    <2>2. CASE BffGarble(r)
      <3>1. session # NoSession /\ session'.abs = session.abs /\ session'.exp = NextExp /\ spoiled'
        BY <2>2 DEF BffGarble, Refreshable, TypeOK, Session
      <3> QED
        BY <3>1, <1>1, NextExpType DEF Ages, NoSession, TypeOK, Session
    <2>3. CASE BffRefuse(r)
      BY <2>3, <1>1 DEF BffRefuse, Refreshable, Dead, Ages, TypeOK
    <2>4. CASE LoadExec(r) \/ SetNxExec(r) \/ BffError(r)
      BY <2>4, <1>1 DEF LoadExec, SetNxExec, BffError, Ages, TypeOK, store, bff
    <2> QED
      BY <2>1, <2>2, <2>3, <2>4 DEF Valkey, AuthBff
  <1>3. DeadReq(r) /\ (Dead => Dead')
    BY <1>2, DeadStays DEF DeadInv
  <1>4. DeadReq(r)'
    <2>1. CASE LoadExec(r)
      <3>1. UNCHANGED <<session, spoiled, now>> /\ reply'[r] = Hmget /\ pc[r] \in Loads
        BY <2>1 DEF LoadExec, Awaits, store, bff, TypeOK
      <3>2. session # NoSession /\ session.tok = 0 => spoiled
        BY DEF DeadInv
      <3>3. Hmget.code # "unauthorized" /\ pc[r] # "drop"
        BY <3>1 DEF Hmget, Answer, NoReply, Loads
      <3>4. CASE session = NoSession
        BY <3>1, <3>3, <3>4, <1>1, <1>3 DEF DeadReq
      <3>5. CASE session # NoSession
        <4>1. Hmget.code = "ok" /\ Hmget.tok = session.tok /\ Hmget.abs = session.abs
          BY <3>5 DEF Hmget
        <4> QED
          BY <3>1, <3>2, <3>3, <3>5, <4>1, <1>1, <1>3 DEF DeadReq
      <3> QED
        BY <3>4, <3>5
    <2>2. CASE SetNxExec(r)
      <3>1. pc[r] = "acquire" /\ reply'[r].code \in {"ok", "nil"}
        BY <2>2 DEF SetNxExec, Awaits, Answer, NoReply, TypeOK
      <3> QED
        BY <3>1, <1>1, <1>3 DEF DeadReq, Loads
    <2>3. CASE AuthBff(r)
      <3>1. reply'[r] = reply[r]
            \/ (pc[r] = "call" /\ reply'[r].code = "unauthorized" /\ BffRefuse(r))
            \/ (pc[r] = "call" /\ reply'[r].code \in {"ok", "status"})
        <4>1. ASSUME NEW a, Respond(r, a)
              PROVE  reply'[r] = reply[r] \/ (pc[r] = "call" /\ reply'[r] = a)
          BY <4>1 DEF Respond, Awaits, TypeOK
        <4>2. \A c : Answer(c).code = c
          BY DEF Answer, NoReply
        <4>3. [NoReply EXCEPT !.code = "ok", !.tok = NextExp].code = "ok"
          BY DEF NoReply
        <4>4. CASE BffRefresh(r)
          BY <4>1, <4>3, <4>4 DEF BffRefresh
        <4>5. CASE BffRefuse(r)
          BY <4>1, <4>2, <4>5 DEF BffRefuse
        <4>6. CASE BffError(r) \/ BffGarble(r)
          BY <4>1, <4>2, <4>6 DEF BffError, BffGarble
        <4> QED
          BY <2>3, <4>4, <4>5, <4>6 DEF AuthBff
      <3>2. BffRefuse(r) => Dead
        BY DEF BffRefuse, Refreshable, Dead
      <3>3. CASE reply'[r] = reply[r]
        BY <3>3, <1>1, <1>2, DeadFrame DEF DeadInv
      <3>4. CASE reply'[r] # reply[r]
        BY <3>1, <3>2, <3>4, <1>1, <1>3 DEF DeadReq, Loads
      <3> QED
        BY <3>3, <3>4
    <2> QED
      BY <2>1, <2>2, <2>3 DEF Valkey
  <1> QED
    BY <1>1, <1>2, <1>4, DeadFrame DEF DeadInv

LEMMA LeftBehindIsDue ==
    ASSUME TypeOK, DeadInv, NEW r \in Reqs, LeaveBehind(r), NEW c \in late', c.cmd = "drop"
    PROVE  Dead
  BY DEF LeaveBehind, DeadInv, DeadReq

\* DeadInv is inductive, and a record is only removed for cause.
LEMMA DeadStep ==
    ASSUME TypeOK, TypeOK', DeadInv, [Next]_vars
    PROVE  /\ DeadInv'
           /\ session = NoSession => session' = NoSession
           /\ session # NoSession /\ session' = NoSession
                => Dead \/ Logout \/ now' >= session.expires
           /\ Ages
  <1>1. ASSUME Ages PROVE session' # NoSession /\ session'.tok = 0 => spoiled'
    BY <1>1 DEF Ages, DeadInv
  <1>2. CASE \E r \in Reqs : Arrive(r) \/ Handler(r) \/ Valkey(r) \/ AuthBff(r) \/ Crash(r)
    <2>1. PICK r \in Reqs : Arrive(r) \/ Handler(r) \/ Valkey(r) \/ AuthBff(r) \/ Crash(r)
      BY <1>2
    <2>2. /\ Ages
          /\ \A s \in Reqs : DeadReq(s)'
          /\ session # NoSession /\ session' = NoSession => Dead
      BY <2>1, DeadHandler, DeadServers
    <2>3. late' = late \/ LeaveBehind(r)
      BY <2>1 DEF Arrive, Handler, Valkey, AuthBff, Crash, OnLoad, OnReload, OnAcquire, OnRecheck,
                  OnCall, Wake, OnPoll, PollAgain, GiveUp, Release, Drop, Ttl, ExpireExec, Fail,
                  LoadExec, SetNxExec, BffRefresh, BffRefuse, BffError, BffGarble, Respond, store
    <2>4. \A c \in late' : c.cmd = "drop" => Dead'
      BY <2>2, <2>3, LeftBehindIsDue, DeadStays DEF DeadInv
    <2> QED
      BY <1>1, <2>2, <2>4 DEF DeadInv, Ages
  <1>3. CASE \E c \in late : LateExec(c)
    <2>1. PICK c \in late : LateExec(c)
      BY <1>3
    <2>2. UNCHANGED <<now, spoiled, pc, reply, out>> /\ late' \subseteq late
          /\ (session' = session \/ (c.cmd = "drop" /\ Del) \/ Expire)
      BY <2>1 DEF LateExec, bff, locals
    <2>3. Ages
      BY <2>2 DEF Ages, Del, Expire, TypeOK, Session
    <2>4. session # NoSession /\ session' = NoSession => Dead
      <3>1. CASE Expire /\ session # NoSession
        <4>1. IdleTTL \in Nat /\ IdleTTL # 0
          BY TimesAssumption
        <4>2. session'.expires = now + IdleTTL
          BY <3>1 DEF Expire, TypeOK, Session
        <4>3. session'.expires > 0
          BY <4>1, <4>2 DEF TypeOK
        <4> QED
          BY <4>3 DEF NoSession
      <3> QED
        BY <2>2, <3>1 DEF DeadInv
    <2> QED
      BY <1>1, <2>2, <2>3, <2>4, DeadFrame, DeadStays DEF DeadInv, Ages
  <1>4. CASE Logout \/ Revoke \/ Tick \/ UNCHANGED vars
    <2>1. UNCHANGED <<late, pc, reply, out>>
      BY <1>4 DEF Logout, Revoke, Tick, vars, locals, store
    <2>2. Ages
      BY <1>4 DEF Logout, Revoke, Tick, Del, Ages, vars, store, bff, TypeOK, Session
    <2>3. session # NoSession /\ session' = NoSession => Logout \/ now' >= session.expires
      BY <1>4 DEF Logout, Revoke, Tick, vars, store, TypeOK, Session
    <2> QED
      BY <1>1, <2>1, <2>2, <2>3, DeadFrame, DeadStays DEF DeadInv, Ages
  <1> QED
    BY <1>2, <1>3, <1>4 DEF Next, Step

\* A 401 is only given for a session that is over; failures are 503s.
THEOREM UnauthorizedOnlyIfDeadHolds == Spec => []UnauthorizedOnlyIfDead
  <1>1. DeadInv => UnauthorizedOnlyIfDead
    BY DEF DeadInv, DeadReq, UnauthorizedOnlyIfDead
  <1>2. TypeOK /\ TypeOK' /\ DeadInv /\ [Next]_vars => DeadInv'
    BY DeadStep
  <1> QED
    BY <1>1, <1>2, TypeCorrect, DeadInit, PTL DEF Spec

\* No write of the gateway brings a record back, and none is removed but by
\* a logout, its TTL, or because the session is over.
THEOREM RemovedForCauseHolds == Spec => RemovedForCause
  <1>1. TypeOK /\ TypeOK' /\ DeadInv /\ [Next]_vars => DeadInv'
    BY DeadStep
  <1>2. TypeOK /\ TypeOK' /\ DeadInv /\ [Next]_vars =>
          [/\ session = NoSession => session' = NoSession
           /\ session # NoSession /\ session' = NoSession
                 => Dead \/ Logout \/ now' >= session.expires]_vars
    BY DeadStep
  <1> QED
    BY <1>1, <1>2, TypeCorrect, DeadInit, PTL DEF Spec, RemovedForCause

-----------------------------------------------------------------------------
(* ImplementsPromise.  Ages carries the session's fate; the answer of a    *)
(* request moves with its handler and nobody else.                         *)

LEMMA LifeAges ==
    ASSUME TypeOK, TypeOK', Ages
    PROVE  Life' \in Promise!Onward(Life)
  <1>1. session = NoSession => session' = NoSession
    BY DEF Ages
  <1>2. Dead => Dead'
    BY DeadStays
  <1> QED
    BY <1>1, <1>2 DEF Life, Promise!Onward

\* Only a record's arrival at a loading handler, or the handler itself,
\* moves the answer.
LEMMA AnswerFrame ==
    ASSUME NEW s \in Reqs, pc'[s] = pc[s], out'[s] = out[s],
           reply'[s] = reply[s] \/ pc[s] # "load"
    PROVE  AnswerOf(s)' = AnswerOf(s)
  BY DEF AnswerOf

\* A record that is there admits.
LEMMA LoadAdmits ==
    ASSUME TypeOK, NEW r \in Reqs, LoadExec(r)
    PROVE  /\ UNCHANGED <<session, spoiled, now, pc, out>>
           /\ \A s \in Reqs : s # r => reply'[s] = reply[s]
           /\ \/ AnswerOf(r)' = AnswerOf(r)
              \/ AnswerOf(r) = "waiting" /\ AnswerOf(r)' = "admitted" /\ Life # "gone"
  <1>1. UNCHANGED <<session, spoiled, now, pc, out>> /\ reply' = [reply EXCEPT ![r] = Hmget]
    BY DEF LoadExec, store, bff, locals
  <1>2. reply'[r] = Hmget /\ \A s \in Reqs : s # r => reply'[s] = reply[s]
    BY <1>1 DEF TypeOK
  <1>3. reply[r].code # "ok"
    BY DEF LoadExec, Awaits, NoReply
  <1>4. CASE pc[r] = "load" /\ session # NoSession
    <2>1. Hmget.code = "ok"
      BY <1>4 DEF Hmget
    <2> QED
      BY <1>1, <1>2, <1>3, <1>4, <2>1 DEF AnswerOf, Life
  <1>5. CASE pc[r] = "load" /\ session = NoSession
    <2>1. Hmget.code # "ok"
      BY <1>5 DEF Hmget, Answer, NoReply
    <2> QED
      BY <1>1, <1>2, <1>3, <1>5, <2>1 DEF AnswerOf
  <1>6. CASE pc[r] # "load"
    BY <1>1, <1>2, <1>6, AnswerFrame
  <1> QED
    BY <1>1, <1>2, <1>4, <1>5, <1>6

\* Only a session past its ceiling is dropped.
DropInv == \A r \in Reqs : pc[r] = "drop" => out[r] = "expired"

LEMMA DropHandler ==
    ASSUME TypeOK, NEW r \in Reqs, Handler(r) \/ Arrive(r) \/ Crash(r)
    PROVE  pc'[r] = "drop" => out'[r] = "expired"
  <1>1. ASSUME NEW p \in Phases \ {"drop"}, Begin(r, p) \/ Finish(r, p)
        PROVE  pc'[r] # "drop"
    BY <1>1 DEF Begin, Finish, TypeOK
  <1>2. {"new", "load", "reload", "recheck", "poll", "acquire", "release", "expire", "call", "ttl",
         "sleep", "done", "crashed"} \subseteq Phases \ {"drop"}
    BY DEF Phases, Active, Pending, Loads, Writes
  <1>3. ASSUME NEW o, NEW t, Return(r, o, t) \/ Unwind(r, o, t) \/ Deny(r, o)
        PROVE  pc'[r] # "drop"
    BY <1>1, <1>2, <1>3 DEF Return, Unwind, Deny
  <1>4. CASE OnLoad(r)
    <2>1. CASE Begin(r, "drop") /\ SetOut(r, "expired")
      BY <2>1 DEF SetOut, TypeOK
    <2> QED
      BY <1>1, <1>2, <1>3, <1>4, <2>1 DEF OnLoad
  <1>5. CASE OnReload(r) \/ OnRecheck(r) \/ OnCall(r) \/ OnPoll(r) \/ GiveUp(r)
    BY <1>1, <1>2, <1>3, <1>5 DEF OnReload, OnRecheck, OnCall, OnPoll, GiveUp
  <1>6. CASE OnAcquire(r) \/ Wake(r) \/ PollAgain(r) \/ Arrive(r) \/ Crash(r)
    BY <1>1, <1>2, <1>6 DEF OnAcquire, Wake, PollAgain, Arrive, Crash
  <1>7. CASE Release(r) \/ Drop(r) \/ ExpireExec(r)
    BY <1>1, <1>2, <1>7 DEF Release, AfterRelease, Drop, ExpireExec
  <1>8. CASE Ttl(r)
    <2>1. CASE pc' = [pc EXCEPT ![r] = "expire"]
      BY <2>1 DEF TypeOK
    <2> QED
      BY <1>1, <1>2, <1>8, <2>1 DEF Ttl
  <1>9. CASE Fail(r)
    BY <1>1, <1>2, <1>3, <1>9 DEF Fail, FailOutcome, AfterRelease
  <1> QED
    BY <1>4, <1>5, <1>6, <1>7, <1>8, <1>9 DEF Handler

\* A handler's step leaves the other requests alone.
LEMMA OthersStay ==
    ASSUME TypeOK, NEW r \in Reqs, Handler(r) \/ Arrive(r) \/ Crash(r), NEW s \in Reqs, s # r
    PROVE  pc'[s] = pc[s] /\ reply'[s] = reply[s] /\ out'[s] = out[s]
  BY DEF Handler, Arrive, Crash, OnLoad, OnReload, OnAcquire, OnRecheck, OnCall, Wake, OnPoll,
         PollAgain, GiveUp, Release, AfterRelease, Drop, Ttl, ExpireExec, Fail, FailOutcome, Deny,
         Return, Unwind, SetOut, Begin, Finish, locals, TypeOK

\* The servers, the clock and the writes left behind move no handler.
LEMMA HandlersStay ==
    ASSUME TypeOK,
           \/ \E r \in Reqs : SetNxExec(r) \/ AuthBff(r)
           \/ \E c \in late : LateExec(c)
           \/ Logout \/ Revoke \/ Tick \/ UNCHANGED vars
    PROVE  /\ UNCHANGED <<pc, out>>
           /\ \A s \in Reqs : reply'[s] = reply[s] \/ pc[s] # "load"
  <1>1. ASSUME NEW r \in Reqs, SetNxExec(r) \/ AuthBff(r)
        PROVE  UNCHANGED <<pc, out>> /\ \A s \in Reqs : reply'[s] = reply[s] \/ pc[s] # "load"
    BY <1>1 DEF SetNxExec, AuthBff, BffRefresh, BffRefuse, BffError, BffGarble, Respond, Awaits,
                locals, TypeOK
  <1>2. CASE (\E c \in late : LateExec(c)) \/ Logout \/ Revoke \/ Tick \/ UNCHANGED vars
    BY <1>2 DEF LateExec, Logout, Revoke, Tick, vars, locals
  <1> QED
    BY <1>1, <1>2

LEMMA DropStep == TypeOK /\ DropInv /\ [Next]_vars => DropInv'
  <1> SUFFICES ASSUME TypeOK, DropInv, [Next]_vars PROVE DropInv'
    OBVIOUS
  <1>1. CASE \E r \in Reqs : Handler(r) \/ Arrive(r) \/ Crash(r)
    BY <1>1, DropHandler, OthersStay DEF DropInv
  <1>2. CASE \E r \in Reqs : LoadExec(r)
    BY <1>2, LoadAdmits DEF DropInv
  <1>3. CASE ~(\E r \in Reqs : Handler(r) \/ Arrive(r) \/ Crash(r) \/ LoadExec(r))
    <2>1. UNCHANGED <<pc, out>>
      BY <1>3, HandlersStay DEF Next, Step, Valkey
    <2> QED
      BY <2>1 DEF DropInv
  <1> QED
    BY <1>1, <1>2, <1>3

\* What a handler's step does to its own answer.
Turns(r) ==
    \/ AnswerOf(r)' = AnswerOf(r)
    \/ AnswerOf(r) = "admitted" /\ AnswerOf(r)' = "forwarded" /\ UNCHANGED Life
    \/ AnswerOf(r) \in {"waiting", "admitted"} /\ AnswerOf(r)' = "refused" /\ Dead
    \/ AnswerOf(r) \in {"waiting", "admitted"} /\ AnswerOf(r)' \in {"unavailable", "lost"}
       /\ UNCHANGED Life

\* Past its own load, a handler is open until it is done.
LEMMA PastLoad ==
    ASSUME NEW r \in Reqs, pc[r] \notin {"new", "load", "done", "crashed"}
    PROVE  AnswerOf(r) = "admitted"
  BY DEF AnswerOf

LEMMA Continues ==
    ASSUME NEW r \in Reqs, AnswerOf(r) = "admitted",
           pc'[r] \notin {"new", "load", "done", "crashed"}
    PROVE  Turns(r)
  BY DEF AnswerOf, Turns

\* A handler ends on the outcome it has; a 401 needs a session that is over.
LEMMA Concludes ==
    ASSUME DeadInv', NEW r \in Reqs, UNCHANGED Life, Dead' => Dead, pc'[r] = "done",
           \/ AnswerOf(r) = "admitted"
           \/ AnswerOf(r) = "waiting" /\ out'[r] \notin {"hit", "refreshed"}
    PROVE  Turns(r)
  <1>1. out'[r] \in Denied401 => Dead
    BY DEF DeadInv, DeadReq
  <1>2. \/ out'[r] \in {"hit", "refreshed"} /\ AnswerOf(r)' = "forwarded"
        \/ out'[r] \in Denied401 /\ AnswerOf(r)' = "refused"
        \/ out'[r] \notin {"hit", "refreshed"} \cup Denied401 /\ AnswerOf(r)' = "unavailable"
    BY DEF AnswerOf, Denied401
  <1> QED
    BY <1>1, <1>2 DEF Turns

LEMMA HandlerTurns ==
    ASSUME TypeOK, TypeOK', DeadInv, DeadInv', DropInv, NEW r \in Reqs,
           Handler(r) \/ Arrive(r) \/ Crash(r)
    PROVE  Turns(r)
  <1> DEFINE Kept == UNCHANGED Life /\ (Dead' => Dead)
  <1>1. UNCHANGED <<now, session, spoiled>> => Kept
    BY DEF Life, Dead
  <1>2. ASSUME NEW p \in Phases \ {"new", "load", "done", "crashed"}, Begin(r, p), pc[r] # "load",
               pc[r] \notin {"new", "done", "crashed"}
        PROVE  Turns(r)
    <2>1. pc'[r] = p
      BY <1>2 DEF Begin, TypeOK
    <2> QED
      BY <1>2, <2>1, PastLoad, Continues
  <1>3. {"ttl", "drop", "reload", "recheck", "poll", "acquire", "release", "expire", "call", "sleep"}
        \subseteq Phases \ {"new", "load", "done", "crashed"}
    BY DEF Phases, Active, Pending, Loads, Writes
  <1>4. ASSUME Finish(r, "done"), Kept, pc[r] \notin {"new", "load", "done", "crashed"}
        PROVE  Turns(r)
    <2>1. pc'[r] = "done"
      BY <1>4 DEF Finish, TypeOK
    <2> QED
      BY <1>4, <2>1, PastLoad, Concludes
  <1>5. ASSUME NEW o, NEW t, Return(r, o, t) \/ Unwind(r, o, t), Kept,
               pc[r] \notin {"new", "load", "done", "crashed"}
        PROVE  Turns(r)
    BY <1>2, <1>3, <1>4, <1>5 DEF Return, Unwind
  <1>6. CASE Arrive(r)
    BY <1>6 DEF Arrive, Begin, NoReply, AnswerOf, Turns, TypeOK
  <1>7. CASE OnLoad(r) \/ (Fail(r) /\ pc[r] = "load")
    <2>1. Kept /\ pc[r] = "load"
      BY <1>1, <1>7 DEF OnLoad, Has, Fail, store, bff
    <2>2. AnswerOf(r) = IF reply[r].code # "ok" THEN "waiting" ELSE "admitted"
      BY <2>1 DEF AnswerOf
    <2>3. ASSUME NEW o \in {"miss", "store_error"}, Deny(r, o) PROVE Turns(r)
      <3>1. pc'[r] = "done" /\ out'[r] = o
        BY <2>3 DEF Deny, Finish, SetOut, TypeOK
      <3> QED
        BY <2>1, <2>2, <2>3, <3>1, Concludes
    <2>4. ASSUME NEW p \in {"drop", "ttl", "reload"}, Begin(r, p), reply[r].code = "ok"
          PROVE  Turns(r)
      <3>1. pc'[r] = p
        BY <2>4 DEF Begin, TypeOK
      <3> QED
        BY <2>2, <2>4, <3>1, Continues
    <2> QED
      BY <1>7, <2>1, <2>3, <2>4 DEF OnLoad, Fail, FailOutcome
  <1>8. CASE OnReload(r) \/ OnPoll(r) \/ GiveUp(r)
    <2>1. Kept /\ pc[r] \in {"reload", "poll"}
      BY <1>1, <1>8 DEF OnReload, OnPoll, GiveUp, Has, store, bff
    <2> QED
      BY <1>2, <1>3, <1>5, <1>8, <2>1 DEF OnReload, OnPoll, GiveUp
  <1>9. CASE OnRecheck(r) \/ OnCall(r)
    <2>1. Kept /\ pc[r] \in {"recheck", "call"}
      BY <1>1, <1>9 DEF OnRecheck, OnCall, Has, store, bff
    <2> QED
      BY <1>2, <1>3, <1>5, <1>9, <2>1 DEF OnRecheck, OnCall
  <1>10. CASE OnAcquire(r) \/ Wake(r) \/ PollAgain(r)
    BY <1>2, <1>3, <1>10 DEF OnAcquire, Wake, PollAgain, Has
  <1>11. CASE Release(r) \/ (Fail(r) /\ pc[r] = "release")
    <2>1. Kept /\ pc[r] = "release" /\ AfterRelease(r)
      BY <1>1, <1>11 DEF Release, Fail, FailOutcome, bff
    <2> QED
      BY <1>2, <1>3, <1>4, <2>1 DEF AfterRelease
  <1>12. CASE Drop(r)
    <2>1. pc[r] = "drop" /\ pc'[r] = "done" /\ out'[r] = "expired" /\ Dead
      BY <1>12 DEF Drop, Finish, locals, DropInv, DeadInv, DeadReq, TypeOK
    <2>2. AnswerOf(r) = "admitted" /\ AnswerOf(r)' = "refused"
      BY <2>1 DEF AnswerOf, Denied401
    <2> QED
      BY <2>1, <2>2 DEF Turns
  <1>13. CASE Ttl(r)
    <2>1. Kept /\ pc[r] = "ttl"
      BY <1>1, <1>13 DEF Ttl, store, bff
    <2>2. CASE pc' = [pc EXCEPT ![r] = "expire"]
      BY <2>1, <2>2, PastLoad, Continues DEF TypeOK
    <2> QED
      BY <1>4, <1>13, <2>1, <2>2 DEF Ttl
  <1>14. CASE ExpireExec(r)
    <2>1. pc[r] = "expire" /\ Finish(r, "done") /\ Expire /\ UNCHANGED <<now, spoiled>>
      BY <1>14 DEF ExpireExec, bff
    <2>2. /\ session = NoSession <=> session' = NoSession
          /\ session' # NoSession => session'.abs = session.abs
      <3>1. CASE session # NoSession
        <4>1. session'.expires = now + IdleTTL /\ session'.abs = session.abs
          BY <2>1, <3>1 DEF Expire, TypeOK, Session
        <4>2. IdleTTL \in Nat /\ IdleTTL # 0
          BY TimesAssumption
        <4>3. session'.expires > 0
          BY <4>1, <4>2 DEF TypeOK
        <4> QED
          BY <3>1, <4>1, <4>3 DEF NoSession
      <3> QED
        BY <2>1, <3>1 DEF Expire
    <2>3. Kept
      BY <2>1, <2>2 DEF Life, Dead
    <2> QED
      BY <1>4, <2>1, <2>3
  <1>15. CASE Fail(r) /\ pc[r] \notin {"load", "release"}
    <2>1. Kept
      BY <1>1, <1>15 DEF Fail
    <2>2. FailOutcome(r)
      BY <1>15 DEF Fail
    <2> QED
      BY <1>4, <1>5, <1>15, <2>1, <2>2 DEF FailOutcome
  <1>16. CASE Crash(r)
    <2>1. Kept /\ pc'[r] = "crashed" /\ pc[r] \in Active
      BY <1>1, <1>16 DEF Crash, Finish, TypeOK
    <2>2. AnswerOf(r)' = "lost" /\ AnswerOf(r) \in {"waiting", "admitted"}
      BY <2>1 DEF AnswerOf, Active, Pending, Loads, Writes
    <2> QED
      BY <2>1, <2>2 DEF Turns
  <1> QED
    BY <1>6, <1>7, <1>8, <1>9, <1>10, <1>11, <1>12, <1>13, <1>14, <1>15, <1>16 DEF Handler

\* Every step is one of the promise's, or none.
LEMMA PromiseStep ==
    ASSUME TypeOK, TypeOK', DeadInv, DeadInv', DropInv, [Next]_vars
    PROVE  [Promise!PNext]_(Promise!pvars)
  <1> DEFINE answer == [s \in Reqs |-> AnswerOf(s)]
  <1>1. Life' \in Promise!Onward(Life)
    BY DeadStep, LifeAges
  <1>2. ASSUME NEW r \in Reqs, \A s \in Reqs : s # r => AnswerOf(s)' = AnswerOf(s)
        PROVE  answer' = [answer EXCEPT ![r] = AnswerOf(r)']
    BY <1>2
  <1>3. CASE \E r \in Reqs : Handler(r) \/ Arrive(r) \/ Crash(r)
    <2>1. PICK r \in Reqs : Handler(r) \/ Arrive(r) \/ Crash(r)
      BY <1>3
    <2>2. answer' = [answer EXCEPT ![r] = AnswerOf(r)']
      BY <2>1, <1>2, OthersStay, AnswerFrame
    <2>3. Turns(r)
      BY <2>1, HandlerTurns
    <2>4. answer[r] = AnswerOf(r) /\ Life \in {"live", "doomed", "gone"} /\ (Dead <=> Life # "live")
      BY DEF Life, Dead
    <2>5. CASE AnswerOf(r)' = AnswerOf(r)
      BY <1>1, <2>2, <2>5 DEF Promise!PNext, Promise!Fade
    <2>6. CASE AnswerOf(r) = "admitted" /\ AnswerOf(r)' = "forwarded" /\ UNCHANGED Life
      <3>1. Promise!Forward(r)
        BY <2>2, <2>4, <2>6 DEF Promise!Forward, Promise!Becomes
      <3> QED
        BY <3>1 DEF Promise!PNext
    <2>7. CASE AnswerOf(r) \in {"waiting", "admitted"} /\ AnswerOf(r)' = "refused" /\ Dead
      <3>1. Promise!Refuse(r)
        BY <1>1, <2>2, <2>4, <2>7 DEF Promise!Refuse, Promise!Becomes, Promise!Open
      <3> QED
        BY <3>1 DEF Promise!PNext
    <2>8. CASE /\ AnswerOf(r) \in {"waiting", "admitted"}
               /\ AnswerOf(r)' \in {"unavailable", "lost"} /\ UNCHANGED Life
      <3>1. Promise!Abandon(r)
        BY <2>2, <2>4, <2>8 DEF Promise!Abandon, Promise!Becomes, Promise!Open
      <3> QED
        BY <3>1 DEF Promise!PNext
    <2> QED
      BY <2>3, <2>5, <2>6, <2>7, <2>8 DEF Turns
  <1>4. CASE \E r \in Reqs : LoadExec(r)
    <2>1. PICK r \in Reqs : LoadExec(r)
      BY <1>4
    <2>2. answer' = [answer EXCEPT ![r] = AnswerOf(r)'] /\ answer[r] = AnswerOf(r)
      BY <2>1, <1>2, LoadAdmits, AnswerFrame
    <2>3. UNCHANGED Life
      BY <2>1, LoadAdmits DEF Life, Dead
    <2>4. CASE AnswerOf(r)' = AnswerOf(r)
      BY <1>1, <2>2, <2>4 DEF Promise!PNext, Promise!Fade
    <2>5. CASE AnswerOf(r) = "waiting" /\ AnswerOf(r)' = "admitted" /\ Life # "gone"
      <3>1. Promise!Admit(r)
        BY <2>2, <2>3, <2>5 DEF Promise!Admit, Promise!Becomes
      <3> QED
        BY <3>1 DEF Promise!PNext
    <2> QED
      BY <2>1, <2>4, <2>5, LoadAdmits
  <1>5. CASE ~(\E r \in Reqs : Handler(r) \/ Arrive(r) \/ Crash(r) \/ LoadExec(r))
    <2>1. answer' = answer
      BY <1>5, HandlersStay, AnswerFrame DEF Next, Step, Valkey
    <2> QED
      BY <1>1, <2>1 DEF Promise!PNext, Promise!Fade
  <1> QED
    BY <1>3, <1>4, <1>5

\* The resolver implements SessionPromise.
THEOREM ImplementsPromiseHolds == Spec => ImplementsPromise
  <1>1. Init => Promise!PInit
    BY DEF Init, Promise!PInit, Life, AnswerOf
  <1>2. Init => DropInv
    BY DEF Init, DropInv
  <1>3. TypeOK /\ TypeOK' /\ DeadInv /\ [Next]_vars => DeadInv'
    BY DeadStep
  <1> QED
    BY <1>1, <1>2, <1>3, TypeCorrect, DeadInit, DropStep, PromiseStep, PTL
       DEF Spec, ImplementsPromise, Promise!PSpec

\* A request that no record has admitted, in a session that is over
Shut(r) == session = NoSession /\ AnswerOf(r) \in {"waiting", "refused", "unavailable", "lost"}

\* The promise never opens it again.
LEMMA ShutStays ==
    ASSUME NEW r \in Reqs, Shut(r), [Promise!PNext]_(Promise!pvars)
    PROVE  Shut(r)'
  <1> DEFINE answer == [q \in Reqs |-> AnswerOf(q)]
  <1>1. Life = "gone" /\ answer[r] \in {"waiting", "refused", "unavailable", "lost"}
    BY DEF Shut, Life
  <1>2. answer[r] = AnswerOf(r) /\ answer'[r] = AnswerOf(r)'
    OBVIOUS
  <1> HIDE DEF answer
  <1>3. Life' = "gone"
    BY <1>1 DEF Promise!PNext, Promise!pvars, Promise!Admit, Promise!Forward, Promise!Refuse,
                Promise!Abandon, Promise!Fade, Promise!Onward
  <1>4. answer'[r] \in {"waiting", "refused", "unavailable", "lost"}
    <2>1. CASE \E q \in Reqs : Promise!Admit(q) \/ Promise!Forward(q) \/ Promise!Refuse(q)
                                  \/ Promise!Abandon(q)
      <3>1. PICK q \in Reqs : \/ Promise!Admit(q) \/ Promise!Forward(q)
                              \/ Promise!Refuse(q) \/ Promise!Abandon(q)
        BY <2>1
      <3>2. ~Promise!Admit(q)
        BY <1>1 DEF Promise!Admit
      <3>3. CASE Promise!Forward(q)
        <4>1. q # r /\ answer' = [answer EXCEPT ![q] = "forwarded"]
          BY <1>1, <3>3 DEF Promise!Forward, Promise!Becomes, answer
        <4> QED
          BY <1>1, <4>1 DEF answer
      <3>4. CASE Promise!Refuse(q) \/ Promise!Abandon(q)
        <4>1. PICK a \in {"refused", "unavailable", "lost"} : answer' = [answer EXCEPT ![q] = a]
          BY <3>4 DEF Promise!Refuse, Promise!Abandon, Promise!Becomes, answer
        <4> QED
          BY <1>1, <4>1 DEF answer
      <3> QED
        BY <3>1, <3>2, <3>3, <3>4
    <2>2. CASE Promise!Fade \/ UNCHANGED Promise!pvars
      BY <1>1, <2>2 DEF Promise!Fade, Promise!pvars, answer
    <2> QED
      BY <2>1, <2>2 DEF Promise!PNext
  <1>5. session' = NoSession
    BY <1>3 DEF Life
  <1> QED
    BY <1>2, <1>4, <1>5 DEF Shut

\* Logged out is logged out: once the record is gone, no request that arrives
\* later is ever forwarded, whatever polls, refreshes, late writes and crashes
\* of earlier ones were under way.
THEOREM LoggedOutStaysOut ==
    ASSUME NEW r \in Reqs
    PROVE  Spec => [](session = NoSession /\ pc[r] = "new"
                        => [](pc[r] = "done" => out[r] \notin {"hit", "refreshed"}))
  <1>1. Shut(r) /\ [Promise!PNext]_(Promise!pvars) => Shut(r)'
    BY ShutStays
  <1>2. session = NoSession /\ pc[r] = "new" => Shut(r)
    BY DEF Shut, AnswerOf
  <1>3. Shut(r) => (pc[r] = "done" => out[r] \notin {"hit", "refreshed"})
    <2>1. pc[r] = "done" /\ out[r] \in {"hit", "refreshed"} => AnswerOf(r) = "forwarded"
      BY DEF AnswerOf, Denied401
    <2> QED
      BY <2>1 DEF Shut
  <1> QED
    BY <1>1, <1>2, <1>3, ImplementsPromiseHolds, PTL DEF ImplementsPromise, Promise!PSpec

=============================================================================
