--------------------------- MODULE TokenGateProofs ---------------------------
(***************************************************************************)
(* How long the gate admits a revoked token as active and honours a        *)
(* withdrawn key, what it denies a token for, and how long it turns        *)
(* everyone away once Keycloak can be had, for every set of requests and   *)
(* all durations.                                                          *)
(***************************************************************************)
EXTENDS TokenGate, TLAPS

\* When the clock reads now, a call to Keycloak was sent when its request
\* came and has not outlived its timeout.
CallsInTime ==
    \A r \in Reqs :
        /\ arrived[r] <= now
        /\ pc[r] = "verified" => arrived[r] = now
        /\ pc[r] = "asking" => now <= dl[r] /\ dl[r] = arrived[r] + Timeout
        /\ reply[r] # "none" => pc[r] = "asking"

\* An answer on its way, and a verdict in the cache, are as old as their
\* deadlines say; "active" was not said after the revocation, "inactive" not
\* before.
AnswersInTime ==
    \A r \in Reqs :
        /\ reply[r] = "active" /\ revoked # Never => dl[r] <= revoked + Timeout
        /\ reply[r] = "inactive" => revoked # Never

CacheInTime ==
    /\ cache.expires <= now + TTL
    /\ cache.verdict = "active" /\ revoked # Never => cache.expires <= revoked + Timeout + TTL
    /\ cache.verdict = "inactive" /\ cache.expires > 0 => revoked # Never

GateInv == TypeOK /\ CallsInTime /\ AnswersInTime /\ CacheInTime /\ RevocationBounded /\ DeniedForCause

LEMMA Plain ==
    /\ TTL \in Nat /\ MaxFailures \in Nat /\ LastChange \in Nat /\ MaxTime \in Nat
    /\ Timeout \in Nat /\ Timeout > 0 /\ CacheTTL \in Nat
    /\ RetryDelay \in Nat /\ FetchTimeout \in Nat
  BY TimesAssumption

USE DEF Never, Verdicts, Outcomes, KeySet

LEMMA InitHolds == Init => GateInv
  BY Plain DEF Init, GateInv, TypeOK, CallsInTime, AnswersInTime, CacheInTime,
               RevocationBounded, DeniedForCause

\* The goroutine touches nothing the request's side of the invariant reads.
LEMMA KeysStep ==
    ASSUME GateInv, Served \/ Install \/ FetchFails \/ Reread PROVE GateInv'
  <1>1. TypeOK'
    BY Plain DEF GateInv, TypeOK, Served, Install, FetchFails, Reread, reqs
  <1>2. UNCHANGED <<now, revoked, cache, pc, arrived, dl, reply, out>>
    BY DEF Served, Install, FetchFails, Reread, reqs
  <1> QED
    BY <1>1, <1>2 DEF GateInv, CallsInTime, AnswersInTime, CacheInTime,
                      RevocationBounded, DeniedForCause

LEMMA ArriveStep ==
    ASSUME GateInv, NEW r \in Reqs, Arrive(r) PROVE GateInv'
  <1>1. TypeOK'
    BY DEF GateInv, TypeOK, Arrive, keys
  <1>2. CallsInTime'
    BY DEF GateInv, TypeOK, CallsInTime, Arrive
  <1>3. AnswersInTime' /\ CacheInTime'
    BY DEF GateInv, AnswersInTime, CacheInTime, Arrive
  <1>4. RevocationBounded' /\ DeniedForCause'
    BY DEF GateInv, TypeOK, RevocationBounded, DeniedForCause, Arrive
  <1> QED
    BY <1>1, <1>2, <1>3, <1>4 DEF GateInv

\* A hit came before the entry's deadline, which the revocation bounds.
LEMMA LookupStep ==
    ASSUME GateInv, NEW r \in Reqs, Lookup(r) PROVE GateInv'
  <1> USE Plain
  <1>1. TypeOK'
    BY DEF GateInv, TypeOK, Lookup, Finish, keys
  <1>2. CallsInTime'
    BY DEF GateInv, TypeOK, CallsInTime, Lookup, Finish
  <1>3. AnswersInTime' /\ CacheInTime'
    BY DEF GateInv, TypeOK, CallsInTime, AnswersInTime, CacheInTime, Lookup, Finish
  <1>4. CASE ~Hit
    BY <1>1, <1>2, <1>3, <1>4 DEF GateInv, RevocationBounded, DeniedForCause, Lookup
  <1>5. CASE Hit
    <2>1. /\ out' = [out EXCEPT ![r] = cache.verdict]
          /\ UNCHANGED <<arrived, revoked>>
          /\ arrived[r] = now /\ now < cache.expires
      BY <1>5 DEF GateInv, CallsInTime, Lookup, Finish, Hit
    <2>2. RevocationBounded'
      BY <2>1 DEF GateInv, TypeOK, CacheInTime, RevocationBounded
    <2>3. DeniedForCause'
      BY <2>1 DEF GateInv, TypeOK, CacheInTime, DeniedForCause
    <2> QED
      BY <1>1, <1>2, <1>3, <2>2, <2>3 DEF GateInv
  <1> QED
    BY <1>4, <1>5

LEMMA IntrospectStep ==
    ASSUME GateInv, NEW r \in Reqs, Introspect(r) PROVE GateInv'
  <1>1. TypeOK'
    BY DEF GateInv, TypeOK, Introspect, keys
  <1>2. CallsInTime'
    BY DEF GateInv, TypeOK, CallsInTime, Introspect
  <1>3. AnswersInTime'
    BY DEF GateInv, TypeOK, AnswersInTime, Introspect
  <1>4. CacheInTime' /\ RevocationBounded' /\ DeniedForCause'
    BY DEF GateInv, CacheInTime, RevocationBounded, DeniedForCause, Introspect
  <1> QED
    BY <1>1, <1>2, <1>3, <1>4 DEF GateInv

\* The entry it stores outlives the revocation by a call and a TTL at most.
LEMMA OnAnswerStep ==
    ASSUME GateInv, NEW r \in Reqs, OnAnswer(r) PROVE GateInv'
  <1> USE Plain
  <1> DEFINE v == reply[r]
  <1>1. /\ v \in Verdicts /\ pc[r] = "asking"
        /\ now <= dl[r] /\ dl[r] = arrived[r] + Timeout
        /\ v = "active" /\ revoked # Never => dl[r] <= revoked + Timeout
        /\ v = "inactive" => revoked # Never
    BY DEF GateInv, TypeOK, CallsInTime, AnswersInTime, OnAnswer
  <1>2. /\ cache' = IF TTL = 0 THEN cache ELSE [verdict |-> v, expires |-> now + TTL]
        /\ pc' = [pc EXCEPT ![r] = "done"]
        /\ out' = [out EXCEPT ![r] = v]
        /\ reply' = [reply EXCEPT ![r] = "none"]
        /\ dl' = [dl EXCEPT ![r] = 0]
        /\ UNCHANGED <<now, revoked, withdrawn, up, keys, arrived>>
    BY DEF OnAnswer, Store, Finish
  <1> HIDE DEF v
  <1>3. TypeOK'
    BY <1>1, <1>2 DEF GateInv, TypeOK, keys
  <1>4. CallsInTime'
    BY <1>2 DEF GateInv, TypeOK, CallsInTime
  <1>5. AnswersInTime'
    BY <1>2 DEF GateInv, TypeOK, AnswersInTime
  <1>6. CacheInTime'
    BY <1>1, <1>2 DEF GateInv, TypeOK, CacheInTime
  <1>7. RevocationBounded'
    BY <1>1, <1>2 DEF GateInv, TypeOK, RevocationBounded
  <1>8. DeniedForCause'
    BY <1>1, <1>2 DEF GateInv, TypeOK, DeniedForCause
  <1> QED
    BY <1>3, <1>4, <1>5, <1>6, <1>7, <1>8 DEF GateInv

LEMMA OnErrorStep ==
    ASSUME GateInv, NEW r \in Reqs, OnError(r) PROVE GateInv'
  <1>1. TypeOK'
    BY DEF GateInv, TypeOK, OnError, Finish, keys
  <1>2. CallsInTime' /\ AnswersInTime'
    BY DEF GateInv, TypeOK, CallsInTime, AnswersInTime, OnError, Finish
  <1>3. CacheInTime' /\ RevocationBounded' /\ DeniedForCause'
    BY DEF GateInv, TypeOK, CacheInTime, RevocationBounded, DeniedForCause, OnError, Finish
  <1> QED
    BY <1>1, <1>2, <1>3 DEF GateInv

\* At the revocation every deadline is at most a call and a TTL away.
LEMMA WorldStep ==
    ASSUME GateInv, Revoke \/ Withdraw \/ GoDown \/ ComeUp PROVE GateInv'
  <1> USE Plain
  <1>1. TypeOK'
    BY DEF GateInv, TypeOK, Revoke, Withdraw, GoDown, ComeUp, keys, reqs
  <1>2. UNCHANGED <<now, cache, pc, arrived, dl, reply, out>>
    BY DEF Revoke, Withdraw, GoDown, ComeUp, reqs
  <1>3. revoked' \in {revoked, now} /\ (revoked # Never => revoked' = revoked)
    BY DEF Revoke, Withdraw, GoDown, ComeUp
  <1>4. CallsInTime'
    BY <1>2 DEF GateInv, CallsInTime
  <1>5. AnswersInTime'
    BY <1>2, <1>3 DEF GateInv, TypeOK, CallsInTime, AnswersInTime
  <1>6. CacheInTime'
    BY <1>2, <1>3 DEF GateInv, TypeOK, CacheInTime
  <1>7. RevocationBounded' /\ DeniedForCause'
    BY <1>2, <1>3 DEF GateInv, TypeOK, CallsInTime, RevocationBounded, DeniedForCause
  <1> QED
    BY <1>1, <1>4, <1>5, <1>6, <1>7 DEF GateInv

LEMMA TickStep == ASSUME GateInv, Tick PROVE GateInv'
  <1> USE Plain
  <1>1. TypeOK'
    BY DEF GateInv, TypeOK, Tick, keys, reqs
  <1>2. CallsInTime'
    BY DEF GateInv, TypeOK, CallsInTime, Tick, reqs
  <1>3. AnswersInTime' /\ CacheInTime' /\ RevocationBounded' /\ DeniedForCause'
    BY DEF GateInv, TypeOK, AnswersInTime, CacheInTime, RevocationBounded, DeniedForCause, Tick, reqs
  <1> QED
    BY <1>1, <1>2, <1>3 DEF GateInv

LEMMA NextHolds == GateInv /\ [Next]_vars => GateInv'
  <1> SUFFICES ASSUME GateInv, [Next]_vars PROVE GateInv'
    OBVIOUS
  <1>1. ASSUME NEW r \in Reqs, Handler(r) PROVE GateInv'
    BY <1>1, ArriveStep, LookupStep, IntrospectStep, OnAnswerStep, OnErrorStep DEF Handler
  <1>2. CASE UNCHANGED vars
    BY <1>2 DEF GateInv, TypeOK, CallsInTime, AnswersInTime, CacheInTime,
                RevocationBounded, DeniedForCause, vars, keys, reqs
  <1> QED
    BY <1>1, <1>2, KeysStep, WorldStep, TickStep DEF Next

\* The inductive invariant: no call, verdict or admission of introspector.active
\* is older than the revocation and the durations allow.
THEOREM GateHolds == Spec => []GateInv
  BY InitHolds, NextHolds, PTL DEF Spec

\* The variables keep their types.
THEOREM TypeCorrect == Spec => []TypeOK
  <1>1. GateInv => TypeOK
    BY DEF GateInv
  <1> QED
    BY <1>1, GateHolds, PTL

\* Whatever the durations and the number of requests, a revoked token is only
\* admitted as active (and not for an error of the endpoint) when it came less than one introspection call and one
\* cache TTL after the revocation (main.go: introspector.active).
THEOREM RevocationBoundedHolds == Spec => []RevocationBounded
  <1>1. GateInv => RevocationBounded
    BY DEF GateInv
  <1> QED
    BY <1>1, GateHolds, PTL

\* Only Keycloak's own verdict denies a token as inactive, never an error or
\* a cached one (main.go: the fail-open branch).
THEOREM DeniedForCauseHolds == Spec => []DeniedForCause
  <1>1. GateInv => DeniedForCause
    BY DEF GateInv
  <1> QED
    BY <1>1, GateHolds, PTL

-----------------------------------------------------------------------------
(* The withdrawn key.                                                      *)

\* A failed fetch costs this much.
Delay == RetryDelay + FetchTimeout

\* The next fetch is never far away, is over in time, and finds a withdrawn
\* key gone; only failures put it off.
KeysInTime ==
    /\ wake <= now + CacheTTL + failures * Delay
    /\ now <= wake + FetchTimeout
    /\ fetched # "none" => wake <= now
    /\ fetched = "signed" /\ withdrawn # Never => wake <= withdrawn
    /\ jwks = "signed" /\ withdrawn # Never =>
          wake <= withdrawn + FetchTimeout + CacheTTL + failures * Delay

KeyInv == KeysInTime /\ WithdrawalBounded

LEMMA Products ==
    ASSUME NEW n \in 0..MaxFailures
    PROVE  /\ n * Delay \in Nat /\ Delay \in Nat
           /\ (n + 1) * Delay = n * Delay + Delay
           /\ n * Delay <= MaxFailures * Delay
  <1>1. Delay \in Nat /\ MaxFailures \in Nat
    BY Plain DEF Delay
  <1>2. \A a, b, c \in Nat : a <= b => a * c <= b * c
    BY SMT
  <1>3. \A a, b \in Nat : a * b \in Nat /\ (a + 1) * b = a * b + b
    BY SMT
  <1> QED
    BY <1>1, <1>2, <1>3

LEMMA KeyInitHolds == Init => KeyInv
  BY Plain, Products DEF Init, KeyInv, KeysInTime, WithdrawalBounded, Delay

LEMMA KeyStep == GateInv /\ TypeOK' /\ KeyInv /\ [Next]_vars => KeyInv'
  <1> SUFFICES ASSUME GateInv, TypeOK', KeyInv, [Next]_vars PROVE KeyInv'
    OBVIOUS
  <1> DEFINE d == failures * Delay  m == MaxFailures * Delay
  <1>0. /\ d \in Nat /\ m \in Nat /\ Delay \in Nat /\ d <= m
        /\ (failures + 1) * Delay = d + Delay
        /\ Delay = RetryDelay + FetchTimeout
        /\ failures \in Nat
    BY Products, Plain DEF GateInv, TypeOK, Delay
  <1>1. /\ wake <= now + CacheTTL + d
        /\ now <= wake + FetchTimeout
        /\ fetched # "none" => wake <= now
        /\ fetched = "signed" /\ withdrawn # Never => wake <= withdrawn
        /\ jwks = "signed" /\ withdrawn # Never => wake <= withdrawn + FetchTimeout + CacheTTL + d
    BY DEF KeyInv, KeysInTime
  <1> TypeOK
    BY DEF GateInv
  <1>2. /\ now \in Nat /\ wake \in Nat /\ withdrawn \in Nat \cup {Never}
        /\ wake' \in Nat /\ arrived \in [Reqs -> Nat]
    BY DEF TypeOK
  <1> HIDE DEF d, m
  <1>3. ASSUME UNCHANGED failures,
               wake' <= now' + CacheTTL + d /\ now' <= wake' + FetchTimeout,
               fetched' # "none" => wake' <= now',
               fetched' = "signed" /\ withdrawn' # Never => wake' <= withdrawn',
               jwks' = "signed" /\ withdrawn' # Never =>
                  wake' <= withdrawn' + FetchTimeout + CacheTTL + d
        PROVE  KeysInTime'
    BY <1>3 DEF KeysInTime, Delay, d
  <1>4. ASSUME UNCHANGED <<arrived, pc, withdrawn>> PROVE WithdrawalBounded'
    BY <1>4 DEF KeyInv, WithdrawalBounded
  <1>5. CASE Served
    BY <1>1, <1>2, <1>3, <1>4, <1>5 DEF KeyInv, Served, reqs
  <1>6. CASE Install
    <2>1. KeysInTime'
      BY <1>0, <1>1, <1>2, <1>3, <1>6, Plain DEF Install
    <2> QED
      BY <2>1, <1>4, <1>6 DEF KeyInv, Install, reqs
  <1>7. CASE FetchFails
    <2>1. failures' * Delay = d + Delay
      BY <1>0, <1>7 DEF FetchFails
    <2>2. KeysInTime'
      <3> DEFINE e == failures' * Delay
      <3>1. e = d + RetryDelay + FetchTimeout
        BY <2>1, <1>0, Plain
      <3>2. Delay' = Delay
        BY DEF Delay
      <3> HIDE DEF e
      <3>3. /\ wake' <= now' + CacheTTL + e
            /\ now' <= wake' + FetchTimeout
            /\ fetched' = "none"
            /\ jwks' = "signed" /\ withdrawn' # Never =>
                  wake' <= withdrawn' + FetchTimeout + CacheTTL + e
        BY <1>0, <1>1, <1>2, <1>7, <3>1, Plain DEF FetchFails
      <3> QED
        BY <3>2, <3>3 DEF KeysInTime, e
    <2> QED
      BY <2>2, <1>4, <1>7 DEF KeyInv, FetchFails, reqs
  <1>8. ASSUME NEW r \in Reqs, Handler(r) PROVE KeyInv'
    <2>1. UNCHANGED <<now, withdrawn, jwks, fetched, wake, failures>>
      BY <1>8 DEF Handler, Arrive, Lookup, Introspect, OnAnswer, OnError, keys
    <2>2. KeysInTime'
      BY <1>1, <1>3, <2>1
    <2>3. CASE Arrive(r)
      <3>1. \/ jwks = "signed" /\ arrived' = [arrived EXCEPT ![r] = now]
               /\ pc' = [pc EXCEPT ![r] = "verified"]
            \/ arrived' = [arrived EXCEPT ![r] = now] /\ pc' = [pc EXCEPT ![r] = "done"]
        BY <2>3 DEF Arrive
      <3>2. jwks = "signed" /\ withdrawn # Never =>
               now <= withdrawn + CacheTTL + 2 * FetchTimeout + m
        BY <1>0, <1>1, <1>2, Plain
      <3> QED
        BY <2>1, <2>2, <3>1, <3>2 DEF KeyInv, WithdrawalBounded, TypeOK, Delay, m
    <2>4. CASE ~Arrive(r)
      <3>1. UNCHANGED arrived /\ \A q \in Reqs : pc'[q] = "verified" => pc[q] = "verified"
        BY <1>8, <2>4 DEF Handler, Lookup, Introspect, OnAnswer, OnError, Finish, TypeOK
      <3> QED
        BY <2>1, <2>2, <3>1 DEF KeyInv, WithdrawalBounded
    <2> QED
      BY <2>3, <2>4
  <1>9. CASE Revoke \/ GoDown \/ ComeUp
    <2>1. UNCHANGED <<now, withdrawn, jwks, fetched, wake, failures, arrived, pc>>
      BY <1>9 DEF Revoke, GoDown, ComeUp, keys, reqs
    <2> QED
      BY <2>1, <1>1, <1>3, <1>4 DEF KeyInv
  <1>10. CASE Withdraw
    <2>1. KeysInTime'
      BY <1>0, <1>1, <1>2, <1>3, <1>10, Plain DEF Withdraw, keys
    <2>2. \A r \in Reqs : pc[r] = "verified" => arrived[r] <= now
      BY DEF GateInv, CallsInTime
    <2> QED
      BY <2>1, <2>2, <1>0, <1>2, <1>10, Plain DEF KeyInv, WithdrawalBounded, Withdraw, keys, reqs
  <1>11. CASE Tick
    <2>1. KeysInTime'
      BY <1>0, <1>1, <1>2, <1>3, <1>11, Plain DEF Tick, keys
    <2> QED
      BY <2>1, <1>4, <1>11 DEF KeyInv, Tick, reqs
  <1>12. CASE UNCHANGED vars
    BY <1>1, <1>3, <1>4, <1>12 DEF KeyInv, vars, keys, reqs
  <1>13. CASE Reread
    <2>1. /\ UNCHANGED <<now, withdrawn, fetched, wake, failures, arrived, pc>>
          /\ jwks' = "signed" /\ withdrawn # Never => now <= withdrawn + FetchTimeout
      BY <1>13 DEF Reread, reqs
    <2>2. KeysInTime'
      BY <2>1, <1>0, <1>1, <1>2, <1>3, Plain
    <2> QED
      BY <2>1, <2>2, <1>4 DEF KeyInv
  <1> QED
    BY <1>5, <1>6, <1>7, <1>8, <1>9, <1>10, <1>11, <1>12, <1>13 DEF Next

\* A token is good for at most a cache TTL after its key was withdrawn, two
\* fetches, and the failed ones in between (main.go: the JWKS goroutine).
THEOREM WithdrawalBoundedHolds == Spec => []WithdrawalBounded
  <1>1. GateInv => TypeOK
    BY DEF GateInv
  <1>2. KeyInv => WithdrawalBounded
    BY DEF KeyInv
  <1>3. Spec => []KeyInv
    BY <1>1, KeyInitHolds, KeyStep, GateHolds, PTL DEF Spec
  <1> QED
    BY <1>2, <1>3, PTL

-----------------------------------------------------------------------------
(* Keycloak out of reach.                                                  *)

\* A fetch that found nothing is over, and a gate without the key fetches
\* again, within their times of Keycloak's return; only failures, at their
\* price, put that off.
OpenInv ==
    /\ fetched = "unknown" /\ withdrawn = Never /\ up # Never => wake <= up
    /\ jwks # "signed" /\ withdrawn = Never /\ up # Never =>
          wake <= up + FetchTimeout + CacheTTL + failures * Delay
    /\ OpensInTime

LEMMA OpenStep ==
    GateInv /\ TypeOK' /\ KeyInv /\ OpenInv /\ [Next]_vars => OpenInv'
  <1> SUFFICES ASSUME GateInv, TypeOK', KeyInv, OpenInv, [Next]_vars PROVE OpenInv'
    OBVIOUS
  <1> DEFINE d == failures * Delay
             m == MaxFailures * (RetryDelay + FetchTimeout)
             Closed(o) == o \in {"not_ready", "invalid"} /\ withdrawn = Never /\ up # Never
  <1>0. /\ d \in Nat /\ m \in Nat /\ d <= m
        /\ (failures + 1) * Delay = d + RetryDelay + FetchTimeout
    BY Products, Plain DEF GateInv, TypeOK, Delay
  <1>1. /\ now \in Nat /\ wake \in Nat /\ wake' \in Nat
        /\ up \in Nat \cup {Never} /\ withdrawn \in Nat \cup {Never}
        /\ arrived \in [Reqs -> Nat] /\ out \in [Reqs -> Outcomes]
        /\ pc \in [Reqs -> {"new", "verified", "asking", "done"}]
    BY DEF GateInv, TypeOK
  <1>2. /\ wake <= now + CacheTTL + d /\ now <= wake + FetchTimeout
        /\ fetched # "none" => wake <= now
        /\ \A r \in Reqs : arrived[r] <= now
    BY DEF KeyInv, KeysInTime, GateInv, CallsInTime, d
  <1>3. /\ fetched = "unknown" /\ withdrawn = Never /\ up # Never => wake <= up
        /\ jwks # "signed" /\ withdrawn = Never /\ up # Never =>
              wake <= up + FetchTimeout + CacheTTL + d
        /\ \A r \in Reqs : Closed(out[r]) => arrived[r] <= up + CacheTTL + 2 * FetchTimeout + m
    BY DEF OpenInv, OpensInTime, d
  <1>4. ASSUME UNCHANGED failures,
               fetched' = "unknown" /\ withdrawn' = Never /\ up' # Never => wake' <= up',
               jwks' # "signed" /\ withdrawn' = Never /\ up' # Never =>
                  wake' <= up' + FetchTimeout + CacheTTL + d,
               OpensInTime'
        PROVE  OpenInv'
    BY <1>4 DEF OpenInv, Delay
  <1>5. ASSUME UNCHANGED <<up, withdrawn, arrived, out>> PROVE OpensInTime'
    BY <1>3, <1>5 DEF OpensInTime
  <1> HIDE DEF d, m
  <1>6. CASE Served
    <2>1. /\ UNCHANGED <<up, withdrawn, jwks, wake, failures, arrived, out>>
          /\ ~(fetched' = "unknown" /\ withdrawn = Never /\ up # Never)
      BY <1>6 DEF Served, reqs
    <2> QED
      BY <2>1, <1>3, <1>4, <1>5
  <1>7. CASE Install
    <2>1. /\ UNCHANGED <<now, up, withdrawn, failures, arrived, out>>
          /\ fetched \in {"unknown", "signed"} /\ jwks' = fetched /\ fetched' = "none"
          /\ wake' = now + CacheTTL
      BY <1>7 DEF Install, reqs, GateInv, TypeOK
    <2>2. jwks' # "signed" /\ withdrawn = Never /\ up # Never =>
             wake' <= up + FetchTimeout + CacheTTL + d
      BY <2>1, <1>0, <1>1, <1>2, <1>3, Plain
    <2> QED
      BY <2>1, <2>2, <1>4, <1>5
  <1>8. CASE FetchFails
    <2>1. /\ UNCHANGED <<now, up, withdrawn, jwks, arrived, out>>
          /\ fetched' = "none" /\ failures' = failures + 1 /\ wake' = now + RetryDelay
      BY <1>8 DEF FetchFails, reqs
    <2>2. jwks' # "signed" /\ withdrawn = Never /\ up # Never =>
             wake' <= up + FetchTimeout + CacheTTL + (d + RetryDelay + FetchTimeout)
      BY <2>1, <1>0, <1>1, <1>2, <1>3, Plain
    <2>3. (failures * Delay)' = d + RetryDelay + FetchTimeout
      BY <2>1, <1>0 DEF Delay
    <2>4. OpensInTime'
      BY <2>1, <1>5
    <2> QED
      BY <2>1, <2>2, <2>3, <2>4 DEF OpenInv
  <1>9. CASE Reread
    <2>1. /\ UNCHANGED <<up, withdrawn, fetched, wake, failures, arrived, out>>
          /\ withdrawn = Never => jwks' = "signed"
      BY <1>9 DEF Reread, reqs
    <2> QED
      BY <2>1, <1>3, <1>4, <1>5
  <1>10. ASSUME NEW r \in Reqs, Handler(r) PROVE OpenInv'
    <2>1. UNCHANGED <<now, up, withdrawn, jwks, fetched, wake, failures>>
      BY <1>10 DEF Handler, Arrive, Lookup, Introspect, OnAnswer, OnError, keys
    <2>2. CASE Arrive(r)
      <3>1. /\ arrived' = [arrived EXCEPT ![r] = now]
            /\ \E o \in Outcomes : out' = [out EXCEPT ![r] = o] /\ (Closed(o) => jwks # "signed")
        BY <2>2 DEF Arrive
      <3>2. jwks # "signed" /\ withdrawn = Never /\ up # Never =>
               now <= up + CacheTTL + 2 * FetchTimeout + m
        BY <1>0, <1>1, <1>2, <1>3, Plain
      <3>3. \A q \in Reqs : Closed(out'[q]) => arrived'[q] <= up + CacheTTL + 2 * FetchTimeout + m
        BY <3>1, <3>2, <1>1, <1>3
      <3>4. OpensInTime'
        BY <2>1, <3>3 DEF OpensInTime, m
      <3> QED
        BY <2>1, <3>4, <1>3, <1>4
    <2>3. CASE ~Arrive(r)
      <3>1. UNCHANGED arrived /\ \A q \in Reqs : out'[q] \in {"not_ready", "invalid"} => out'[q] = out[q]
        BY <1>10, <2>3, <1>1 DEF Handler, Lookup, Introspect, OnAnswer, OnError, Finish,
                                 GateInv, TypeOK
      <3>2. OpensInTime'
        BY <2>1, <3>1, <1>3 DEF OpensInTime, m
      <3> QED
        BY <2>1, <3>2, <1>3, <1>4
    <2> QED
      BY <2>2, <2>3
  <1>11. CASE Withdraw
    <2>1. UNCHANGED failures /\ withdrawn' # Never
      BY <1>1, <1>11 DEF Withdraw, keys
    <2>2. OpensInTime'
      BY <2>1 DEF OpensInTime
    <2> QED
      BY <2>1, <2>2, <1>4
  <1>12. CASE GoDown
    <2>1. UNCHANGED failures /\ up' = Never
      BY <1>12 DEF GoDown, keys
    <2>2. OpensInTime'
      BY <2>1 DEF OpensInTime
    <2> QED
      BY <2>1, <2>2, <1>4
  <1>13. CASE ComeUp
    <2>1. up' = now /\ UNCHANGED <<withdrawn, jwks, fetched, wake, failures, arrived, out>>
      BY <1>13 DEF ComeUp, keys, reqs
    <2>2. OpensInTime'
      <3>1. \A r \in Reqs : arrived[r] <= now + CacheTTL + 2 * FetchTimeout + m
        BY <1>0, <1>1, <1>2, Plain
      <3> QED
        BY <2>1, <3>1 DEF OpensInTime, m
    <2>3. wake' <= up' + FetchTimeout + CacheTTL + d /\ (fetched' # "none" => wake' <= up')
      BY <2>1, <1>0, <1>1, <1>2, Plain
    <2> QED
      BY <2>1, <2>2, <2>3, <1>4
  <1>14. CASE Revoke \/ Tick \/ UNCHANGED vars
    <2>1. UNCHANGED <<up, withdrawn, jwks, fetched, wake, failures, arrived, out>>
      BY <1>14 DEF Revoke, Tick, vars, keys, reqs
    <2> QED
      BY <2>1, <1>3, <1>4, <1>5
  <1> QED
    BY <1>6, <1>7, <1>8, <1>9, <1>10, <1>11, <1>12, <1>13, <1>14 DEF Next

\* Whatever came and went at Keycloak, a gate that it serves again turns a
\* token with a good key away, by 503 or by 401, for no longer than two fetches,
\* a cache TTL and the failed fetches take (main.go: the JWKS goroutine, which
\* takes an empty key set for a success).
THEOREM OpensInTimeHolds == Spec => []OpensInTime
  <1>1. GateInv => TypeOK
    BY DEF GateInv
  <1>2. Init => OpenInv
    BY Plain, Products DEF Init, OpenInv, OpensInTime, Delay
  <1>3. Spec => [](KeyInv /\ OpenInv)
    BY <1>1, <1>2, KeyInitHolds, KeyStep, OpenStep, GateHolds, PTL DEF Spec
  <1>4. OpenInv => OpensInTime
    BY DEF OpenInv
  <1> QED
    BY <1>3, <1>4, PTL

=============================================================================
