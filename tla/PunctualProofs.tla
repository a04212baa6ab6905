--------------------------- MODULE PunctualProofs ---------------------------
(***************************************************************************)
(* On a punctual host, with a lock TTL above the holder's worst case, the  *)
(* refresh lock excludes: one POST at a time, and one refresh per token.   *)
(***************************************************************************)
EXTENDS PunctualResolver, SessionSafetyProofs

-----------------------------------------------------------------------------
(* A release that Valkey runs late belongs to a request that is past its   *)
(* work under the lock.                                                    *)

PastLock == {"ttl", "expire", "done", "crashed"}

LateInv == \A c \in late : c.cmd = "release" => pc[c.req] \in PastLock

LEMMA LateStep == TypeOK /\ LateInv /\ [Next]_vars => LateInv'
  <1> SUFFICES ASSUME TypeOK, LateInv, [Next]_vars PROVE LateInv'
    OBVIOUS
  <1>1. CASE \E r \in Reqs : Arrive(r) \/ Handler(r) \/ Valkey(r) \/ AuthBff(r) \/ Crash(r)
    <2>1. PICK r \in Reqs : Arrive(r) \/ Handler(r) \/ Valkey(r) \/ AuthBff(r) \/ Crash(r)
      BY <1>1
    <2>2. CASE Fail(r)
      <3>1. late' = late \/ (late' = late \cup {[req |-> r, cmd |-> pc[r]]} /\ pc[r] \in Writes)
        BY <2>2 DEF Fail, LeaveBehind
      <3>2. pc[r] = "release" \/ pc[r] \in PastLock => pc'[r] \in PastLock
        BY <2>2 DEF Fail, FailOutcome, AfterRelease, Begin, Finish, PastLock, Deny, Return,
                    Unwind, TypeOK
      <3>3. \A s \in Reqs : s # r => pc'[s] = pc[s]
        BY <2>2 DEF Fail, FailOutcome, AfterRelease, Begin, Finish, Deny, Return, Unwind, TypeOK
      <3> QED
        BY <3>1, <3>2, <3>3 DEF LateInv, TypeOK
    <2>3. CASE Crash(r)
      <3>1. late' = late \/ late' = late \cup {[req |-> r, cmd |-> pc[r]]}
        BY <2>3 DEF Crash, LeaveBehind
      <3>2. pc'[r] = "crashed" /\ \A s \in Reqs : s # r => pc'[s] = pc[s]
        BY <2>3 DEF Crash, Finish, TypeOK
      <3> QED
        BY <3>1, <3>2 DEF LateInv, PastLock, TypeOK
    <2>4. CASE ~Fail(r) /\ ~Crash(r)
      <3>1. late' = late
        BY <2>1, <2>4 DEF Arrive, Handler, Valkey, AuthBff, OnLoad, OnReload, OnAcquire, OnRecheck,
              OnCall, Wake, OnPoll, PollAgain, GiveUp, Release, Drop, Ttl, ExpireExec, LoadExec,
              SetNxExec, BffRefresh, BffRefuse, BffError, BffGarble, Respond, store
      <3>2. \A s \in Reqs : s # r => pc'[s] = pc[s]
        BY <2>1, <2>4 DEF Arrive, Handler, Valkey, AuthBff, OnLoad, OnReload, OnAcquire, OnRecheck,
              OnCall, Wake, OnPoll, PollAgain, GiveUp, Release, AfterRelease, Drop, Ttl, ExpireExec,
              LoadExec, SetNxExec, BffRefresh, BffRefuse, BffError, BffGarble, Respond, Deny,
              Return, Unwind, Begin, Finish, TypeOK
      <3>3. pc[r] \in PastLock => pc'[r] \in PastLock
        BY <2>1, <2>4 DEF Arrive, Handler, Valkey, AuthBff, OnLoad, OnReload, OnAcquire, OnRecheck,
              OnCall, Wake, OnPoll, PollAgain, GiveUp, Release, Drop, Ttl, ExpireExec, LoadExec,
              SetNxExec, BffRefresh, BffRefuse, BffError, BffGarble, Respond, Finish, Has,
              PastLock, TypeOK
      <3> QED
        BY <3>1, <3>2, <3>3 DEF LateInv, TypeOK
    <2> QED
      BY <2>2, <2>3, <2>4
  <1>2. CASE (\E c \in late : LateExec(c)) \/ Logout \/ Revoke \/ Tick \/ UNCHANGED vars
    BY <1>2 DEF LateExec, Logout, Revoke, Tick, vars, store, LateInv
  <1> QED
    BY <1>1, <1>2 DEF Next, Step

\* What a step may do to a lock that r owns: nothing, unless its TTL is over
\* or r is at, or past, its release.
LEMMA OwnedLock ==
    ASSUME TypeOK, LateInv, [Next]_vars, NEW r \in Reqs, lock.owner = r, lock' # lock
    PROVE  now' >= lock.expires \/ pc[r] \in PastLock \cup {"release"}
  <1>1. lock # NoLock
    BY RequestsAssumption DEF NoLock
  <1>2. CASE \E s \in Reqs : Arrive(s) \/ Handler(s) \/ Valkey(s) \/ AuthBff(s) \/ Crash(s)
    <2>1. PICK s \in Reqs : Arrive(s) \/ Handler(s) \/ Valkey(s) \/ AuthBff(s) \/ Crash(s)
      BY <1>2
    <2>2. SetNxExec(s) \/ Release(s)
      BY <2>1 DEF Arrive, Handler, Valkey, AuthBff, Crash, OnLoad, OnReload, OnAcquire, OnRecheck,
            OnCall, Wake, OnPoll, PollAgain, GiveUp, Drop, Ttl, ExpireExec, Fail, LoadExec,
            BffRefresh, BffRefuse, BffError, BffGarble, Respond, store
    <2> QED
      BY <2>2, <1>1 DEF SetNxExec, SetNx, Release, CompareAndDelete
  <1>3. CASE \E c \in late : LateExec(c)
    BY <1>1, <1>3 DEF LateExec, SetNx, CompareAndDelete, LateInv
  <1>4. CASE Logout \/ Revoke \/ Tick \/ UNCHANGED vars
    BY <1>4 DEF Logout, Revoke, Tick, vars, store, TypeOK
  <1> QED
    BY <1>2, <1>3, <1>4 DEF Next, Step

\* A request that works under the lock loses it to nobody before its TTL.
THEOREM LockLostOnlyByTTLHolds == Spec => LockLostOnlyByTTL
  <1>1. Init => LateInv
    BY DEF Init, LateInv
  <1>2. TypeOK /\ LateInv /\ [Next]_vars =>
          [\A r \in Reqs : lock.owner = r /\ Holding(r) /\ Holding(r)' /\ lock' # lock
                             => now' >= lock.expires]_vars
    BY OwnedLock DEF Holding, PastLock
  <1> QED
    BY <1>1, <1>2, LateStep, TypeCorrect, PTL DEF Spec, LockLostOnlyByTTL

-----------------------------------------------------------------------------
(* The lock outlives the work.  Its expiry is at least LockTTL after SET   *)
(* NX was sent, and each phase of the work ends by its own deadline.       *)

HasLock(r, budget) == lock.owner = r /\ lock.expires + budget >= dl[r] + LockTTL

LockReq(r) ==
    /\ pc[r] \in Active => now <= dl[r]
    /\ pc[r] = "acquire" => dl[r] <= now + StoreTimeout
    /\ pc[r] = "acquire" /\ reply[r].code = "ok" => HasLock(r, StoreTimeout)
    /\ pc[r] = "recheck" => HasLock(r, 2 * StoreTimeout)
    /\ pc[r] = "call" => HasLock(r, 2 * StoreTimeout + RefreshTimeout)

LockInv == \A r \in Reqs : LockReq(r)

Secured(r) == pc[r] \in {"recheck", "call"} \/ (pc[r] = "acquire" /\ reply[r].code = "ok")

\* Times are natural numbers.
LEMMA TimesAreNat ==
    /\ StoreTimeout \in Nat /\ RefreshTimeout \in Nat /\ LockTTL \in Nat /\ WaitStep \in Nat
    /\ LockTTL > 0
  BY TimesAssumption

\* The owner of a secured lock has time left on it.
LEMMA SecuredLock ==
    ASSUME LockOutlivesWork, TypeOK, NEW r \in Reqs, LockReq(r), Secured(r)
    PROVE  lock.owner = r /\ lock.expires > now
  <1>1. pc[r] \in Active
    BY PhaseFacts DEF Secured
  <1> QED
    BY <1>1, TimesAreNat DEF LockReq, Secured, HasLock, LockOutlivesWork, TypeOK

LEMMA PunctualIsSpec == [PunctualNext]_vars => [Next]_vars
  BY DEF PunctualNext, PunctualTick, Next

\* The history variable takes nothing away.
LEMMA WithoutHistory == PunctualSpec => Init /\ [][PunctualNext]_vars
  <1>1. PunctualInit => Init
    BY DEF PunctualInit
  <1>2. [PunctualNext /\ Remember]_punctualVars => [PunctualNext]_vars
    BY DEF punctualVars
  <1> QED
    BY <1>1, <1>2, PTL DEF PunctualSpec

\* The clock of a punctual host does not pass a deadline.
LEMMA LockTick ==
    ASSUME LockOutlivesWork, TypeOK, LockInv, PunctualTick
    PROVE  LockInv'
  <1> SUFFICES ASSUME NEW r \in Reqs PROVE LockReq(r)'
    BY DEF LockInv
  <1>1. /\ pc[r] \in Active => now < dl[r]
        /\ now' = now + 1 /\ UNCHANGED <<pc, dl, reply>>
    BY DEF PunctualTick, Tick
  <1>2. Secured(r) => lock.expires > now + 1
    <2>1. Secured(r) => pc[r] \in Active
      BY PhaseFacts DEF Secured
    <2> QED
      BY <1>1, <2>1, TimesAreNat
         DEF LockInv, LockReq, Secured, HasLock, LockOutlivesWork, TypeOK
  <1>3. Secured(r) => lock' = lock
    BY <1>2 DEF PunctualTick, Tick, TypeOK
  <1> QED
    BY <1>1, <1>3, TimesAreNat DEF LockInv, LockReq, Secured, HasLock, TypeOK

\* A request whose phase does not change keeps its lock.
LEMMA LockFrame ==
    ASSUME LockOutlivesWork, TypeOK, TypeOK', LateInv, LockInv, [Next]_vars, now' = now,
           NEW r \in Reqs, pc'[r] = pc[r], dl'[r] = dl[r], reply'[r] = reply[r]
    PROVE  LockReq(r)'
  <1>1. Secured(r) => lock' = lock
    BY SecuredLock, OwnedLock DEF LockInv, Secured, PastLock, TypeOK
  <1> QED
    BY <1>1 DEF LockInv, LockReq, HasLock, Secured

LEMMA LockStep ==
    ASSUME LockOutlivesWork, TypeOK, TypeOK', LateInv, LockInv, [PunctualNext]_vars
    PROVE  LockInv'
  <1>1. [Next]_vars
    BY PunctualIsSpec
  <1>2. CASE \E r \in Reqs : Arrive(r) \/ Handler(r) \/ Valkey(r) \/ AuthBff(r) \/ Crash(r)
    <2>1. PICK r \in Reqs : Arrive(r) \/ Handler(r) \/ Valkey(r) \/ AuthBff(r) \/ Crash(r)
      BY <1>2
    <2>2. now' = now
      BY <2>1 DEF Arrive, Handler, Valkey, AuthBff, Crash, OnLoad, OnReload, OnAcquire, OnRecheck,
            OnCall, Wake, OnPoll, PollAgain, GiveUp, Release, Drop, Ttl, ExpireExec, Fail, LoadExec,
            SetNxExec, BffRefresh, BffRefuse, BffError, BffGarble, Respond
    <2>3. ASSUME NEW s \in Reqs, s # r PROVE LockReq(s)'
      <3>1. pc'[s] = pc[s] /\ dl'[s] = dl[s] /\ reply'[s] = reply[s]
        BY <2>1, <2>3 DEF Arrive, Handler, Valkey, AuthBff, Crash, OnLoad, OnReload, OnAcquire,
              OnRecheck, OnCall, Wake, OnPoll, PollAgain, GiveUp, Release, AfterRelease, Drop, Ttl,
              ExpireExec, Fail, FailOutcome, LoadExec, SetNxExec, BffRefresh, BffRefuse, BffError,
              BffGarble, Respond, Deny, Return, Unwind, Begin, Finish, TypeOK
      <3> QED
        BY <3>1, <1>1, <2>2, LockFrame
    <2>4. LockReq(r)
      BY DEF LockInv
    <2>5. ASSUME NEW p \in Active \ {"acquire", "recheck", "call"}, Begin(r, p)
          PROVE  LockReq(r)'
      <3>1. Budget(p) \in Nat
        BY TimesAreNat DEF Budget
      <3> QED
        BY <2>2, <2>5, <3>1 DEF Begin, LockReq, TypeOK
    <2>6. ASSUME Finish(r, "done") \/ Finish(r, "crashed") PROVE LockReq(r)'
      BY <2>6, PhaseFacts DEF Finish, LockReq, TypeOK
    <2>7. ASSUME NEW o, NEW t, Return(r, o, t) \/ Unwind(r, o, t) \/ Deny(r, o)
          PROVE  LockReq(r)'
      BY <2>5, <2>6, <2>7, PhaseFacts DEF Return, Unwind, Deny
    <2> SUFFICES LockReq(r)'
      BY <2>3 DEF LockInv
    <2>8. CASE Arrive(r) \/ OnLoad(r) \/ Wake(r) \/ PollAgain(r) \/ Release(r) \/ Drop(r)
               \/ ExpireExec(r) \/ Crash(r) \/ OnCall(r) \/ OnPoll(r) \/ GiveUp(r) \/ Fail(r)
      BY <2>5, <2>6, <2>7, <2>8, PhaseFacts
         DEF Arrive, OnLoad, Wake, PollAgain, Release, AfterRelease, Drop, ExpireExec, Crash,
             OnCall, OnPoll, GiveUp, Fail, FailOutcome, Deny
    <2>9. CASE OnReload(r)
      <3>1. CASE Begin(r, "acquire")
        BY <2>2, <3>1, TimesAreNat DEF Begin, Budget, LockReq, NoReply, TypeOK
      <3> QED
        BY <2>7, <2>9, <3>1 DEF OnReload
    <2>10. CASE OnAcquire(r)
      <3>1. CASE reply[r].code = "ok" /\ Begin(r, "recheck")
        <4>1. HasLock(r, StoreTimeout) /\ now <= dl[r] /\ lock' = lock
          BY <2>4, <2>10, <3>1, PhaseFacts DEF LockReq, OnAcquire, Has, store
        <4> QED
          BY <2>2, <3>1, <4>1, TimesAreNat DEF Begin, Budget, LockReq, HasLock, TypeOK
      <3> QED
        BY <2>5, <2>10, <3>1, PhaseFacts DEF OnAcquire
    <2>11. CASE OnRecheck(r)
      <3>1. CASE Begin(r, "call")
        <4>1. HasLock(r, 2 * StoreTimeout) /\ now <= dl[r] /\ lock' = lock
          BY <2>4, <2>11, PhaseFacts DEF LockReq, OnRecheck, Has, store
        <4> QED
          BY <2>2, <3>1, <4>1, TimesAreNat DEF Begin, Budget, LockReq, HasLock, TypeOK
      <3> QED
        BY <2>7, <2>11, <3>1 DEF OnRecheck
    <2>12. CASE Ttl(r)
      <3>1. CASE pc' = [pc EXCEPT ![r] = "expire"] /\ UNCHANGED <<dl, reply>>
        BY <2>2, <2>4, <2>12, <3>1, PhaseFacts DEF Ttl, LockReq, TypeOK
      <3> QED
        BY <2>6, <2>12, <3>1 DEF Ttl
    <2>13. CASE SetNxExec(r)
      <3>1. pc[r] = "acquire" /\ UNCHANGED <<pc, dl>> /\ reply'[r] = Answer(IF lock = NoLock THEN "ok" ELSE "nil")
        BY <2>13 DEF SetNxExec, Awaits, TypeOK
      <3>2. CASE lock = NoLock
        <4>1. lock'.owner = r /\ lock'.expires = now + LockTTL
          BY <2>13, <3>2 DEF SetNxExec, SetNx
        <4> QED
          BY <2>2, <2>4, <3>1, <4>1, TimesAreNat DEF LockReq, HasLock, TypeOK
      <3>3. CASE lock # NoLock
        <4>1. reply'[r].code = "nil"
          BY <3>1, <3>3 DEF Answer, NoReply
        <4> QED
          BY <2>2, <2>4, <3>1, <4>1 DEF LockReq
      <3> QED
        BY <3>2, <3>3
    <2>14. CASE LoadExec(r) \/ AuthBff(r)
      <3>1. UNCHANGED <<pc, dl, lock>> /\ (reply'[r] = reply[r] \/ pc[r] # "acquire")
        BY <2>14 DEF LoadExec, Awaits, Loads, AuthBff, BffRefresh, BffRefuse, BffError, BffGarble,
                     Respond, store, TypeOK
      <3> QED
        BY <2>2, <2>4, <3>1 DEF LockReq, HasLock
    <2> QED
      BY <2>1, <2>8, <2>9, <2>10, <2>11, <2>12, <2>13, <2>14 DEF Handler, Valkey
  <1>3. CASE (\E c \in late : LateExec(c)) \/ Logout \/ Revoke \/ UNCHANGED vars
    <2>1. UNCHANGED <<now, pc, dl, reply>>
      BY <1>3 DEF LateExec, Logout, Revoke, vars
    <2> QED
      BY <1>1, <2>1, LockFrame DEF LockInv
  <1>4. CASE PunctualTick
    BY <1>4, LockTick
  <1> QED
    BY <1>2, <1>3, <1>4 DEF PunctualNext, Step

LEMMA LockInit == Init => LateInv /\ LockInv
  BY DEF Init, LateInv, LockInv, LockReq, Active, Pending, Loads, Writes

\* The inductive part of every theorem about a punctual host.
LEMMA PunctualInvariants ==
    ASSUME LockOutlivesWork PROVE PunctualSpec => [](TypeOK /\ LateInv /\ LockInv)
  <1>1. TypeOK /\ LateInv /\ LockInv /\ [PunctualNext]_vars => (TypeOK /\ LateInv /\ LockInv)'
    BY TypeStep, LateStep, LockStep, PunctualIsSpec
  <1> QED
    BY <1>1, InitType, LockInit, WithoutHistory, PTL

\* At most one request of a session is in its POST to auth-bff.
THEOREM CallExclusiveHolds ==
    ASSUME LockOutlivesWork PROVE PunctualSpec => []CallExclusive
  <1>1. TypeOK /\ LockInv => CallExclusive
    BY DEF LockInv, LockReq, HasLock, CallExclusive
  <1> QED
    BY <1>1, PunctualInvariants, PTL

-----------------------------------------------------------------------------
(* RefreshesSerialised and RefreshedOnce.  With an auth-bff that stops     *)
(* when its caller hangs up, a refresh that runs is that of a POST.        *)

JobReq(r) == job[r] = "running" => pc[r] = "call" /\ reply[r] = NoReply

JobInv == \A r \in Reqs : JobReq(r)

\* What a handler enters, it enters without an answer; the POST only from the
\* re-check that found nothing fresher.
LEMMA Entering ==
    ASSUME TypeOK, NEW r \in Reqs, Handler(r) \/ Arrive(r) \/ Crash(r)
    PROVE  /\ reply'[r] = NoReply \/ pc'[r] = "expire"
           /\ pc'[r] = "call" =>
                  /\ OnRecheck(r) /\ reply[r].code = "ok" /\ ~Fresher(r, reply[r])
                  /\ UNCHANGED <<data, session>>
  <1> DEFINE Entered == /\ reply'[r] = NoReply \/ pc'[r] = "expire"
                        /\ pc'[r] # "call"
  <1>1. ASSUME NEW p \in Phases \ {"call"}, Begin(r, p) \/ Finish(r, p)
        PROVE  Entered
    BY <1>1 DEF Begin, Finish, TypeOK
  <1>2. {"new", "load", "reload", "recheck", "poll", "acquire", "release", "drop", "expire", "ttl",
         "sleep", "done", "crashed"} \subseteq Phases \ {"call"}
    BY DEF Phases, Active, Pending, Loads, Writes
  <1>3. ASSUME NEW o, NEW t, Return(r, o, t) \/ Unwind(r, o, t) \/ Deny(r, o)
        PROVE  Entered
    BY <1>1, <1>2, <1>3 DEF Return, Unwind, Deny
  <1>4. CASE OnLoad(r) \/ OnReload(r) \/ OnCall(r) \/ OnPoll(r) \/ GiveUp(r)
    BY <1>1, <1>2, <1>3, <1>4 DEF OnLoad, OnReload, OnCall, OnPoll, GiveUp
  <1>5. CASE OnRecheck(r)
    <2>1. CASE Begin(r, "call") /\ UNCHANGED locals /\ reply[r].code = "ok" /\ ~Fresher(r, reply[r])
      BY <1>5, <2>1 DEF OnRecheck, Begin, locals, store, TypeOK
    <2> QED
      BY <1>3, <1>5, <2>1 DEF OnRecheck
  <1>6. CASE OnAcquire(r) \/ Wake(r) \/ PollAgain(r) \/ Arrive(r) \/ Crash(r)
    BY <1>1, <1>2, <1>6 DEF OnAcquire, Wake, PollAgain, Arrive, Crash
  <1>7. CASE Release(r) \/ Drop(r) \/ ExpireExec(r)
    BY <1>1, <1>2, <1>7 DEF Release, AfterRelease, Drop, ExpireExec
  <1>8. CASE Ttl(r)
    <2>1. CASE pc' = [pc EXCEPT ![r] = "expire"]
      BY <2>1 DEF TypeOK
    <2> QED
      BY <1>1, <1>2, <1>8, <2>1 DEF Ttl
  <1>9. CASE Fail(r)
    BY <1>1, <1>2, <1>3, <1>9 DEF Fail, FailOutcome, AfterRelease
  <1> QED
    BY <1>4, <1>5, <1>6, <1>7, <1>8, <1>9 DEF Handler

LEMMA JobStep ==
    ASSUME "orphan" \notin Faults, TypeOK, JobInv, [Next]_vars
    PROVE  JobInv'
  <1>1. CASE \E r \in Reqs : Handler(r) \/ Arrive(r) \/ Crash(r)
    <2>1. PICK r \in Reqs : Handler(r) \/ Arrive(r) \/ Crash(r)
      BY <1>1
    <2>2. \/ job' = job
          \/ job' = [job EXCEPT ![r] = "running"] /\ pc' = [pc EXCEPT ![r] = "call"]
             /\ reply' = [reply EXCEPT ![r] = NoReply]
          \/ job' = [job EXCEPT ![r] = "none"]
      BY <2>1 DEF Handler, Arrive, Crash, OnLoad, OnReload, OnAcquire, OnRecheck, OnCall, Wake, OnPoll,
                  PollAgain, GiveUp, Release, Drop, Ttl, ExpireExec, Fail, HangUp, Begin, bff
    <2>3. job[r] = "running" => job' = [job EXCEPT ![r] = "none"]
      BY <2>1 DEF JobInv, JobReq, Handler, Arrive, Crash, OnLoad, OnReload, OnAcquire, OnRecheck,
                  OnCall, Wake, OnPoll, PollAgain, GiveUp, Release, Drop, Ttl, ExpireExec, Fail, HangUp,
                  Has, bff
    <2> QED
      BY <2>1, <2>2, <2>3, OthersStay DEF JobInv, JobReq, TypeOK
  <1>2. CASE \E r \in Reqs : LoadExec(r) \/ SetNxExec(r)
    BY <1>2 DEF LoadExec, SetNxExec, Awaits, Loads, JobInv, JobReq, bff, TypeOK
  <1>3. CASE \E r \in Reqs : AuthBff(r)
    BY <1>3 DEF AuthBff, BffRefresh, BffRefuse, BffError, BffGarble, Respond, JobInv, JobReq, TypeOK
  <1>4. CASE (\E c \in late : LateExec(c)) \/ Logout \/ Revoke \/ Tick \/ UNCHANGED vars
    BY <1>4 DEF LateExec, Logout, Revoke, Tick, vars, bff, JobInv, JobReq
  <1> QED
    BY <1>1, <1>2, <1>3, <1>4 DEF Next, Step, Valkey

LEMMA JobsRun ==
    ASSUME LockOutlivesWork, "orphan" \notin Faults
    PROVE  PunctualSpec => []JobInv
  <1>1. Init => JobInv
    BY DEF Init, JobInv, JobReq
  <1>2. TypeOK /\ JobInv /\ [PunctualNext]_vars => JobInv'
    BY JobStep, PunctualIsSpec
  <1> QED
    BY <1>1, <1>2, PunctualInvariants, WithoutHistory, PTL

\* auth-bff never works on two refreshes of one session at a time, if it stops
\* when its caller hangs up.
THEOREM RefreshesSerialisedHolds ==
    ASSUME LockOutlivesWork, "orphan" \notin Faults
    PROVE  PunctualSpec => []RefreshesSerialised
  <1>1. JobInv /\ CallExclusive => RefreshesSerialised
    BY DEF JobInv, JobReq, CallExclusive, RefreshesSerialised
  <1> QED
    BY <1>1, JobsRun, CallExclusiveHolds, PTL

\* What the winner of the lock has read is what there is, until it is refreshed.
OnceReq(r) ==
    /\ pc[r] = "recheck" /\ reply[r].code = "ok" => session = NoSession \/ session.exp = reply[r].exp
    /\ pc[r] = "call" /\ job[r] = "running" => session = NoSession \/ session.exp = data[r].exp

OnceInv == \A r \in Reqs : OnceReq(r)

SameExp == session' = NoSession \/ (session # NoSession /\ session'.exp = session.exp)

LEMMA OnceFrame ==
    ASSUME NEW r \in Reqs, OnceReq(r), SameExp,
           pc'[r] = pc[r], reply'[r] = reply[r], data'[r] = data[r], job'[r] = job[r]
    PROVE  OnceReq(r)'
  BY DEF OnceReq, SameExp

LEMMA OnceStep ==
    ASSUME LockOutlivesWork, TypeOK, TypeOK', FreshInv, DeadInv, LockInv, JobInv, OnceInv, [Next]_vars
    PROVE  OnceInv'
  <1>0. session = NoSession => session' = NoSession
    BY DeadStep
  <1>1. CASE \E r \in Reqs : Handler(r) \/ Arrive(r) \/ Crash(r)
    <2>1. PICK r \in Reqs : Handler(r) \/ Arrive(r) \/ Crash(r)
      BY <1>1
    <2>2. SameExp
      <3>1. session' = session \/ session' = NoSession \/ Expire
        BY <2>1 DEF Handler, Arrive, Crash, OnLoad, OnReload, OnAcquire, OnRecheck, OnCall, Wake, OnPoll,
                    PollAgain, GiveUp, Release, Drop, Del, Ttl, ExpireExec, Fail, store
      <3> QED
        BY <3>1 DEF SameExp, Expire, TypeOK, Session
    <2>3. OnceReq(r)'
      <3>1. CASE pc'[r] = "call"
        <4>1. /\ pc[r] = "recheck" /\ reply[r].code = "ok" /\ reply[r].exp <= data[r].exp
              /\ session' = session /\ data' = data
          BY <2>1, <3>1, Entering DEF OnRecheck, Has, Fresher, TypeOK, Reply
        <4>2. session = NoSession \/ (session.exp = reply[r].exp /\ session.exp >= data[r].exp)
          BY <4>1 DEF OnceInv, OnceReq, FreshInv, FreshReq
        <4>3. session.exp \in Nat /\ data[r].exp \in Nat /\ reply[r].exp \in Nat
          BY DEF TypeOK, Session, Reply
        <4> QED
          BY <3>1, <4>1, <4>2, <4>3 DEF OnceReq
      <3>2. CASE pc'[r] = "recheck"
        <4>1. reply'[r].code = "none"
          BY <2>1, <3>2, Entering DEF NoReply
        <4> QED
          BY <3>2, <4>1 DEF OnceReq
      <3> QED
        BY <3>1, <3>2 DEF OnceReq
    <2>4. ASSUME NEW s \in Reqs, s # r PROVE OnceReq(s)'
      <3>1. data'[s] = data[s] /\ job'[s] = job[s]
        BY <2>1, <2>4 DEF Handler, Arrive, Crash, OnLoad, OnReload, OnAcquire, OnRecheck, OnCall, Wake,
              OnPoll, PollAgain, GiveUp, Release, Drop, Ttl, ExpireExec, Fail, FailOutcome, HangUp, Deny,
              Return, Unwind, bff, locals, TypeOK
      <3> QED
        BY <2>1, <2>2, <2>4, <3>1, OthersStay, OnceFrame DEF OnceInv
    <2> QED
      BY <2>3, <2>4 DEF OnceInv
  <1>2. CASE \E r \in Reqs : LoadExec(r) \/ SetNxExec(r)
    <2>1. PICK r \in Reqs : LoadExec(r) \/ SetNxExec(r)
      BY <1>2
    <2>2. UNCHANGED <<session, pc, data, job>> /\ \A s \in Reqs : s # r => reply'[s] = reply[s]
      BY <2>1 DEF LoadExec, SetNxExec, store, bff, locals, TypeOK
    <2>3. pc[r] # "call" /\ (pc[r] = "recheck" => reply'[r] = Hmget)
      BY <2>1 DEF LoadExec, SetNxExec, Awaits, Loads, TypeOK
    <2>4. Hmget.code = "ok" => session # NoSession /\ Hmget.exp = session.exp
      BY DEF Hmget, Answer, NoReply
    <2>5. OnceReq(r)'
      BY <2>2, <2>3, <2>4 DEF OnceReq
    <2> QED
      BY <2>2, <2>5 DEF OnceInv, OnceReq
  <1>3. CASE \E r \in Reqs : AuthBff(r)
    <2>1. PICK r \in Reqs : AuthBff(r)
      BY <1>3
    <2>2. /\ UNCHANGED <<pc, data>> /\ job[r] = "running" /\ job'[r] = "none" /\ pc[r] = "call"
          /\ \A s \in Reqs : s # r => reply'[s] = reply[s] /\ job'[s] = job[s]
      BY <2>1 DEF AuthBff, BffRefresh, BffRefuse, BffError, BffGarble, Respond, locals, JobInv, JobReq,
                  TypeOK
    <2>3. \A s \in Reqs : s # r => pc[s] # "recheck" /\ pc[s] # "call"
      BY <2>2 DEF LockInv, LockReq, HasLock
    <2> QED
      BY <2>2, <2>3 DEF OnceInv, OnceReq
  <1>4. CASE (\E c \in late : LateExec(c)) \/ Logout \/ Revoke \/ Tick \/ UNCHANGED vars
    <2>1. UNCHANGED <<pc, reply, data, job>>
      BY <1>4 DEF LateExec, Logout, Revoke, Tick, vars, bff, locals
    <2>2. session' = session \/ session' = NoSession \/ Expire
      BY <1>4 DEF LateExec, Del, Logout, Revoke, Tick, vars, store
    <2>3. SameExp
      BY <2>2 DEF SameExp, Expire, TypeOK, Session
    <2> QED
      BY <2>1, <2>3, OnceFrame DEF OnceInv
  <1> QED
    BY <1>1, <1>2, <1>3, <1>4 DEF Next, Step, Valkey

LEMMA SafetyInvariants == PunctualSpec => [](TypeOK /\ FreshInv /\ DeadInv /\ DropInv)
  <1>1. Init => TypeOK /\ FreshInv /\ DeadInv /\ DropInv
    BY InitType, FreshInit, DeadInit DEF Init, DropInv
  <1>2. TypeOK /\ FreshInv /\ DeadInv /\ DropInv /\ [PunctualNext]_vars
          => (TypeOK /\ FreshInv /\ DeadInv /\ DropInv)'
    BY TypeStep, FreshStep, DeadStep, DropStep, PunctualIsSpec
  <1> QED
    BY <1>1, <1>2, WithoutHistory, PTL

\* One token is refreshed once: auth-bff replaces the record only on behalf of
\* a request that had observed the exp it replaces.
THEOREM RefreshedOnceHolds ==
    ASSUME LockOutlivesWork, "orphan" \notin Faults
    PROVE  PunctualSpec => RefreshedOnce
  <1>1. Init => OnceInv
    BY DEF Init, OnceInv, OnceReq
  <1>2. TypeOK /\ TypeOK' /\ FreshInv /\ DeadInv /\ LockInv /\ JobInv /\ OnceInv /\ [PunctualNext]_vars
          => OnceInv'
    BY OnceStep, PunctualIsSpec
  <1>3. JobInv /\ OnceInv => [\A r \in Reqs : BffRefresh(r) => session.exp = data[r].exp]_vars
    BY DEF JobInv, JobReq, OnceInv, OnceReq, BffRefresh, Refreshable
  <1> QED
    BY <1>1, <1>2, <1>3, SafetyInvariants, PunctualInvariants, JobsRun, WithoutHistory, PTL
       DEF RefreshedOnce

\* From the look at exp that sent it to refresh on, a request works for a token
\* near its expiry.
Refreshing == {"reload", "acquire", "recheck", "sleep", "poll", "call"}

DueInv == \A r \in Reqs : pc[r] \in Refreshing => now >= data[r].exp - Threshold

LEMMA DueStep ==
    ASSUME TypeOK, DueInv, [Next]_vars
    PROVE  DueInv'
  <1>0. now \in Nat /\ Threshold \in Nat /\ \A r \in Reqs : data[r].exp \in Nat /\ reply[r].exp \in Nat
    BY TimesAssumption DEF TypeOK, Reply
  <1>1. CASE \E r \in Reqs : Handler(r) \/ Arrive(r) \/ Crash(r)
    <2>1. PICK r \in Reqs : Handler(r) \/ Arrive(r) \/ Crash(r)
      BY <1>1
    <2>2. now' = now
      BY <2>1 DEF Handler, Arrive, Crash, OnLoad, OnReload, OnAcquire, OnRecheck, OnCall, Wake, OnPoll,
                  PollAgain, GiveUp, Release, Drop, Ttl, ExpireExec, Fail
    <2>3. pc'[r] \in Refreshing => now >= data'[r].exp - Threshold
      <3>1. CASE OnLoad(r)
        <4>1. CASE /\ NearExpiry(reply[r])
                   /\ data' = [data EXCEPT ![r] = [exp |-> reply[r].exp, abs |-> reply[r].abs]]
          BY <1>0, <4>1 DEF NearExpiry, TypeOK
        <4>2. CASE \/ Deny(r, "miss") \/ Begin(r, "drop") \/ Begin(r, "ttl")
          BY <4>2 DEF Deny, Begin, Finish, Refreshing, TypeOK
        <4> QED
          BY <3>1, <4>1, <4>2 DEF OnLoad
      <3>2. CASE (Handler(r) /\ ~OnLoad(r)) \/ Arrive(r) \/ Crash(r)
        <4>1. data' = data
          BY <3>2 DEF Handler, Arrive, Crash, OnReload, OnAcquire, OnRecheck, OnCall, Wake, OnPoll,
                PollAgain, GiveUp, Release, Drop, Ttl, ExpireExec, Fail, FailOutcome, Deny, Return,
                Unwind, locals
        <4>2. pc'[r] \in Refreshing => pc[r] \in Refreshing
          BY <3>2 DEF Handler, Arrive, Crash, OnReload, OnAcquire, OnRecheck, OnCall, Wake, OnPoll,
                PollAgain, GiveUp, Release, AfterRelease, Drop, Ttl, ExpireExec, Fail, FailOutcome, Has,
                Deny, Return, Unwind, Begin, Finish, Refreshing, TypeOK
        <4> QED
          BY <4>1, <4>2 DEF DueInv
      <3> QED
        BY <2>1, <3>1, <3>2
    <2>4. ASSUME NEW s \in Reqs, s # r PROVE pc'[s] = pc[s] /\ data'[s] = data[s]
      <3>1. data'[s] = data[s]
        BY <2>1, <2>4 DEF Handler, Arrive, Crash, OnLoad, OnReload, OnAcquire, OnRecheck, OnCall, Wake,
              OnPoll, PollAgain, GiveUp, Release, Drop, Ttl, ExpireExec, Fail, FailOutcome, Deny,
              Return, Unwind, locals, TypeOK
      <3> QED
        BY <2>1, <2>4, <3>1, OthersStay
    <2> QED
      BY <2>2, <2>3, <2>4 DEF DueInv
  <1>2. CASE (\E r \in Reqs : LoadExec(r) \/ SetNxExec(r) \/ AuthBff(r)) \/ (\E c \in late : LateExec(c))
             \/ Logout \/ Revoke \/ Tick \/ UNCHANGED vars
    <2>1. UNCHANGED <<pc, data>> /\ (now' = now \/ now' = now + 1)
      BY <1>2 DEF LoadExec, SetNxExec, AuthBff, BffRefresh, BffRefuse, BffError, BffGarble, Respond,
                  LateExec, Logout, Revoke, Tick, vars, locals
    <2> QED
      BY <1>0, <2>1 DEF DueInv
  <1> QED
    BY <1>1, <1>2 DEF Next, Step, Valkey

\* A token is replaced only when it is near its expiry: requests that saw the
\* old one near expiry do not refresh the new one, whoever wins the lock when.
THEOREM OnlyDueIsRefreshed ==
    ASSUME LockOutlivesWork, "orphan" \notin Faults
    PROVE  PunctualSpec => [][\A r \in Reqs : BffRefresh(r) => NearExpiry(session)]_vars
  <1>1. Init => DueInv
    BY DEF Init, DueInv, Refreshing
  <1>2. TypeOK /\ DueInv /\ [PunctualNext]_vars => DueInv'
    BY DueStep, PunctualIsSpec
  <1>3. JobInv /\ DueInv /\ [\A r \in Reqs : BffRefresh(r) => session.exp = data[r].exp]_vars
          => [\A r \in Reqs : BffRefresh(r) => NearExpiry(session)]_vars
    BY DEF JobInv, JobReq, DueInv, Refreshing, BffRefresh, NearExpiry
  <1> QED
    BY <1>1, <1>2, <1>3, SafetyInvariants, JobsRun, RefreshedOnceHolds, WithoutHistory, PTL
       DEF RefreshedOnce

-----------------------------------------------------------------------------
(* CeilingOverrunBounded.  Each phase of a request ends by its deadline,   *)
(* and the deadlines add up from the look at abs_exp that came first.      *)

DeadlineInv == \A r \in Reqs : pc[r] \in Active => now <= dl[r]

LEMMA DeadlineHandler ==
    ASSUME TypeOK, DeadlineInv, NEW r \in Reqs, Handler(r) \/ Arrive(r) \/ Crash(r)
    PROVE  now' = now /\ (pc'[r] \in Active => now <= dl'[r])
  <1> DEFINE InTime == pc'[r] \in Active => now <= dl'[r]
  <1>1. ASSUME NEW p, Begin(r, p) \/ Finish(r, "done") \/ Finish(r, "crashed") PROVE InTime
    <2>1. Budget(p) \in Nat
      BY TimesAreNat DEF Budget
    <2>2. CASE Begin(r, p)
      <3>1. dl'[r] = now + Budget(p) /\ now \in Nat
        BY <2>2 DEF Begin, TypeOK
      <3> QED
        BY <2>1, <3>1
    <2>3. CASE Finish(r, "done") \/ Finish(r, "crashed")
      <3>1. pc'[r] \in {"done", "crashed"}
        BY <2>3 DEF Finish, TypeOK
      <3> QED
        BY <3>1, PhaseFacts
    <2> QED
      BY <1>1, <2>2, <2>3
  <1>2. ASSUME NEW o, NEW t, Return(r, o, t) \/ Unwind(r, o, t) \/ Deny(r, o) PROVE InTime
    BY <1>1, <1>2 DEF Return, Unwind, Deny
  <1>3. now' = now
    BY DEF Handler, Arrive, Crash, OnLoad, OnReload, OnAcquire, OnRecheck, OnCall, Wake, OnPoll,
           PollAgain, GiveUp, Release, Drop, Ttl, ExpireExec, Fail
  <1>4. CASE OnLoad(r) \/ OnReload(r) \/ OnCall(r) \/ OnPoll(r) \/ GiveUp(r) \/ OnRecheck(r)
    BY <1>1, <1>2, <1>3, <1>4 DEF OnLoad, OnReload, OnCall, OnPoll, GiveUp, OnRecheck
  <1>5. CASE OnAcquire(r) \/ Wake(r) \/ PollAgain(r) \/ Arrive(r) \/ Crash(r)
    BY <1>1, <1>3, <1>5 DEF OnAcquire, Wake, PollAgain, Arrive, Crash
  <1>6. CASE Release(r) \/ Drop(r) \/ ExpireExec(r)
    BY <1>1, <1>3, <1>6 DEF Release, AfterRelease, Drop, ExpireExec
  <1>7. CASE Ttl(r)
    <2>1. CASE dl' = dl
      BY <1>3, <1>7, <2>1, PhaseFacts DEF Ttl, DeadlineInv
    <2> QED
      BY <1>1, <1>3, <1>7, <2>1 DEF Ttl
  <1>8. CASE Fail(r)
    BY <1>1, <1>2, <1>3, <1>8 DEF Fail, FailOutcome, AfterRelease
  <1> QED
    BY <1>3, <1>4, <1>5, <1>6, <1>7, <1>8 DEF Handler

LEMMA DeadlineStep == TypeOK /\ DeadlineInv /\ [PunctualNext]_vars => DeadlineInv'
  <1> SUFFICES ASSUME TypeOK, DeadlineInv, [PunctualNext]_vars PROVE DeadlineInv'
    OBVIOUS
  <1>1. CASE \E r \in Reqs : Handler(r) \/ Arrive(r) \/ Crash(r)
    <2>1. PICK r \in Reqs : Handler(r) \/ Arrive(r) \/ Crash(r)
      BY <1>1
    <2>2. \A s \in Reqs : s # r => pc'[s] = pc[s] /\ dl'[s] = dl[s]
      BY <2>1 DEF Handler, Arrive, Crash, OnLoad, OnReload, OnAcquire, OnRecheck, OnCall, Wake, OnPoll,
            PollAgain, GiveUp, Release, AfterRelease, Drop, Ttl, ExpireExec, Fail, FailOutcome, Deny,
            Return, Unwind, Begin, Finish, TypeOK
    <2> QED
      BY <2>1, <2>2, DeadlineHandler DEF DeadlineInv
  <1>2. CASE (\E r \in Reqs : Valkey(r) \/ AuthBff(r)) \/ (\E c \in late : LateExec(c)) \/ Logout
             \/ Revoke \/ UNCHANGED vars
    <2>1. UNCHANGED <<now, pc, dl>>
      BY <1>2 DEF Valkey, LoadExec, SetNxExec, AuthBff, BffRefresh, BffRefuse, BffError, BffGarble,
                  Respond, LateExec, Logout, Revoke, vars
    <2> QED
      BY <2>1 DEF DeadlineInv
  <1>3. CASE PunctualTick
    BY <1>3 DEF PunctualTick, Tick, DeadlineInv, TypeOK
  <1> QED
    BY <1>1, <1>2, <1>3 DEF PunctualNext, Step

\* How long past the ceiling a phase after refresh's look at it may take.
Past(p) ==
    IF p = "acquire" THEN StoreTimeout
    ELSE IF p = "recheck" THEN 2 * StoreTimeout
    ELSE IF p = "call" THEN 2 * StoreTimeout + RefreshTimeout
    ELSE IF p = "release" THEN 3 * StoreTimeout + RefreshTimeout
    ELSE IF p = "sleep" THEN 2 * StoreTimeout + RefreshTimeout + 2 * WaitStep
    ELSE IF p = "poll" THEN 3 * StoreTimeout + RefreshTimeout + 2 * WaitStep
    ELSE Overrun

Timed == {"acquire", "recheck", "call", "release", "sleep", "poll", "ttl", "expire"}

CeilingReq(r) ==
    /\ pc[r] = "reload" =>
           /\ session = NoSession \/ session.abs = data[r].abs
           /\ reply[r] # NoReply /\ reply[r].code # "nil" => reply[r].abs = data[r].abs
    /\ pc[r] \in Timed => dl[r] < data[r].abs + Past(pc[r])
    /\ pc[r] \in {"sleep", "poll"} =>
           until[r] < data[r].abs + 2 * StoreTimeout + RefreshTimeout + WaitStep
    /\ out[r] \in {"hit", "refreshed"} => pc[r] \in {"ttl", "expire", "release", "done", "crashed"}

CeilingInv == \A r \in Reqs : CeilingReq(r)

LEMMA CeilingFrame ==
    ASSUME NEW r \in Reqs, CeilingReq(r), Ages, pc'[r] = pc[r], reply'[r] = reply[r],
           data'[r] = data[r], dl'[r] = dl[r], until'[r] = until[r], out'[r] = out[r]
    PROVE  CeilingReq(r)'
  BY DEF CeilingReq, Ages, Past, Overrun

\* Entering a phase of Timed, or the end.
LEMMA CeilingEnter ==
    ASSUME TypeOK, NEW r \in Reqs, NEW p, Begin(r, p), p \in Timed, data' = data,
           now + Budget(p) < data[r].abs + Past(p),
           p \in {"sleep", "poll"} =>
               until'[r] < data[r].abs + 2 * StoreTimeout + RefreshTimeout + WaitStep,
           out'[r] \in {"hit", "refreshed"} => p \in {"ttl", "release"}
    PROVE  CeilingReq(r)'
  BY DEF Begin, CeilingReq, Timed, TypeOK, Past, Overrun

LEMMA CeilingEnd ==
    ASSUME TypeOK, NEW r \in Reqs, NEW p \in {"done", "crashed"}, Finish(r, p)
    PROVE  CeilingReq(r)'
  BY DEF Finish, CeilingReq, Timed, TypeOK

LEMMA CeilingReturn ==
    ASSUME TypeOK, NEW r \in Reqs, NEW o, NEW t, Return(r, o, t),
           o = "refreshed" => now + StoreTimeout < data[r].abs + Overrun
    PROVE  CeilingReq(r)'
  <1>1. CASE o = "refreshed"
    <2>1. Begin(r, "ttl") /\ data' = data /\ Budget("ttl") = StoreTimeout /\ Past("ttl") = Overrun
          /\ "ttl" \in Timed
      BY <1>1 DEF Return, Budget, Past, Timed
    <2> QED
      BY <1>1, <2>1, CeilingEnter
  <1>2. CASE o # "refreshed"
    BY <1>2, CeilingEnd DEF Return
  <1> QED
    BY <1>1, <1>2

LEMMA CeilingUnwind ==
    ASSUME TypeOK, DeadlineInv, NEW r \in Reqs, CeilingReq(r), NEW o, NEW t, Unwind(r, o, t),
           pc[r] \in {"recheck", "call"}
    PROVE  CeilingReq(r)'
  <1>1. now <= dl[r] /\ dl[r] < data[r].abs + Past(pc[r])
    BY PhaseFacts DEF DeadlineInv, CeilingReq, Timed
  <1>2. Begin(r, "release") /\ data' = data /\ Budget("release") = StoreTimeout
        /\ Past("release") = 3 * StoreTimeout + RefreshTimeout /\ "release" \in Timed
    BY DEF Unwind, Budget, Past, Timed
  <1>3. now + StoreTimeout < data[r].abs + Past("release")
    BY <1>1, <1>2, TimesAreNat DEF Past, TypeOK
  <1> QED
    BY <1>2, <1>3, CeilingEnter

\* The handler's own steps.
LEMMA CeilingHandler ==
    ASSUME TypeOK, DeadInv, DeadlineInv, NEW r \in Reqs, CeilingReq(r),
           Handler(r) \/ Arrive(r) \/ Crash(r)
    PROVE  CeilingReq(r)'
  <1>0. /\ now \in Nat /\ dl[r] \in Nat /\ data[r].abs \in Nat /\ until[r] \in Nat
        /\ reply[r].abs \in Nat /\ Overrun \in Nat /\ Overrun >= StoreTimeout
    BY TimesAreNat DEF TypeOK, Reply, Overrun
  <1>1. pc[r] \in Timed => now <= dl[r] /\ dl[r] < data[r].abs + Past(pc[r])
    BY PhaseFacts DEF DeadlineInv, CeilingReq, Timed
  <1>2. /\ \A p \in {"acquire", "recheck", "release", "poll", "ttl", "expire"} : Budget(p) = StoreTimeout
        /\ Budget("call") = RefreshTimeout /\ Budget("sleep") = WaitStep
    BY DEF Budget
  <1>3. {"acquire", "recheck", "call", "release", "sleep", "poll", "ttl", "expire"} = Timed
    BY DEF Timed
  <1>4. CASE Arrive(r)
    BY <1>4 DEF Arrive, Begin, CeilingReq, Timed, locals, TypeOK
  <1>5. CASE Crash(r)
    BY <1>5, CeilingEnd DEF Crash
  <1>6. CASE OnLoad(r)
    <2>1. CASE Deny(r, "miss")
      BY <2>1, CeilingEnd DEF Deny
    <2>2. CASE Begin(r, "drop") /\ SetOut(r, "expired")
      BY <2>2 DEF Begin, SetOut, CeilingReq, Timed, TypeOK
    <2>3. CASE /\ ~PastCeiling(reply[r])
               /\ data' = [data EXCEPT ![r] = [exp |-> reply[r].exp, abs |-> reply[r].abs]]
               /\ Begin(r, "ttl")
      <3>1. data'[r].abs = reply[r].abs /\ now < reply[r].abs
        BY <2>3, <1>0 DEF PastCeiling, TypeOK
      <3>2. pc'[r] = "ttl" /\ dl'[r] = now + StoreTimeout
        BY <2>3, <1>2 DEF Begin, TypeOK
      <3>3. dl'[r] < data'[r].abs + Overrun
        BY <1>0, <3>1, <3>2, TimesAreNat
      <3> QED
        BY <3>2, <3>3 DEF CeilingReq, Past, Overrun
    <2>4. CASE /\ data' = [data EXCEPT ![r] = [exp |-> reply[r].exp, abs |-> reply[r].abs]]
               /\ reply[r].code = "ok"
               /\ Begin(r, "reload") /\ UNCHANGED <<until, tok, out>>
      <3>1. data'[r].abs = reply[r].abs /\ session' = session /\ pc[r] = "load" /\ reply[r] # NoReply
        BY <2>4, <1>6 DEF OnLoad, Has, store, TypeOK
      <3>2. session = NoSession \/ session.abs = reply[r].abs
        BY <2>4, <3>1 DEF DeadInv, DeadReq, Loads
      <3>3. pc'[r] = "reload" /\ reply'[r] = NoReply /\ out'[r] = out[r]
        BY <2>4 DEF Begin, TypeOK
      <3>4. out[r] \notin {"hit", "refreshed"}
        BY <3>1 DEF CeilingReq
      <3> QED
        BY <3>1, <3>2, <3>3, <3>4 DEF CeilingReq, Timed
    <2> QED
      BY <1>6, <2>1, <2>2, <2>3, <2>4 DEF OnLoad
  <1>7. CASE OnReload(r)
    <2>1. pc[r] = "reload" /\ reply[r] # NoReply
      BY <1>7 DEF OnReload, Has
    <2>2. reply[r].code # "nil" /\ ~PastCeiling(reply[r]) => now < data[r].abs
      BY <1>0, <2>1 DEF CeilingReq, PastCeiling
    <2>3. now < data[r].abs => now + StoreTimeout < data[r].abs + Overrun
                               /\ now + StoreTimeout < data[r].abs + Past("acquire")
      BY <1>0, TimesAreNat DEF Past
    <2>4. CASE Begin(r, "acquire") /\ UNCHANGED locals /\ reply[r].code # "nil" /\ ~PastCeiling(reply[r])
      <3>1. out'[r] \notin {"hit", "refreshed"} /\ data' = data
        BY <2>1, <2>4 DEF CeilingReq, locals
      <3> QED
        BY <1>2, <1>3, <2>2, <2>3, <2>4, <3>1, CeilingEnter
    <2> QED
      BY <1>7, <2>2, <2>3, <2>4, CeilingReturn DEF OnReload
  <1>8. CASE OnAcquire(r)
    <2>1. pc[r] = "acquire" /\ data' = data /\ out'[r] \notin {"hit", "refreshed"}
      BY <1>8 DEF OnAcquire, Has, CeilingReq
    <2>2. now < data[r].abs + StoreTimeout
      BY <1>0, <1>1, <1>3, <2>1, TimesAreNat DEF Past
    <2>3. CASE Begin(r, "recheck")
      <3>1. now + StoreTimeout < data[r].abs + Past("recheck")
        BY <1>0, <2>2, TimesAreNat DEF Past
      <3> QED
        BY <1>2, <1>3, <2>1, <2>3, <3>1, CeilingEnter
    <2>4. CASE until' = [until EXCEPT ![r] = now + MaxWait] /\ Begin(r, "sleep")
      <3>1. now + WaitStep < data[r].abs + Past("sleep")
        BY <1>0, <2>2, TimesAreNat DEF Past
      <3>2. until'[r] < data[r].abs + 2 * StoreTimeout + RefreshTimeout + WaitStep
        BY <1>0, <2>2, <2>4, TimesAreNat DEF MaxWait, TypeOK
      <3> QED
        BY <1>2, <1>3, <2>1, <2>4, <3>1, <3>2, CeilingEnter
    <2> QED
      BY <1>8, <2>3, <2>4 DEF OnAcquire
  <1>9. CASE OnRecheck(r)
    <2>1. pc[r] = "recheck"
      BY <1>9 DEF OnRecheck, Has
    <2>2. CASE Begin(r, "call") /\ UNCHANGED locals
      <3>1. out'[r] \notin {"hit", "refreshed"} /\ data' = data
        BY <2>1, <2>2 DEF CeilingReq, locals
      <3>2. now < data[r].abs + 2 * StoreTimeout
        BY <1>0, <1>1, <1>3, <2>1, TimesAreNat DEF Past
      <3>3. now + RefreshTimeout < data[r].abs + Past("call")
        BY <1>0, <3>2, TimesAreNat DEF Past
      <3> QED
        BY <1>2, <1>3, <2>2, <3>1, <3>3, CeilingEnter
    <2> QED
      BY <1>9, <2>1, <2>2, CeilingUnwind DEF OnRecheck
  <1>10. CASE OnCall(r)
    BY <1>10, CeilingUnwind DEF OnCall, Has
  <1>11. CASE Wake(r)
    <2>1. pc[r] = "sleep" /\ Begin(r, "poll") /\ UNCHANGED <<data, until, out>>
      BY <1>11 DEF Wake, locals
    <2>2. now < data[r].abs + 2 * StoreTimeout + RefreshTimeout + 2 * WaitStep
      BY <1>0, <1>1, <1>3, <2>1, TimesAreNat DEF Past
    <2>3. now + StoreTimeout < data[r].abs + Past("poll")
      BY <1>0, <2>2, TimesAreNat DEF Past
    <2> QED
      BY <1>2, <1>3, <2>1, <2>3, CeilingEnter DEF CeilingReq
  <1>12. CASE PollAgain(r)
    <2>1. pc[r] = "poll" /\ now < until[r] /\ Begin(r, "sleep") /\ UNCHANGED <<data, until, out>>
      BY <1>12 DEF PollAgain, Has, locals
    <2>2. until[r] < data[r].abs + 2 * StoreTimeout + RefreshTimeout + WaitStep
      BY <2>1 DEF CeilingReq
    <2>3. now + WaitStep < data[r].abs + Past("sleep")
      BY <1>0, <2>1, <2>2, TimesAreNat DEF Past
    <2> QED
      BY <1>2, <1>3, <2>1, <2>2, <2>3, CeilingEnter DEF CeilingReq
  <1>13. CASE OnPoll(r) \/ GiveUp(r)
    <2>1. pc[r] = "poll"
      BY <1>13 DEF OnPoll, GiveUp, Has
    <2>2. now + StoreTimeout < data[r].abs + Overrun
      BY <1>0, <1>1, <1>3, <2>1, TimesAreNat DEF Past, Overrun
    <2> QED
      BY <1>13, <2>2, CeilingReturn DEF OnPoll, GiveUp
  <1>14. ASSUME AfterRelease(r), pc[r] = "release", UNCHANGED locals PROVE CeilingReq(r)'
    <2>1. CASE Begin(r, "ttl")
      <3>1. now < data[r].abs + 3 * StoreTimeout + RefreshTimeout
        BY <1>0, <1>1, <1>3, <1>14, TimesAreNat DEF Past
      <3>2. now + StoreTimeout < data[r].abs + Past("ttl")
        BY <1>0, <3>1, TimesAreNat DEF Past, Overrun
      <3> QED
        BY <1>2, <1>3, <1>14, <2>1, <3>2, CeilingEnter DEF locals
    <2> QED
      BY <1>14, <2>1, CeilingEnd DEF AfterRelease
  <1>15. CASE Release(r) \/ Drop(r) \/ ExpireExec(r)
    BY <1>14, <1>15, CeilingEnd DEF Release, Drop, ExpireExec
  <1>16. CASE Ttl(r)
    <2>1. CASE pc' = [pc EXCEPT ![r] = "expire"] /\ UNCHANGED <<dl, reply>>
      <3>1. /\ pc[r] = "ttl" /\ pc'[r] = "expire" /\ UNCHANGED <<data, out, until>>
            /\ Past("ttl") = Overrun /\ Past("expire") = Overrun
        BY <1>16, <2>1 DEF Ttl, locals, TypeOK, Past
      <3>2. dl'[r] < data'[r].abs + Overrun
        BY <1>1, <1>3, <2>1, <3>1
      <3> QED
        BY <3>1, <3>2 DEF CeilingReq, Past, Overrun
    <2> QED
      BY <1>16, <2>1, CeilingEnd DEF Ttl
  <1>17. CASE Fail(r)
    BY <1>14, <1>17, CeilingEnd, CeilingReturn, CeilingUnwind DEF Fail, FailOutcome, Deny
  <1> QED
    BY <1>4, <1>5, <1>6, <1>7, <1>8, <1>9, <1>10, <1>11, <1>12, <1>13, <1>15, <1>16, <1>17 DEF Handler

LEMMA CeilingStep ==
    ASSUME TypeOK, TypeOK', DeadInv, DeadlineInv, CeilingInv, [Next]_vars
    PROVE  CeilingInv'
  <1>0. Ages
    BY DeadStep
  <1>1. CASE \E r \in Reqs : Handler(r) \/ Arrive(r) \/ Crash(r)
    <2>1. PICK r \in Reqs : Handler(r) \/ Arrive(r) \/ Crash(r)
      BY <1>1
    <2>2. \A s \in Reqs : s # r => data'[s] = data[s] /\ dl'[s] = dl[s] /\ until'[s] = until[s]
      BY <2>1 DEF Handler, Arrive, Crash, OnLoad, OnReload, OnAcquire, OnRecheck, OnCall, Wake, OnPoll,
            PollAgain, GiveUp, Release, AfterRelease, Drop, Ttl, ExpireExec, Fail, FailOutcome, Deny,
            Return, Unwind, Begin, Finish, locals, TypeOK
    <2> QED
      BY <1>0, <2>1, <2>2, OthersStay, CeilingHandler, CeilingFrame DEF CeilingInv
  <1>2. CASE \E r \in Reqs : Valkey(r) \/ AuthBff(r)
    <2>1. PICK r \in Reqs : Valkey(r) \/ AuthBff(r)
      BY <1>2
    <2>2. UNCHANGED <<pc, dl, data, until, out>> /\ \A s \in Reqs : s # r => reply'[s] = reply[s]
      BY <2>1 DEF Valkey, LoadExec, SetNxExec, AuthBff, BffRefresh, BffRefuse, BffError, BffGarble,
                  Respond, locals, TypeOK
    <2>3. reply'[r] = reply[r] \/ pc[r] # "reload" \/ (reply'[r] = Hmget /\ session' = session)
      BY <2>1 DEF Valkey, LoadExec, SetNxExec, AuthBff, BffRefresh, BffRefuse, BffError, BffGarble,
                  Respond, Awaits, store, TypeOK
    <2>4. Hmget.code # "nil" => session # NoSession /\ Hmget.abs = session.abs
      BY DEF Hmget, Answer, NoReply
    <2>5. CeilingReq(r)'
      BY <1>0, <2>2, <2>3, <2>4 DEF CeilingInv, CeilingReq, Ages, Past, Overrun
    <2> QED
      BY <1>0, <2>2, <2>5, CeilingFrame DEF CeilingInv
  <1>3. CASE (\E c \in late : LateExec(c)) \/ Logout \/ Revoke \/ Tick \/ UNCHANGED vars
    <2>1. UNCHANGED <<pc, dl, reply, data, until, out>>
      BY <1>3 DEF LateExec, Logout, Revoke, Tick, vars, locals
    <2> QED
      BY <1>0, <2>1, CeilingFrame DEF CeilingInv
  <1> QED
    BY <1>1, <1>2, <1>3 DEF Next, Step

\* Who is forwarded was in one of these phases.
LEMMA Forwarding ==
    ASSUME TypeOK, NEW r \in Reqs, Handler(r) \/ Arrive(r) \/ Crash(r),
           pc'[r] = "done", out'[r] \in {"hit", "refreshed"}
    PROVE  pc[r] \in {"ttl", "expire", "release", "drop"}
  <1>1. ASSUME NEW o, NEW t, Return(r, o, t) \/ Unwind(r, o, t), o # "hit" PROVE FALSE
    BY <1>1 DEF Return, Unwind, Begin, Finish, SetOut, TypeOK
  <1>2. ASSUME NEW p, Begin(r, p), p # "done" PROVE FALSE
    BY <1>2 DEF Begin, TypeOK
  <1>3. ASSUME NEW o \in {"miss", "store_error"}, Deny(r, o) PROVE FALSE
    BY <1>3 DEF Deny, SetOut, TypeOK
  <1>4. ~Arrive(r) /\ ~OnLoad(r) /\ ~OnAcquire(r) /\ ~Wake(r) /\ ~PollAgain(r)
    BY <1>2, <1>3 DEF Arrive, OnLoad, OnAcquire, Wake, PollAgain
  <1>5. ~OnReload(r) /\ ~OnRecheck(r) /\ ~OnCall(r) /\ ~OnPoll(r) /\ ~GiveUp(r)
    BY <1>1, <1>2 DEF OnReload, OnRecheck, OnCall, OnPoll, GiveUp, TokenOrErr
  <1>6. ~Crash(r)
    BY DEF Crash, Finish, TypeOK
  <1>7. CASE Fail(r)
    BY <1>1, <1>3, <1>7 DEF Fail, FailOutcome
  <1> QED
    BY <1>4, <1>5, <1>6, <1>7 DEF Handler, Release, Drop, Ttl, ExpireExec

\* A request is forwarded at most Overrun past the ceiling of its session.
THEOREM CeilingOverrunBoundedHolds == PunctualSpec => CeilingOverrunBounded
  <1>1. Init => DeadlineInv /\ CeilingInv
    BY PhaseFacts DEF Init, DeadlineInv, CeilingInv, CeilingReq, Timed
  <1>2. TypeOK /\ TypeOK' /\ DeadInv /\ DeadlineInv /\ CeilingInv /\ [PunctualNext]_vars
          => DeadlineInv' /\ CeilingInv'
    BY DeadlineStep, CeilingStep, PunctualIsSpec
  <1>3. ASSUME TypeOK, DropInv, DropInv', DeadlineInv, CeilingInv, [Next]_vars, NEW r \in Reqs,
               pc[r] # "done", pc'[r] = "done", out'[r] \in {"hit", "refreshed"}
        PROVE  now < data[r].abs + Overrun
    <2>1. PICK s \in Reqs : Handler(s) \/ Arrive(s) \/ Crash(s)
      BY <1>3 DEF Next, Step, Valkey, LoadExec, SetNxExec, AuthBff, BffRefresh, BffRefuse, BffError,
                  BffGarble, Respond, LateExec, Logout, Revoke, Tick, vars
    <2>2. s = r
      BY <1>3, <2>1, OthersStay
    <2>3. pc[r] \in {"ttl", "expire", "release", "drop"}
      BY <1>3, <2>1, <2>2, Forwarding
    <2>4. pc[r] # "drop"
      <3>1. CASE pc[r] = "drop"
        <4>1. out[r] = "expired"
          BY <3>1, <1>3 DEF DropInv
        <4>2. out' = out
          BY <2>1, <2>2, <3>1 DEF Handler, Arrive, Crash, OnLoad, OnReload, OnAcquire, OnRecheck, OnCall,
                Wake, OnPoll, PollAgain, GiveUp, Release, Drop, Ttl, ExpireExec, Fail, FailOutcome, Has,
                locals
        <4> QED
          BY <1>3, <4>1, <4>2
      <3> QED
        BY <3>1
    <2>5. now <= dl[r] /\ dl[r] < data[r].abs + Past(pc[r])
      BY <1>3, <2>3, <2>4, PhaseFacts DEF DeadlineInv, CeilingInv, CeilingReq, Timed
    <2>6. /\ now \in Nat /\ dl[r] \in Nat /\ data[r].abs \in Nat
          /\ Past(pc[r]) \in Nat /\ Past(pc[r]) <= Overrun /\ Overrun \in Nat
      <3>1. now \in Nat /\ dl[r] \in Nat /\ data[r].abs \in Nat
        BY <1>3 DEF TypeOK
      <3>2. Past(pc[r]) \in Nat /\ Past(pc[r]) <= Overrun /\ Overrun \in Nat
        <4>1. CASE pc[r] = "ttl"
          BY <4>1, TimesAreNat DEF Past, Overrun
        <4>2. CASE pc[r] = "expire"
          BY <4>2, TimesAreNat DEF Past, Overrun
        <4>3. CASE pc[r] = "release"
          BY <4>3, TimesAreNat DEF Past, Overrun
        <4> QED
          BY <2>3, <2>4, <4>1, <4>2, <4>3
      <3> QED
        BY <3>1, <3>2
    <2> QED
      BY <2>5, <2>6
  <1>4. TypeOK /\ DropInv /\ DropInv' /\ DeadlineInv /\ CeilingInv /\ [PunctualNext]_vars =>
          [\A r \in Reqs : pc[r] # "done" /\ pc'[r] = "done" /\ out'[r] \in {"hit", "refreshed"}
                             => now < data[r].abs + Overrun]_vars
    BY <1>3, PunctualIsSpec
  <1> QED
    BY <1>1, <1>2, <1>4, SafetyInvariants, WithoutHistory, PTL
       DEF CeilingOverrunBounded

-----------------------------------------------------------------------------

\* Whatever the lock TTL and the poll interval, a loser gives up at most a store
\* timeout less a poll interval before the winner it waits for is through
\* (refresh.go: maxWait).
THEOREM GivesUpLateHolds ==
    ASSUME LockOutlivesWork PROVE PunctualSpec => GivesUpLate
  <1>1. ASSUME TypeOK, LockInv, NEW r \in Reqs, NEW w \in Reqs, GivesUpOn(r, w), HasTheLock(w)
        PROVE  WorkEnd(w) <= now + StoreTimeout - WaitStep
    <2>1. now \in Nat /\ until[r] \in Nat /\ dl[w] \in Nat /\ lock.expires \in Nat
      BY <1>1 DEF TypeOK
    <2>2. now >= until[r]
      BY <1>1 DEF GivesUpOn, GiveUp
    <2>3. lock.expires + 2 * StoreTimeout + RefreshTimeout >= WorkEnd(w) + LockTTL
      <3>1. CASE pc[w] = "acquire"
        <4>1. HasLock(w, StoreTimeout)
          BY <1>1, <3>1 DEF LockInv, LockReq, HasTheLock, Holding
        <4> QED
          BY <2>1, <3>1, <4>1, TimesAreNat DEF HasLock, WorkEnd
      <3>2. CASE pc[w] = "recheck"
        <4>1. HasLock(w, 2 * StoreTimeout)
          BY <1>1, <3>2 DEF LockInv, LockReq
        <4> QED
          BY <2>1, <3>2, <4>1, TimesAreNat DEF HasLock, WorkEnd
      <3>3. CASE pc[w] = "call"
        <4>1. HasLock(w, 2 * StoreTimeout + RefreshTimeout)
          BY <1>1, <3>3 DEF LockInv, LockReq
        <4> QED
          BY <2>1, <3>3, <4>1, TimesAreNat DEF HasLock, WorkEnd
      <3> QED
        BY <1>1, <3>1, <3>2, <3>3 DEF HasTheLock, Holding
    <2>4. WorkEnd(w) \in Nat
      BY <2>1, TimesAreNat DEF WorkEnd
    <2>5. lock.expires - LockTTL <= until[r] - (RefreshTimeout + StoreTimeout + WaitStep)
      BY <1>1 DEF GivesUpOn, MaxWait
    <2> QED
      BY <2>1, <2>2, <2>3, <2>4, <2>5, TimesAreNat
  <1>2. TypeOK /\ LockInv =>
          [\A r, w \in Reqs :
              GivesUpOn(r, w) /\ HasTheLock(w) => WorkEnd(w) <= now + StoreTimeout - WaitStep]_vars
    BY <1>1
  <1> QED
    BY <1>2, PunctualInvariants, PTL DEF GivesUpLate

-----------------------------------------------------------------------------
(* AnsweredInTime.  The deadlines of a request's phases also add up from   *)
(* its arrival; only the polling takes several rounds, and `until' ends it.*)

ArrivedType == arrived \in [Reqs -> Nat]

\* How long after its arrival the operation of a phase may still be running.
Spent(p) ==
    IF p = "load" THEN StoreTimeout
    ELSE IF p \in {"reload", "drop"} THEN 2 * StoreTimeout
    ELSE IF p = "acquire" THEN 3 * StoreTimeout
    ELSE IF p = "recheck" THEN 4 * StoreTimeout
    ELSE IF p = "call" THEN 4 * StoreTimeout + RefreshTimeout
    ELSE IF p = "release" THEN 5 * StoreTimeout + RefreshTimeout
    ELSE IF p = "sleep" THEN 4 * StoreTimeout + RefreshTimeout + 2 * WaitStep
    ELSE IF p = "poll" THEN 5 * StoreTimeout + RefreshTimeout + 2 * WaitStep
    ELSE AnswerTime

Closing == {"sleep", "poll", "ttl", "expire"}

Waited(r) == until[r] <= arrived[r] + 4 * StoreTimeout + RefreshTimeout + WaitStep

AgeReq(r) ==
    /\ pc[r] \in Active => dl[r] <= arrived[r] + Spent(pc[r])
    /\ pc[r] \in Closing => dl[r] < arrived[r] + Spent(pc[r])
    /\ pc[r] \in {"sleep", "poll"} => Waited(r)

AgeInv == \A r \in Reqs : AgeReq(r)

LEMMA SpentFacts ==
    /\ WaitStep > 0 /\ AnswerTime \in Nat
    /\ AnswerTime = 6 * StoreTimeout + RefreshTimeout + 2 * WaitStep
    /\ \A p \in Active : Spent(p) \in Nat /\ Spent(p) <= AnswerTime
    /\ \A p \in Active \ Closing : Spent(p) < AnswerTime
    /\ \A p \in Active : Budget(p) \in Nat
  BY TimesAssumption, TimesAreNat DEF Spent, AnswerTime, Closing, Budget, Active, Pending, Loads, Writes

\* Entering the next phase.
LEMMA AgeEnter ==
    ASSUME TypeOK, ArrivedType, Remember, NEW r \in Reqs, pc[r] \in Active,
           NEW p \in Active, Begin(r, p),
           now + Budget(p) <= arrived[r] + Spent(p),
           p \in Closing => now + Budget(p) < arrived[r] + Spent(p),
           p \in {"sleep", "poll"} => until'[r] <= arrived[r] + 4 * StoreTimeout + RefreshTimeout + WaitStep
    PROVE  AgeReq(r)'
  <1>1. pc'[r] = p /\ dl'[r] = now + Budget(p)
    BY DEF Begin, TypeOK
  <1>2. arrived'[r] = arrived[r]
    BY <1>1, PhaseFacts DEF Remember
  <1> QED
    BY <1>1, <1>2 DEF AgeReq, Waited, Spent, AnswerTime

LEMMA AgeEnd ==
    ASSUME TypeOK, NEW r \in Reqs, NEW p \in {"done", "crashed"}, Finish(r, p)
    PROVE  AgeReq(r)'
  <1>1. pc'[r] \notin Active /\ pc'[r] \notin Closing /\ pc'[r] \notin {"sleep", "poll"}
    BY PhaseFacts DEF Finish, TypeOK, Closing
  <1> QED
    BY <1>1 DEF AgeReq

\* renewIdle comes last, and there is time for it after any phase that it follows.
LEMMA AgeReturn ==
    ASSUME TypeOK, ArrivedType, DeadlineInv, Remember, NEW r \in Reqs, AgeReq(r),
           pc[r] \in {"load", "reload", "acquire", "poll", "release"},
           Begin(r, "ttl") \/ Finish(r, "done")
    PROVE  AgeReq(r)'
  <1>1. now <= dl[r] /\ dl[r] <= arrived[r] + Spent(pc[r])
        /\ (pc[r] = "poll" => dl[r] < arrived[r] + Spent(pc[r]))
    BY PhaseFacts DEF DeadlineInv, AgeReq, Closing
  <1>2. now \in Nat /\ dl[r] \in Nat /\ arrived[r] \in Nat
    BY DEF TypeOK, ArrivedType
  <1>3. CASE Begin(r, "ttl")
    <2>1. Budget("ttl") = StoreTimeout /\ Spent("ttl") = AnswerTime /\ "ttl" \in Active
      BY PhaseFacts DEF Budget, Spent
    <2>2. now + StoreTimeout < arrived[r] + AnswerTime
      <3>1. CASE pc[r] = "poll"
        BY <1>1, <1>2, <3>1, TimesAreNat DEF Spent, AnswerTime
      <3>2. CASE pc[r] # "poll"
        <4>1. Spent(pc[r]) <= 5 * StoreTimeout + RefreshTimeout /\ Spent(pc[r]) \in Nat
          <5>1. \/ Spent(pc[r]) = StoreTimeout
                \/ Spent(pc[r]) = 2 * StoreTimeout
                \/ Spent(pc[r]) = 3 * StoreTimeout
                \/ Spent(pc[r]) = 5 * StoreTimeout + RefreshTimeout
            BY <3>2, Zenon DEF Spent
          <5> QED
            BY <5>1, TimesAreNat
        <4> QED
          <5>1. /\ StoreTimeout \in Nat /\ RefreshTimeout \in Nat
                /\ WaitStep \in Nat /\ WaitStep > 0
            BY TimesAreNat, SpentFacts
          <5>2. now + StoreTimeout <= arrived[r] + (6 * StoreTimeout + RefreshTimeout)
            BY <1>1, <1>2, <4>1, <5>1
          <5> QED
            BY <1>2, <5>1, <5>2 DEF AnswerTime
      <3> QED
        BY <3>1, <3>2
    <2> QED
      BY <1>2, <1>3, <2>1, <2>2, AgeEnter, PhaseFacts, SpentFacts, TimesAreNat DEF Closing
  <1> QED
    BY <1>3, AgeEnd

LEMMA AgeUnwind ==
    ASSUME TypeOK, ArrivedType, DeadlineInv, Remember, NEW r \in Reqs, AgeReq(r),
           pc[r] \in {"recheck", "call"}, Begin(r, "release")
    PROVE  AgeReq(r)'
  <1>1. now <= dl[r] /\ dl[r] <= arrived[r] + Spent(pc[r])
    BY PhaseFacts DEF DeadlineInv, AgeReq
  <1>2. now \in Nat /\ dl[r] \in Nat /\ arrived[r] \in Nat
    BY DEF TypeOK, ArrivedType
  <1>3. Budget("release") = StoreTimeout /\ "release" \in Active
        /\ Spent("release") = 5 * StoreTimeout + RefreshTimeout
        /\ "release" \notin Closing
    BY PhaseFacts DEF Budget, Spent, Closing
  <1>4. now + StoreTimeout <= arrived[r] + Spent("release")
    BY <1>1, <1>2, <1>3, TimesAreNat DEF Spent
  <1> QED
    BY <1>3, <1>4, AgeEnter, PhaseFacts

LEMMA AgeHandler ==
    ASSUME TypeOK, ArrivedType, DeadlineInv, Remember, NEW r \in Reqs, AgeReq(r),
           Handler(r) \/ Arrive(r) \/ Crash(r)
    PROVE  AgeReq(r)'
  <1>0. /\ now \in Nat /\ dl[r] \in Nat /\ arrived[r] \in Nat /\ until[r] \in Nat
    BY DEF TypeOK, ArrivedType
  <1>1. pc[r] \in Active => now <= dl[r] /\ dl[r] <= arrived[r] + Spent(pc[r])
    BY DEF DeadlineInv, AgeReq
  <1>2. /\ \A p \in {"load", "reload", "acquire", "recheck", "poll", "drop"} : Budget(p) = StoreTimeout
        /\ Budget("call") = RefreshTimeout /\ Budget("sleep") = WaitStep
    BY DEF Budget
  <1>3. {"load", "reload", "acquire", "recheck", "call", "drop"} \cap Closing = {}
    BY DEF Closing
  <1>4. CASE Arrive(r)
    <2>1. pc[r] = "new" /\ pc'[r] = "load" /\ dl'[r] = now + StoreTimeout
      BY <1>2, <1>4 DEF Arrive, Begin, TypeOK
    <2>2. arrived'[r] = now
      BY <2>1, PhaseFacts DEF Remember
    <2>3. AgeReq(r)' <=> dl'[r] <= arrived'[r] + StoreTimeout
      BY <2>1, <1>3, PhaseFacts DEF AgeReq, Spent, Closing
    <2> QED
      BY <1>0, <2>1, <2>2, <2>3, TimesAreNat
  <1>5. CASE Crash(r)
    BY <1>5, AgeEnd DEF Crash
  <1>6. CASE OnLoad(r)
    <2>1. pc[r] = "load" /\ now <= arrived[r] + StoreTimeout
      BY <1>0, <1>1, <1>6, PhaseFacts, TimesAreNat DEF OnLoad, Has, Spent
    <2>2. CASE Begin(r, "drop") \/ Begin(r, "reload")
      <3>1. now + StoreTimeout <= arrived[r] + Spent("drop") /\ Spent("reload") = Spent("drop")
        BY <1>0, <2>1, TimesAreNat DEF Spent
      <3> QED
        BY <1>2, <1>3, <2>1, <2>2, <3>1, AgeEnter, PhaseFacts
    <2> QED
      BY <1>6, <2>1, <2>2, AgeReturn, AgeEnd DEF OnLoad, Deny
  <1>7. CASE OnReload(r)
    <2>1. pc[r] = "reload" /\ now <= arrived[r] + 2 * StoreTimeout
      BY <1>0, <1>1, <1>7, PhaseFacts, TimesAreNat DEF OnReload, Has, Spent
    <2>2. CASE Begin(r, "acquire")
      <3>1. now + StoreTimeout <= arrived[r] + Spent("acquire")
        BY <1>0, <2>1, TimesAreNat DEF Spent
      <3> QED
        BY <1>2, <1>3, <2>1, <2>2, <3>1, AgeEnter, PhaseFacts
    <2> QED
      BY <1>7, <2>1, <2>2, AgeReturn DEF OnReload, Return
  <1>8. CASE OnAcquire(r)
    <2>1. pc[r] = "acquire" /\ now <= arrived[r] + 3 * StoreTimeout
      BY <1>0, <1>1, <1>8, PhaseFacts, TimesAreNat DEF OnAcquire, Has, Spent
    <2>2. CASE Begin(r, "recheck")
      <3>1. now + StoreTimeout <= arrived[r] + Spent("recheck")
        BY <1>0, <2>1, TimesAreNat DEF Spent
      <3> QED
        BY <1>2, <1>3, <2>1, <2>2, <3>1, AgeEnter, PhaseFacts
    <2>3. CASE until' = [until EXCEPT ![r] = now + MaxWait] /\ Begin(r, "sleep")
      <3>1. now + WaitStep < arrived[r] + Spent("sleep")
        BY <1>0, <2>1, SpentFacts, TimesAreNat, TimesAssumption DEF Spent
      <3>2. until'[r] <= arrived[r] + 4 * StoreTimeout + RefreshTimeout + WaitStep
        BY <1>0, <2>1, <2>3, TimesAreNat DEF MaxWait, TypeOK
      <3>3. now + WaitStep <= arrived[r] + Spent("sleep")
        BY <1>0, <3>1, SpentFacts, PhaseFacts, TimesAreNat
      <3> QED
        BY <1>2, <2>1, <2>3, <3>1, <3>2, <3>3, AgeEnter, PhaseFacts
    <2> QED
      BY <1>8, <2>2, <2>3 DEF OnAcquire
  <1>9. CASE OnRecheck(r)
    <2>1. pc[r] = "recheck" /\ now <= arrived[r] + 4 * StoreTimeout
      BY <1>0, <1>1, <1>9, PhaseFacts, TimesAreNat DEF OnRecheck, Has, Spent
    <2>2. CASE Begin(r, "call")
      <3>1. now + RefreshTimeout <= arrived[r] + Spent("call")
        BY <1>0, <2>1, TimesAreNat DEF Spent
      <3> QED
        BY <1>2, <1>3, <2>1, <2>2, <3>1, AgeEnter, PhaseFacts
    <2> QED
      BY <1>9, <2>1, <2>2, AgeUnwind DEF OnRecheck, Unwind
  <1>10. CASE OnCall(r)
    BY <1>10, AgeUnwind DEF OnCall, Has, Unwind
  <1>11. CASE Wake(r)
    <2>1. pc[r] = "sleep" /\ Begin(r, "poll") /\ UNCHANGED until /\ Waited(r)
          /\ dl[r] < arrived[r] + Spent("sleep")
      BY <1>11 DEF Wake, locals, AgeReq, Closing
    <2>2. now + StoreTimeout < arrived[r] + Spent("poll")
      BY <1>0, <1>1, <2>1, PhaseFacts, TimesAreNat DEF Spent
    <2>3. now + StoreTimeout <= arrived[r] + Spent("poll")
      BY <1>0, <2>2, SpentFacts, PhaseFacts, TimesAreNat
    <2> QED
      BY <1>2, <2>1, <2>2, <2>3, AgeEnter, PhaseFacts DEF Waited
  <1>12. CASE PollAgain(r)
    <2>1. pc[r] = "poll" /\ now < until[r] /\ Begin(r, "sleep") /\ UNCHANGED until /\ Waited(r)
      BY <1>12 DEF PollAgain, Has, locals, AgeReq
    <2>2. now + WaitStep < arrived[r] + Spent("sleep")
      BY <1>0, <2>1, TimesAreNat DEF Waited, Spent
    <2>3. now + WaitStep <= arrived[r] + Spent("sleep")
      BY <1>0, <2>2, SpentFacts, PhaseFacts, TimesAreNat
    <2> QED
      BY <1>2, <2>1, <2>2, <2>3, AgeEnter, PhaseFacts DEF Waited
  <1>13. CASE OnPoll(r) \/ GiveUp(r)
    BY <1>13, AgeReturn DEF OnPoll, GiveUp, Has, Return
  <1>14. CASE Release(r) \/ Drop(r) \/ ExpireExec(r)
    BY <1>14, AgeReturn, AgeEnd DEF Release, AfterRelease, Drop, ExpireExec
  <1>15. CASE Ttl(r)
    <2>1. CASE pc' = [pc EXCEPT ![r] = "expire"] /\ UNCHANGED <<dl, reply>>
      <3>1. pc[r] = "ttl" /\ pc'[r] = "expire" /\ dl'[r] = dl[r]
        BY <1>15, <2>1 DEF Ttl, TypeOK
      <3>2. arrived'[r] = arrived[r]
        BY <3>1, PhaseFacts DEF Remember
      <3> QED
        BY <3>1, <3>2, PhaseFacts DEF AgeReq, Spent, AnswerTime, Closing
    <2> QED
      BY <1>15, <2>1, AgeEnd DEF Ttl
  <1>16. CASE Fail(r)
    BY <1>16, AgeReturn, AgeUnwind, AgeEnd
       DEF Fail, FailOutcome, Deny, Return, Unwind, AfterRelease
  <1> QED
    BY <1>4, <1>5, <1>6, <1>7, <1>8, <1>9, <1>10, <1>11, <1>12, <1>13, <1>14, <1>15, <1>16 DEF Handler

LEMMA AgeFrame ==
    ASSUME TypeOK, ArrivedType, Remember, NEW r \in Reqs, AgeReq(r),
           pc'[r] = pc[r], dl'[r] = dl[r], until'[r] = until[r]
    PROVE  AgeReq(r)'
  <1>1. pc[r] \in Active => arrived'[r] = arrived[r]
    BY PhaseFacts DEF Remember
  <1>2. Closing \subseteq Active /\ {"sleep", "poll"} \subseteq Active
    BY PhaseFacts DEF Closing
  <1> QED
    BY <1>1, <1>2 DEF AgeReq, Waited, Spent, AnswerTime

LEMMA AgeStep ==
    ASSUME TypeOK, ArrivedType, DeadlineInv, AgeInv, PunctualNext, Remember
    PROVE  ArrivedType' /\ AgeInv'
  <1>1. ArrivedType'
    BY DEF ArrivedType, Remember, TypeOK
  <1>2. CASE \E r \in Reqs : Handler(r) \/ Arrive(r) \/ Crash(r)
    <2>1. PICK r \in Reqs : Handler(r) \/ Arrive(r) \/ Crash(r)
      BY <1>2
    <2>2. \A s \in Reqs : s # r => dl'[s] = dl[s] /\ until'[s] = until[s]
      BY <2>1 DEF Handler, Arrive, Crash, OnLoad, OnReload, OnAcquire, OnRecheck, OnCall, Wake, OnPoll,
            PollAgain, GiveUp, Release, AfterRelease, Drop, Ttl, ExpireExec, Fail, FailOutcome, Deny,
            Return, Unwind, Begin, Finish, locals, TypeOK
    <2> QED
      BY <1>1, <2>1, <2>2, OthersStay, AgeHandler, AgeFrame DEF AgeInv
  <1>3. CASE (\E r \in Reqs : Valkey(r) \/ AuthBff(r)) \/ (\E c \in late : LateExec(c)) \/ Logout
             \/ Revoke \/ PunctualTick
    <2>1. UNCHANGED <<pc, dl, until>>
      BY <1>3 DEF Valkey, LoadExec, SetNxExec, AuthBff, BffRefresh, BffRefuse, BffError, BffGarble,
                  Respond, LateExec, Logout, Revoke, PunctualTick, Tick, locals
    <2> QED
      BY <1>1, <2>1, AgeFrame DEF AgeInv
  <1> QED
    BY <1>2, <1>3 DEF PunctualNext, Step

\* On a punctual host every request is answered less than AnswerTime after it
\* arrived, whatever fails, is late or crashes around it (main.go: ServeHTTP up
\* to h.ServeHTTP, refresh.go: waitForOtherRefresh).
THEOREM AnsweredInTimeHolds == PunctualSpec => []AnsweredInTime
  <1>1. PunctualInit => TypeOK /\ ArrivedType /\ DeadlineInv /\ AgeInv
    <2>1. Init => TypeOK
      BY InitType
    <2> QED
      BY <2>1, PhaseFacts DEF PunctualInit, Init, ArrivedType, DeadlineInv, AgeInv, AgeReq, Closing
  <1>2. TypeOK /\ ArrivedType /\ DeadlineInv /\ AgeInv /\ [PunctualNext /\ Remember]_punctualVars
          => (TypeOK /\ ArrivedType /\ DeadlineInv /\ AgeInv)'
    <2> SUFFICES ASSUME TypeOK, ArrivedType, DeadlineInv, AgeInv,
                        [PunctualNext /\ Remember]_punctualVars
                 PROVE  (TypeOK /\ ArrivedType /\ DeadlineInv /\ AgeInv)'
      OBVIOUS
    <2>1. [PunctualNext]_vars
      BY DEF punctualVars
    <2>2. TypeOK' /\ DeadlineInv'
      BY <2>1, TypeStep, DeadlineStep, PunctualIsSpec
    <2>3. CASE UNCHANGED punctualVars
      BY <2>2, <2>3 DEF punctualVars, vars, locals, ArrivedType, AgeInv, AgeReq, Waited, Spent, AnswerTime
    <2> QED
      BY <2>2, <2>3, AgeStep
  <1>3. TypeOK /\ ArrivedType /\ DeadlineInv /\ AgeInv => AnsweredInTime
    <2> SUFFICES ASSUME TypeOK, ArrivedType, DeadlineInv, AgeInv, NEW r \in Reqs, pc[r] \in Active
                 PROVE  now < arrived[r] + AnswerTime
      BY DEF AnsweredInTime
    <2>1. now <= dl[r] /\ AgeReq(r)
      BY DEF DeadlineInv, AgeInv
    <2>2. now \in Nat /\ dl[r] \in Nat /\ arrived[r] \in Nat
      BY DEF TypeOK, ArrivedType
    <2>3. CASE pc[r] \in Closing
      BY <2>1, <2>2, <2>3, SpentFacts DEF AgeReq
    <2>4. CASE pc[r] \notin Closing
      BY <2>1, <2>2, <2>4, SpentFacts DEF AgeReq
    <2> QED
      BY <2>3, <2>4
  <1> QED
    BY <1>1, <1>2, <1>3, PTL DEF PunctualSpec

=============================================================================
