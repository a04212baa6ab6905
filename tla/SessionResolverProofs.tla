----------------------- MODULE SessionResolverProofs -----------------------
(* Proofs about SessionResolver: whatever the delays and the failures. *)
EXTENDS SessionResolver, TLAPS

-----------------------------------------------------------------------------
(* What the phase changes do to the typed state. *)

\* Entering a phase keeps pc, dl and reply typed.
LEMMA BeginType ==
    ASSUME TypeOK, NEW r \in Reqs, NEW p \in Active, Begin(r, p)
    PROVE  /\ pc' \in [Reqs -> Phases]
           /\ dl' \in [Reqs -> Nat]
           /\ reply' \in [Reqs -> Reply]
  <1>1. Budget(p) \in Nat
    BY TimesAssumption DEF Budget
  <1>2. NoReply \in Reply
    BY DEF NoReply, Reply
  <1> QED
    BY <1>1, <1>2 DEF TypeOK, Begin, Phases

\* So does leaving the last one.
LEMMA FinishType ==
    ASSUME TypeOK, NEW r \in Reqs, NEW p \in {"done", "crashed"}, Finish(r, p)
    PROVE  /\ pc' \in [Reqs -> Phases]
           /\ dl' \in [Reqs -> Nat]
           /\ reply' \in [Reqs -> Reply]
  <1>1. NoReply \in Reply
    BY DEF NoReply, Reply
  <1> QED
    BY <1>1 DEF TypeOK, Finish, Phases

\* The handler's part of the state.
LocalsOK ==
    /\ pc \in [Reqs -> Phases]
    /\ dl \in [Reqs -> Nat]
    /\ reply \in [Reqs -> Reply]
    /\ data \in [Reqs -> [exp : Nat, abs : Nat]]
    /\ until \in [Reqs -> Nat]
    /\ tok \in [Reqs -> Nat]
    /\ out \in [Reqs -> Outcomes]

\* The ways a handler ends an operation keep the handler's state typed.
LEMMA EndingsType ==
    ASSUME TypeOK, NEW r \in Reqs, NEW o \in Outcomes, NEW t \in Nat,
           Deny(r, o) \/ Return(r, o, t) \/ Unwind(r, o, t)
    PROVE  LocalsOK'
  <1>1. CASE Deny(r, o)
    BY <1>1, FinishType DEF Deny, SetOut, LocalsOK, TypeOK
  <1>2. CASE Return(r, o, t)
    <2>1. "ttl" \in Active
      BY DEF Active, Pending
    <2> QED
      BY <1>2, <2>1, BeginType, FinishType DEF Return, SetOut, LocalsOK, TypeOK
  <1>3. CASE Unwind(r, o, t)
    <2>1. "release" \in Active
      BY DEF Active, Pending, Writes
    <2> QED
      BY <1>3, <2>1, BeginType DEF Unwind, SetOut, LocalsOK, TypeOK
  <1> QED
    BY <1>1, <1>2, <1>3

\* What the store's side consists of.
StoreOK ==
    /\ now \in Nat
    /\ session \in Session
    /\ lock \in [owner : Reqs \cup {Nobody}, expires : Nat]
    /\ late \in SUBSET [req : Reqs, cmd : Writes]
    /\ spoiled \in BOOLEAN
    /\ job \in [Reqs -> {"none", "running"}]

LEMMA TypeParts == StoreOK' /\ LocalsOK' => TypeOK'
  BY DEF TypeOK, StoreOK, LocalsOK

\* Answers are replies, and phases are what their names say.
LEMMA AnswerType ==
    /\ NoReply \in Reply
    /\ \A c \in {"ok", "nil", "unauthorized", "status"} : Answer(c) \in Reply
  BY DEF NoReply, Reply, Answer

LEMMA PhaseFacts ==
    /\ {"load", "reload", "recheck", "poll", "acquire", "release", "drop",
        "expire", "call", "ttl", "sleep"} = Active
    /\ Active \subseteq Phases
  BY DEF Active, Pending, Loads, Writes, Phases

LEMMA HmgetType == ASSUME TypeOK PROVE Hmget \in Reply
  BY AnswerType DEF Hmget, TypeOK, Session, Reply

\* auth-bff's new exp is a time beyond the one it replaces.
LEMMA NextExpType ==
    ASSUME TypeOK PROVE NextExp \in Nat /\ NextExp > session.exp
  BY TimesAssumption DEF NextExp, TypeOK, Session

-----------------------------------------------------------------------------

LEMMA InitType == Init => TypeOK
  <1> SUFFICES ASSUME Init PROVE TypeOK
    OBVIOUS
  <1>1. session \in Session
    BY SessionsAssumption DEF Init, NoSession, Session
  <1>2. LocalsOK
    BY AnswerType DEF Init, LocalsOK, Phases, Outcomes
  <1> QED
    BY <1>1, <1>2 DEF Init, TypeOK, LocalsOK, NoLock

\* What a failing operation does to the store's side.
LEMMA LeaveType ==
    ASSUME TypeOK, NEW r \in Reqs
    PROVE  /\ LeaveBehind(r) => late' \in SUBSET [req : Reqs, cmd : Writes]
           /\ HangUp(r) => job' \in [Reqs -> {"none", "running"}]
  BY DEF TypeOK, LeaveBehind, HangUp

LEMMA WriteType ==
    ASSUME TypeOK, NEW r \in Reqs
    PROVE  /\ SetNx(r) => lock' \in [owner : Reqs \cup {Nobody}, expires : Nat]
           /\ CompareAndDelete(r) => lock' \in [owner : Reqs \cup {Nobody}, expires : Nat]
  BY TimesAssumption DEF TypeOK, SetNx, CompareAndDelete, NoLock

LEMMA RecordType ==
    ASSUME TypeOK
    PROVE  /\ now + IdleTTL \in Nat
           /\ Del => session' \in Session
           /\ Expire => session' \in Session
  BY TimesAssumption DEF TypeOK, Del, Expire, NoSession, Session

LEMMA HandlerType ==
    ASSUME TypeOK, NEW r \in Reqs, Handler(r) \/ Arrive(r) \/ Crash(r)
    PROVE  TypeOK'
  <1> USE PhaseFacts
  <1>1. CASE Arrive(r)
    BY <1>1, BeginType DEF Arrive, TypeOK, store, bff, locals
  <1>2. CASE OnLoad(r)
    <2>1. reply[r] \in Reply
      BY DEF TypeOK
    <2>2. CASE Deny(r, "miss")
      BY <2>2, <1>2, EndingsType, TypeParts DEF OnLoad, TypeOK, StoreOK, store, bff, Outcomes
    <2>3. CASE Begin(r, "drop") /\ SetOut(r, "expired") /\ UNCHANGED <<data, until, tok>>
      BY <2>3, <1>2, BeginType DEF OnLoad, SetOut, TypeOK, store, bff, Outcomes
    <2>4. CASE /\ data' = [data EXCEPT ![r] = [exp |-> reply[r].exp, abs |-> reply[r].abs]]
               /\ tok' = [tok EXCEPT ![r] = reply[r].tok]
               /\ Begin(r, "ttl") /\ SetOut(r, "hit") /\ UNCHANGED until
      BY <2>1, <2>4, <1>2, BeginType DEF OnLoad, SetOut, TypeOK, store, bff, Outcomes, Reply
    <2>5. CASE /\ data' = [data EXCEPT ![r] = [exp |-> reply[r].exp, abs |-> reply[r].abs]]
               /\ Begin(r, "reload") /\ UNCHANGED <<until, tok, out>>
      BY <2>1, <2>5, <1>2, BeginType DEF OnLoad, TypeOK, store, bff, Reply
    <2> QED
      BY <2>2, <2>3, <2>4, <2>5, <1>2 DEF OnLoad
  <1>3. CASE OnReload(r)
    <2>1. reply[r].tok \in Nat /\ TokenOrErr(reply[r]) \in Outcomes
      BY DEF TypeOK, Reply, TokenOrErr, Outcomes
    <2>2. CASE \E o \in Outcomes, t \in Nat : Return(r, o, t)
      BY <2>2, <1>3, EndingsType, TypeParts DEF OnReload, TypeOK, StoreOK, store, bff
    <2>3. CASE Begin(r, "acquire") /\ UNCHANGED locals
      BY <2>3, <1>3, BeginType DEF OnReload, TypeOK, store, bff, locals
    <2> QED
      BY <2>1, <2>2, <2>3, <1>3 DEF OnReload, Outcomes
  <1>4. CASE OnAcquire(r)
    <2>1. now + MaxWait \in Nat
      BY TimesAssumption DEF TypeOK, MaxWait
    <2> QED
      BY <2>1, <1>4, BeginType DEF OnAcquire, TypeOK, store, bff
  <1>5. CASE OnRecheck(r)
    <2>1. reply[r].tok \in Nat /\ TokenOrErr(reply[r]) \in Outcomes
      BY DEF TypeOK, Reply, TokenOrErr, Outcomes
    <2>2. CASE (\E o \in Outcomes, t \in Nat : Unwind(r, o, t)) /\ UNCHANGED job
      BY <2>2, <1>5, EndingsType, TypeParts DEF OnRecheck, TypeOK, StoreOK, store
    <2>3. CASE Begin(r, "call") /\ job' = [job EXCEPT ![r] = "running"] /\ UNCHANGED locals
      BY <2>3, <1>5, BeginType DEF OnRecheck, TypeOK, store, locals
    <2> QED
      BY <2>1, <2>2, <2>3, <1>5 DEF OnRecheck, Outcomes
  <1>6. CASE OnCall(r)
    <2>1. reply[r].tok \in Nat /\ TokenOrErr(reply[r]) \in Outcomes
      BY DEF TypeOK, Reply, TokenOrErr, Outcomes
    <2>2. \E o \in Outcomes, t \in Nat : Unwind(r, o, t)
      BY <2>1, <1>6 DEF OnCall, Outcomes
    <2> QED
      BY <2>2, <1>6, EndingsType, TypeParts DEF OnCall, TypeOK, StoreOK, store, bff
  <1>7. CASE Wake(r) \/ PollAgain(r)
    BY <1>7, BeginType DEF Wake, PollAgain, TypeOK, store, bff, locals
  <1>8. CASE OnPoll(r) \/ GiveUp(r)
    <2>1. reply[r].tok \in Nat /\ TokenOrErr(reply[r]) \in Outcomes
      BY DEF TypeOK, Reply, TokenOrErr, Outcomes
    <2>2. \E o \in Outcomes, t \in Nat : Return(r, o, t)
      BY <2>1, <1>8 DEF OnPoll, GiveUp, Outcomes
    <2> QED
      BY <2>2, <1>8, EndingsType, TypeParts DEF OnPoll, GiveUp, TypeOK, StoreOK, store, bff
  <1>9. CASE Release(r)
    BY <1>9, BeginType, FinishType, WriteType
       DEF Release, AfterRelease, TypeOK, bff, locals
  <1>10. CASE Drop(r) \/ ExpireExec(r)
    BY <1>10, FinishType, RecordType DEF Drop, ExpireExec, TypeOK, bff, locals
  <1>11. CASE Ttl(r)
    <2>1. CASE pc' = [pc EXCEPT ![r] = "expire"] /\ UNCHANGED <<dl, reply>>
      BY <2>1, <1>11 DEF Ttl, TypeOK, store, bff, locals
    <2>2. CASE Finish(r, "done")
      BY <2>2, <1>11, FinishType DEF Ttl, TypeOK, store, bff, locals
    <2> QED
      BY <2>1, <2>2, <1>11 DEF Ttl
  <1>12. CASE Fail(r)
    <2>1. LocalsOK'
      <3>1. CASE \E o \in Outcomes : Deny(r, o) \/ Return(r, o, 0) \/ Unwind(r, o, 0)
        BY <3>1, EndingsType
      <3>2. CASE AfterRelease(r) /\ UNCHANGED locals
        BY <3>2, BeginType, FinishType DEF AfterRelease, LocalsOK, TypeOK, locals
      <3>3. CASE Finish(r, "done") /\ UNCHANGED locals
        BY <3>3, FinishType DEF LocalsOK, TypeOK, locals
      <3> QED
        BY <3>1, <3>2, <3>3, <1>12 DEF Fail, FailOutcome, Outcomes
    <2>2. StoreOK'
      BY <1>12, LeaveType DEF Fail, TypeOK, StoreOK
    <2> QED
      BY <2>1, <2>2, TypeParts
  <1>13. CASE Crash(r)
    BY <1>13, FinishType, LeaveType DEF Crash, TypeOK, locals
  <1> QED
    BY <1>1, <1>2, <1>3, <1>4, <1>5, <1>6, <1>7, <1>8, <1>9, <1>10, <1>11, <1>12, <1>13
       DEF Handler

LEMMA ServersType ==
    ASSUME TypeOK, NEW r \in Reqs, Valkey(r) \/ AuthBff(r)
    PROVE  TypeOK'
  <1>1. CASE LoadExec(r)
    BY <1>1, HmgetType DEF LoadExec, TypeOK, store, bff, locals
  <1>2. CASE SetNxExec(r)
    BY <1>2, WriteType, AnswerType DEF SetNxExec, TypeOK, bff, locals
  <1>3. ASSUME NEW a \in Reply, Respond(r, a)
        PROVE  /\ job' \in [Reqs -> {"none", "running"}]
               /\ LocalsOK'
               /\ now' = now /\ lock' = lock /\ late' = late
    BY <1>3 DEF Respond, TypeOK, LocalsOK, locals
  <1>4. CASE BffRefresh(r)
    <2>1. [NoReply EXCEPT !.code = "ok", !.tok = NextExp] \in Reply
      BY NextExpType DEF NoReply, Reply
    <2>2. session' \in Session
      BY <1>4, NextExpType, RecordType DEF BffRefresh, TypeOK, Session
    <2> QED
      BY <1>3, <1>4, <2>1, <2>2, TypeParts DEF BffRefresh, TypeOK, StoreOK
  <1>5. CASE BffRefuse(r)
    <2>1. session' \in Session
      BY <1>5 DEF BffRefuse, TypeOK, NoSession, Session
    <2> QED
      BY <1>3, <1>5, <2>1, AnswerType, TypeParts DEF BffRefuse, TypeOK, StoreOK
  <1>6. CASE BffError(r)
    BY <1>3, <1>6, AnswerType, TypeParts DEF BffError, TypeOK, StoreOK
  <1>7. CASE BffGarble(r)
    <2>1. session' \in Session
      BY <1>7, NextExpType DEF BffGarble, TypeOK, Session
    <2> QED
      BY <1>3, <1>7, <2>1, AnswerType, TypeParts DEF BffGarble, TypeOK, StoreOK
  <1> QED
    BY <1>1, <1>2, <1>4, <1>5, <1>6, <1>7 DEF Valkey, AuthBff

\* TypeOK is inductive.
LEMMA TypeStep == TypeOK /\ [Next]_vars => TypeOK'
  <1> SUFFICES ASSUME TypeOK, [Next]_vars PROVE TypeOK'
    OBVIOUS
  <1>1. CASE \E r \in Reqs : Arrive(r) \/ Handler(r) \/ Valkey(r) \/ AuthBff(r) \/ Crash(r)
    BY <1>1, HandlerType, ServersType
  <1>2. ASSUME NEW c \in late, LateExec(c) PROVE TypeOK'
    <2>1. c \in [req : Reqs, cmd : Writes] /\ c.req \in Reqs
      BY DEF TypeOK
    <2> QED
      BY <1>2, <2>1, WriteType, RecordType DEF LateExec, TypeOK, bff, locals
  <1>3. CASE Logout \/ Revoke
    BY <1>3, RecordType DEF Logout, Revoke, TypeOK, store, bff, locals
  <1>4. CASE Tick
    BY <1>4 DEF Tick, TypeOK, NoSession, NoLock, Session, bff, locals
  <1>5. CASE UNCHANGED vars
    BY <1>5 DEF vars, TypeOK, store, bff, locals
  <1> QED
    BY <1>1, <1>2, <1>3, <1>4, <1>5 DEF Next, Step

\* Every reachable state is typed: in particular every deadline and every
\* expiry is a time, whatever the configuration.
THEOREM TypeCorrect == Spec => []TypeOK
  BY InitType, TypeStep, PTL DEF Spec

=============================================================================
