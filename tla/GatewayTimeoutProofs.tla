------------------------ MODULE GatewayTimeoutProofs ------------------------
(***************************************************************************)
(* timeoutRewriter implements TimedResponse, and a timed out endpoint is   *)
(* reported as such when its timeout is no shorter than min_elapsed.       *)
(***************************************************************************)
EXTENDS GatewayTimeout, TLAPS

\* While a status is held nothing is committed, and until something is there
\* is no body, so finalize's own look at bodyWritten never decides anything.
HeldInv ==
    /\ holdingError => ~committed
    /\ ~committed => ~bodyWritten /\ wire.body = 0
    /\ wire.body > 0 => wire.status # 0
    /\ committed => wire.status # 0
    /\ wire.status = Trigger /\ phase # "sent" => wire.body > 0
    /\ phase = "sent" => ~holdingError /\ wire.status # 0

USE DEF flags, Phases, Causes, NoCause

\* The constants, one fact each.
LEMMA Plain ==
    /\ MinElapsed \in Nat /\ EndpointTimeout \in Nat /\ ChainTime \in Nat /\ MaxBody \in Nat
    /\ Trigger \in Statuses /\ Timeout \in Statuses /\ OK \in Statuses
    /\ 0 \notin Statuses /\ Trigger # OK /\ Trigger # 0 /\ Timeout # 0 /\ OK # 0
  BY StatusesAssumption, DurationsAssumption

LEMMA WireFacts ==
    ASSUME TypeOK, NEW s \in Statuses
    PROVE  /\ WithStatus(wire, s) \in [status : Statuses, body : 0..MaxBody]
           /\ WithStatus(wire, s).body = wire.body
           /\ WithStatus(wire, s).status = IF wire.status = 0 THEN s ELSE wire.status
           /\ \A n \in Nat : wire.body + n \in 0..MaxBody =>
                 /\ WithBody(WithStatus(wire, s), n) \in [status : Statuses, body : 0..MaxBody]
                 /\ WithBody(WithStatus(wire, s), n).body = wire.body + n
                 /\ WithBody(WithStatus(wire, s), n).status = IF wire.status = 0 THEN s ELSE wire.status
                 /\ WithBody(wire, n) = WithBody(WithStatus(wire, OK), n)
  <1>1. wire \in [status : Statuses \cup {0}, body : 0..MaxBody] /\ OK \in Statuses /\ 0 \notin Statuses
    BY Plain DEF TypeOK
  <1> QED
    BY <1>1 DEF WithStatus, WithBody

\* The flags stay flags.
LEMMA FlagsStep == FlagsOK /\ [Next]_vars => FlagsOK'
  <1> SUFFICES ASSUME FlagsOK, [Next]_vars PROVE FlagsOK'
    OBVIOUS
  <1>1. ASSUME NEW code, WriteHeader(code) PROVE FlagsOK'
    BY <1>1, Zenon DEF WriteHeader, FlagsOK
  <1>2. ASSUME NEW n, Write(n) PROVE FlagsOK'
    BY <1>2, Zenon DEF Write, FlagsOK
  <1>3. ASSUME Flush \/ Finalize PROVE FlagsOK'
    BY <1>3, Zenon DEF Flush, Finalize, FlagsOK
  <1>4. ASSUME UNCHANGED flags PROVE FlagsOK'
    BY <1>4, Zenon DEF FlagsOK
  <1> QED
    BY <1>1, <1>2, <1>3, <1>4, Zenon
       DEF Next, EnterProxy, Answer, Fail, Call, Return, Tick, vars

LEMMA InitHolds == Init => TypeOK /\ HeldInv
  <1>1. Init => TypeOK
    <2>1. Init => FlagsOK
      BY Zenon DEF Init, FlagsOK
    <2> QED
      BY <2>1, Plain DEF Init, TypeOK
  <1>2. Init => HeldInv
    BY Plain DEF Init, HeldInv
  <1> QED
    BY <1>1, <1>2


LEMMA CallStep ==
    ASSUME TypeOK, HeldInv, FlagsOK', Call
    PROVE  (TypeOK /\ HeldInv)'
  <1>1. UNCHANGED <<now, phase, entered, cause>> /\ phase = "answering"
    BY DEF Call
  <1>2. ASSUME NEW s \in Statuses, WriteHeader(s) PROVE (TypeOK /\ HeldInv)'
    <2>1. TypeOK'
      BY <1>1, <1>2, WireFacts DEF WriteHeader, TypeOK
    <2>2. HeldInv'
      BY <1>1, <1>2, WireFacts, Plain DEF WriteHeader, TypeOK, HeldInv
    <2> QED
      BY <2>1, <2>2
  <1>3. ASSUME NEW n \in 0..MaxBody, wire.body + n <= MaxBody, Write(n) PROVE (TypeOK /\ HeldInv)'
    <2>1. n \in Nat /\ wire.body + n \in 0..MaxBody
      BY <1>3, Plain DEF TypeOK
    <2>2. wire' = wire \/ \E s \in {OK, Trigger} : wire' = WithBody(WithStatus(wire, s), n)
      BY <1>3, <2>1, WireFacts, Plain DEF Write
    <2> QED
      BY <1>1, <1>3, <2>1, <2>2, WireFacts, Plain DEF Write, TypeOK, HeldInv
  <1>4. CASE Flush
    BY <1>1, <1>4, WireFacts, Plain DEF Flush, TypeOK, HeldInv
  <1> QED
    BY <1>2, <1>3, <1>4 DEF Call

LEMMA InvStep == TypeOK /\ HeldInv /\ [Next]_vars => (TypeOK /\ HeldInv)'
  <1> SUFFICES ASSUME TypeOK, HeldInv, [Next]_vars, FlagsOK' PROVE (TypeOK /\ HeldInv)'
    BY FlagsStep DEF TypeOK
  <1>1. CASE EnterProxy \/ Answer \/ Tick
    BY <1>1, Plain DEF EnterProxy, Answer, Tick, TypeOK, HeldInv
  <1>2. ASSUME NEW kind \in {"timeout", "infra"}, Fail(kind) PROVE (TypeOK /\ HeldInv)'
    BY <1>2, WireFacts, Plain DEF Fail, WriteHeader, TypeOK, HeldInv
  <1>3. CASE Call
    BY <1>3, CallStep
  <1>4. CASE Return
    BY <1>4, WireFacts, Plain DEF Return, Finalize, TypeOK, HeldInv
  <1>5. CASE UNCHANGED vars
    BY <1>5 DEF vars, TypeOK, HeldInv
  <1> QED
    BY <1>1, <1>2, <1>3, <1>4, <1>5 DEF Next

\* The types of the rewriter, of the wire under it and of the handler.
THEOREM TypeCorrect == Spec => []TypeOK
  BY InitHolds, InvStep, PTL DEF Spec

-----------------------------------------------------------------------------

LEMMA PromiseInit == Init => Promise!TInit
  BY DEF Init, Promise!TInit

LEMMA PromiseStep ==
    ASSUME TypeOK, HeldInv, (TypeOK /\ HeldInv)', [Next]_vars
    PROVE  [Promise!TNext]_(Promise!tvars)
  <1> USE DEF Promise!First, Promise!tvars
  <1>1. CASE EnterProxy \/ Answer
    BY <1>1 DEF EnterProxy, Answer
  <1>2. ASSUME NEW s \in Statuses, WriteHeader(s), UNCHANGED now, phase # "sent", phase' # "sent"
        PROVE  Promise!Name(s)
    BY <1>2, WireFacts, Plain DEF WriteHeader, Promise!Name, TypeOK, HeldInv
  <1>3. ASSUME NEW n \in 0..MaxBody, wire.body + n <= MaxBody, Write(n),
               UNCHANGED <<now, phase>>, phase # "sent"
        PROVE  Promise!Send(n)
    <2>1. n \in Nat /\ wire.body + n \in 0..MaxBody
      BY <1>3, Plain DEF TypeOK
    <2>2. CASE holdingError /\ n = 0
      BY <1>3, <2>1, <2>2, Plain DEF Write, Promise!Send, TypeOK
    <2>3. CASE holdingError /\ n > 0
      <3>1. wire' = WithBody(WithStatus(wire, Trigger), n) /\ ~holdingError'
        <4>1. n # 0
          BY <2>1, <2>3
        <4> QED
          BY <1>3, <2>3, <4>1, Zenon DEF Write
      <3> QED
        BY <1>3, <2>1, <2>3, <3>1, WireFacts, Plain DEF Promise!Send, TypeOK
    <2>4. CASE ~holdingError
      <3>1. wire' = WithBody(WithStatus(wire, OK), n) /\ ~holdingError'
        BY <1>3, <2>1, <2>4, WireFacts, Plain DEF Write
      <3> QED
        BY <1>3, <2>1, <2>4, <3>1, WireFacts, Plain DEF Promise!Send, TypeOK
    <2> QED
      BY <2>1, <2>2, <2>3, <2>4
  <1>4. ASSUME Flush, UNCHANGED <<now, phase>>, phase # "sent"
        PROVE  Promise!Flushed \/ UNCHANGED Promise!tvars
    BY <1>4, WireFacts, Plain DEF Flush, Promise!Flushed, TypeOK, HeldInv
  <1>5. CASE Call
    BY <1>2, <1>3, <1>4, <1>5 DEF Call, Promise!TNext
  <1>6. ASSUME NEW kind \in {"timeout", "infra"}, Fail(kind) PROVE Promise!TNext
    BY <1>2, <1>6, Plain DEF Fail, Promise!TNext
  <1>7. CASE Return
    <2>1. phase # "sent" /\ phase' = "sent" /\ UNCHANGED now
      BY <1>7 DEF Return
    <2>2. CASE holdingError
      <3>1. ~holdingError' /\ wire' = WithStatus(wire, IF Slow THEN Timeout ELSE Trigger)
        BY <1>7, <2>2 DEF Return, Finalize, HeldInv
      <3>2. wire.body = 0
        BY <2>2 DEF HeldInv
      <3>3. Promise!End
        <4>1. CASE wire.status = 0
          BY <2>1, <2>2, <3>1, <3>2, <4>1, WireFacts, Plain
             DEF Slow, Promise!End, Promise!TimedOut, TypeOK
        <4>2. CASE wire.status # 0
          <5>1. wire' = wire
            BY <3>1, <4>2 DEF WithStatus
          <5>2. ~Promise!TimedOut
            BY <2>1, <3>2, <4>2 DEF Promise!TimedOut, HeldInv
          <5> QED
            BY <2>1, <4>2, <5>1, <5>2 DEF Promise!End
        <4> QED
          BY <4>1, <4>2
      <3> QED
        BY <3>3 DEF Promise!TNext
    <2>3. CASE ~holdingError
      <3>1. ~holdingError' /\ wire' = WithStatus(wire, OK)
        BY <1>7, <2>3 DEF Return, Finalize
      <3>2. ~Promise!TimedOut
        BY <2>1, <2>3 DEF Promise!TimedOut, HeldInv
      <3>3. Promise!End
        BY <2>1, <2>3, <3>1, <3>2, WireFacts, Plain DEF Promise!End, TypeOK
      <3> QED
        BY <3>3 DEF Promise!TNext
    <2> QED
      BY <2>2, <2>3
  <1>8. CASE Tick
    BY <1>8 DEF Tick, Promise!Wait, Promise!TNext
  <1>9. CASE UNCHANGED vars
    BY <1>9 DEF vars
  <1> QED
    BY <1>1, <1>5, <1>6, <1>7, <1>8, <1>9 DEF Next

\* The rewriter implements TimedResponse.
THEOREM KeepsPromiseHolds == Spec => KeepsPromise
  <1>1. TypeOK /\ HeldInv /\ [Next]_vars => (TypeOK /\ HeldInv)' /\ [Promise!TNext]_(Promise!tvars)
    BY InvStep, PromiseStep
  <1> QED
    BY <1>1, InitHolds, PromiseInit, PTL DEF Spec, KeepsPromise, Promise!TSpec

-----------------------------------------------------------------------------

\* What is known of a request that KrakenD answered for the backend.
CauseInv ==
    /\ cause.kind = "timeout" => cause.at >= EndpointTimeout
    /\ cause.kind # "none" => phase \in {"failed", "sent"} /\ cause.at <= now
    /\ phase = "failed" => holdingError /\ wire.status = 0 /\ cause.kind # "none"
    /\ phase \in {"chain", "proxy"} => ~holdingError /\ ~committed /\ wire.status = 0
    /\ phase = "chain" => now <= ChainTime
    /\ phase \in {"proxy", "failed"} => entered <= ChainTime
    /\ phase = "failed" => now = cause.at
    /\ phase = "sent" /\ cause.kind # "none" =>
          /\ wire.status = IF cause.at >= MinElapsed THEN Timeout ELSE Trigger
          /\ entered <= ChainTime

LEMMA CauseStep ==
    ASSUME TypeOK, HeldInv, CauseInv, [Next]_vars PROVE CauseInv'
  <1>1. CASE EnterProxy \/ Answer
    BY <1>1 DEF EnterProxy, Answer, CauseInv, TypeOK
  <1>2. CASE \E kind \in {"timeout", "infra"} : Fail(kind)
    <2>1. PICK kind \in {"timeout", "infra"} : Fail(kind)
      BY <1>2
    <2> QED
      BY <2>1, Plain DEF Fail, WriteHeader, CauseInv, TypeOK
  <1>3. CASE Call
    BY <1>3 DEF Call, CauseInv, TypeOK
  <1>4. CASE Return
    BY <1>4, WireFacts, Plain
       DEF Return, Finalize, Slow, CauseInv, HeldInv, TypeOK
  <1>5. CASE Tick
    BY <1>5, Plain DEF Tick, CauseInv, TypeOK
  <1>6. CASE UNCHANGED vars
    BY <1>6 DEF vars, CauseInv
  <1> QED
    BY <1>1, <1>2, <1>3, <1>4, <1>5, <1>6 DEF Next

LEMMA CauseInit == Init => CauseInv
  BY Plain DEF Init, CauseInv

LEMMA CauseHolds == Spec => [](TypeOK /\ HeldInv /\ CauseInv)
  BY InitHolds, InvStep, CauseInit, CauseStep, PTL DEF Spec

\* A backend timeout is reported when the endpoint's timeout is no shorter
\* than min_elapsed, however long the chain in front of it took.
THEOREM TimeoutReportedHolds ==
    ASSUME EndpointTimeout >= MinElapsed PROVE Spec => []TimeoutReported
  <1>1. TypeOK /\ CauseInv => TimeoutReported
    BY Plain DEF CauseInv, TimeoutReported, TypeOK
  <1> QED
    BY <1>1, CauseHolds, PTL

\* An infrastructure error keeps its status when it came sooner than the
\* slowest chain could make it look like a timeout.
THEOREM FastErrorKeptHolds == Spec => []FastErrorKept
  <1>1. TypeOK /\ CauseInv => FastErrorKept
    BY Plain DEF CauseInv, FastErrorKept, TypeOK
  <1> QED
    BY <1>1, CauseHolds, PTL

=============================================================================
