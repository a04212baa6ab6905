--------------------------- MODULE GatewayTimeout ---------------------------
(***************************************************************************)
(* plugins/gateway-timeout: the timeoutRewriter that wraps the whole chain *)
(* for one request, the net/http response underneath it, and what happens  *)
(* inside: the plugins that may answer themselves, then KrakenD's endpoint *)
(* with its own timeout.                                                   *)
(*                                                                         *)
(* A handler may call WriteHeader, Write and Flush in any order and number.*)
(* Statuses are final ones: nothing in the chain sends a 1xx.              *)
(***************************************************************************)
EXTENDS Naturals

CONSTANTS
    Trigger,         \* trigger_status
    Timeout,         \* timeout_status
    OK,              \* http.StatusOK
    Statuses,        \* the statuses a handler may name
    MinElapsed,      \* min_elapsed
    EndpointTimeout, \* KrakenD's timeout of the endpoint
    ChainTime,       \* the plugins in front of the router take at most this long
    MaxBody,         \* bound: bytes of a body
    MaxTime          \* bound: the clock stops here

ASSUME StatusesAssumption ==
    /\ Statuses \subseteq Nat \ {0}
    /\ {Trigger, Timeout, OK} \subseteq Statuses
    /\ Trigger # OK
ASSUME DurationsAssumption ==
    {MinElapsed, EndpointTimeout, ChainTime, MaxBody, MaxTime} \subseteq Nat

VARIABLES
    now,          \* time since start
    committed,    \* status already forwarded to the real writer
    holdingError, \* trigger status seen, decision deferred to finalize
    bodyWritten,
    wire,         \* the real http.ResponseWriter: its status, 0 before any, and body
    phase,        \* where the handler under the rewriter is
    entered,      \* when the request reached KrakenD's endpoint
    cause         \* why KrakenD answered without the backend's answer, and when

vars == <<now, committed, holdingError, bodyWritten, wire, phase, entered, cause>>
flags == <<committed, holdingError, bodyWritten>>

Phases == {"chain", "proxy", "answering", "failed", "sent"}
Causes == [kind : {"none", "timeout", "infra"}, at : Nat]
NoCause == [kind |-> "none", at |-> 0]

-----------------------------------------------------------------------------
(* net/http: the first status wins, a body or a flush implies 200.         *)

WithStatus(w, s) == IF w.status = 0 THEN [w EXCEPT !.status = s] ELSE w

WithBody(w, n) == [WithStatus(w, OK) EXCEPT !.body = @ + n]

-----------------------------------------------------------------------------
(* The methods of timeoutRewriter.                                         *)

WriteHeader(code) ==
    \/ /\ committed \/ holdingError
       /\ UNCHANGED <<flags, wire>>
    \/ /\ ~committed /\ ~holdingError /\ code = Trigger
       /\ holdingError' = TRUE
       /\ UNCHANGED <<committed, bodyWritten, wire>>
    \/ /\ ~committed /\ ~holdingError /\ code # Trigger
       /\ committed' = TRUE
       /\ wire' = WithStatus(wire, code)
       /\ UNCHANGED <<holdingError, bodyWritten>>

\* Mutant: the bytes that end a hold are written twice.
WritesTwice(n) ==
    /\ holdingError' = FALSE /\ committed' = TRUE /\ bodyWritten' = (bodyWritten \/ n > 0)
    /\ wire' = IF holdingError THEN WithBody(WithBody(WithStatus(wire, Trigger), n), n) ELSE WithBody(wire, n)

Write(n) ==
    \/ /\ holdingError /\ n = 0
       /\ UNCHANGED <<flags, wire>>
    \/ /\ holdingError /\ n > 0
       /\ holdingError' = FALSE /\ committed' = TRUE /\ bodyWritten' = TRUE
       /\ wire' = WithBody(WithStatus(wire, Trigger), n)
    \/ /\ ~holdingError
       /\ committed' = TRUE
       /\ bodyWritten' = (bodyWritten \/ n > 0)
       /\ wire' = WithBody(IF committed THEN wire ELSE WithStatus(wire, OK), n)
       /\ UNCHANGED holdingError

\* Mutant: a held status does not stop the flush.
FlushAlways ==
    /\ wire' = WithStatus(wire, OK)
    /\ UNCHANGED flags

Flush ==
    /\ wire' = IF holdingError THEN wire ELSE WithStatus(wire, OK)
    /\ UNCHANGED flags

\* Mutants: any held error is a timeout; min_elapsed itself is too early.
AnyHeld == TRUE
StrictlySlow == now > MinElapsed

Slow == now >= MinElapsed

\* finalize, then net/http's own end of the response.
Finalize ==
    IF holdingError
    THEN /\ holdingError' = FALSE /\ committed' = TRUE
         /\ wire' = WithStatus(wire, IF ~bodyWritten /\ Slow THEN Timeout ELSE Trigger)
         /\ UNCHANGED bodyWritten
    ELSE wire' = WithStatus(wire, OK) /\ UNCHANGED flags

-----------------------------------------------------------------------------
(* The handler under the rewriter.                                         *)

\* The plugins let the request through to KrakenD's endpoint.
EnterProxy ==
    /\ phase = "chain"
    /\ phase' = "proxy" /\ entered' = now
    /\ UNCHANGED <<now, flags, wire, cause>>

\* A plugin denies the request, or the backend answered: calls follow.
Answer ==
    /\ phase \in {"chain", "proxy"}
    /\ phase' = "answering"
    /\ UNCHANGED <<now, flags, wire, entered, cause>>

\* KrakenD answers an empty 500 when the endpoint's timeout is over, or when
\* the backend cannot be reached.
Fail(kind) ==
    /\ phase = "proxy"
    /\ kind = "timeout" => now >= entered + EndpointTimeout
    /\ phase' = "failed" /\ cause' = [kind |-> kind, at |-> now]
    /\ WriteHeader(Trigger)
    /\ UNCHANGED <<now, entered>>

Call ==
    /\ phase = "answering"
    /\ \/ \E s \in Statuses : WriteHeader(s)
       \/ \E n \in 0..MaxBody : wire.body + n <= MaxBody /\ Write(n)
       \/ Flush
    /\ UNCHANGED <<now, phase, entered, cause>>

Return ==
    /\ phase \in {"answering", "failed"}
    /\ Finalize
    /\ phase' = "sent"
    /\ UNCHANGED <<now, entered, cause>>

\* The plugins in front keep their bound, KrakenD answers as soon as its
\* timeout is over.
Tick ==
    /\ now < MaxTime
    /\ phase = "chain" => now < ChainTime
    /\ phase = "proxy" => now < entered + EndpointTimeout
    /\ phase # "failed"
    /\ now' = now + 1
    /\ UNCHANGED <<flags, wire, phase, entered, cause>>

Init ==
    /\ now = 0
    /\ committed = FALSE /\ holdingError = FALSE /\ bodyWritten = FALSE
    /\ wire = [status |-> 0, body |-> 0]
    /\ phase = "chain" /\ entered = 0 /\ cause = NoCause

Next ==
    \/ EnterProxy \/ Answer \/ (\E kind \in {"timeout", "infra"} : Fail(kind))
    \/ Call \/ Return \/ Tick

Spec == Init /\ [][Next]_vars

-----------------------------------------------------------------------------

FlagsOK == committed \in BOOLEAN /\ holdingError \in BOOLEAN /\ bodyWritten \in BOOLEAN

TypeOK ==
    /\ FlagsOK
    /\ now \in Nat
    /\ wire \in [status : Statuses \cup {0}, body : 0..MaxBody]
    /\ phase \in Phases
    /\ entered \in Nat
    /\ cause \in Causes

\* The response the client ends up with, as the handler under the rewriter
\* may think of it: a held Trigger counts as named.
Promise == INSTANCE TimedResponse WITH
    status <- IF wire.status = 0 /\ holdingError THEN Trigger ELSE wire.status,
    body   <- wire.body,
    ended  <- phase = "sent"

\* The rewriter implements TimedResponse: nothing is lost, delayed past the
\* handler's return or rewritten but an empty, slow Trigger.
KeepsPromise == Promise!TSpec

\* A backend that outlasts its endpoint's timeout is reported as Timeout (the
\* plugin's purpose, main.go's doc comment on registerHandlers).
TimeoutReported ==
    phase = "sent" /\ cause.kind = "timeout" => wire.status = Timeout

\* An infrastructure error keeps its status when it came sooner than the
\* slowest chain could make it look like a timeout.
FastErrorKept ==
    phase = "sent" /\ cause.kind = "infra" /\ cause.at + ChainTime < entered + MinElapsed
        => wire.status = Trigger

=============================================================================
