---------------------------- MODULE TimedResponse ----------------------------
(***************************************************************************)
(* What a client may rely on for one response of the gateway, whatever     *)
(* plugins/gateway-timeout does with it: the status is the first one the   *)
(* handler named, the body is every byte it wrote, and the only status     *)
(* that is ever replaced is an empty, slow Trigger.                        *)
(***************************************************************************)
EXTENDS Naturals

CONSTANTS
    Trigger,    \* trigger_status
    Timeout,    \* timeout_status
    OK,         \* the status a handler that names none answers with
    Statuses,   \* every status a handler may name
    MinElapsed, \* min_elapsed
    MaxBody     \* bound: bytes of a body

VARIABLES
    now,    \* time since the request arrived
    status, \* the status of the response, 0 while it is open
    body,   \* the bytes of the body so far
    ended   \* the response is complete

tvars == <<now, status, body, ended>>

First(s) == IF status = 0 THEN s ELSE status

Name(s) ==
    /\ ~ended
    /\ status' = First(s)
    /\ UNCHANGED <<now, body, ended>>

Send(n) ==
    /\ ~ended /\ body + n <= MaxBody
    /\ status' = First(OK)
    /\ body' = body + n
    /\ UNCHANGED <<now, ended>>

Flushed ==
    /\ ~ended
    /\ status' = First(OK)
    /\ UNCHANGED <<now, body, ended>>

TimedOut == status = Trigger /\ body = 0 /\ now >= MinElapsed

End ==
    /\ ~ended
    /\ status' = IF TimedOut THEN Timeout ELSE First(OK)
    /\ ended' = TRUE
    /\ UNCHANGED <<now, body>>

Wait ==
    /\ now' = now + 1
    /\ UNCHANGED <<status, body, ended>>

TInit == now = 0 /\ status = 0 /\ body = 0 /\ ended = FALSE

TNext == (\E s \in Statuses : Name(s)) \/ (\E n \in 0..MaxBody : Send(n)) \/ Flushed \/ End \/ Wait

TSpec == TInit /\ [][TNext]_tvars

=============================================================================
