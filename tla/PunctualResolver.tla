-------------------------- MODULE PunctualResolver --------------------------
(***************************************************************************)
(* SessionResolver on a host that keeps its own deadlines: no request      *)
(* stays in a phase past the end of the context or sleep it waits under    *)
(* (context.WithTimeout in load, acquire, release, callAuthBff, drop and   *)
(* renewIdle; time.Sleep in waitForOtherRefresh).  The refresh lock's TTL  *)
(* only excludes a second refresh on such a host.                          *)
(***************************************************************************)
EXTENDS SessionResolver

\* A history variable: when each request that is under way arrived.
VARIABLE arrived

punctualVars == <<vars, arrived>>

PunctualTick ==
    /\ \A r \in Reqs : pc[r] \in Active => now < dl[r]
    /\ Tick

PunctualNext == Step \/ PunctualTick

Remember ==
    arrived' = [r \in Reqs |-> IF pc'[r] \notin Active THEN 0
                              ELSE IF pc[r] = "new" THEN now ELSE arrived[r]]

PunctualInit == Init /\ arrived = [r \in Reqs |-> 0]

PunctualSpec == PunctualInit /\ [][PunctualNext /\ Remember]_punctualVars

-----------------------------------------------------------------------------

\* With the shipped values (5 s, 3 s, 200 ms) the lock outlives its holder's
\* work: SET NX's reply, the re-check and the POST.  parseConfig does not
\* check it.
LockOutlivesWork == LockTTL > 2 * StoreTimeout + RefreshTimeout

\* No two requests of one session are in their POST to auth-bff at a time
\* (refresh's promise to serialise concurrent refreshes behind the lock).
CallExclusive ==
    \A r, s \in Reqs : pc[r] = "call" /\ pc[s] = "call" => r = s

\* auth-bff never works on two refreshes of one session at a time.
RefreshesSerialised ==
    \A r, s \in Reqs : job[r] = "running" /\ job[s] = "running" => r = s

\* One token is refreshed once: auth-bff replaces the record only on behalf
\* of a request that had observed the very exp it replaces (the re-check
\* under the lock; 20 requests on an expired session cause one refresh).
RefreshedOnce ==
    [][\A r \in Reqs : BffRefresh(r) => session.exp = data[r].exp]_vars

\* How far past the ceiling a request may still be forwarded: refresh looks
\* at abs_exp once, before the lock, and what follows takes at most this.
Overrun == 4 * StoreTimeout + RefreshTimeout + 2 * WaitStep

CeilingOverrunBounded ==
    [][\A r \in Reqs :
          pc[r] # "done" /\ pc'[r] = "done" /\ out'[r] \in {"hit", "refreshed"}
             => now < data[r].abs + Overrun]_vars

\* A record read after its absolute ceiling is refused, wherever it is read
\* (a session past it is dead even if a refresh would succeed).
NoRecordAcceptedPastCeiling ==
    [][\A r \in Reqs :
          pc[r] \in Loads /\ reply[r].code = "ok" /\ PastCeiling(reply[r])
             => out'[r] \notin {"hit", "refreshed"}]_vars

\* When a request that has the lock is through with its work at the latest.
WorkEnd(r) ==
    dl[r] + CASE pc[r] = "acquire" -> StoreTimeout + RefreshTimeout
              [] pc[r] = "recheck" -> RefreshTimeout
              [] OTHER -> 0

HasTheLock(r) == Holding(r) \/ (pc[r] = "acquire" /\ reply[r].code = "ok")

\* r gives up although w has had the lock since before r began to wait.
GivesUpOn(r, w) ==
    /\ GiveUp(r)
    /\ lock.owner = w /\ lock.expires - LockTTL <= until[r] - MaxWait

\* A loser of the lock gives up at most a store timeout less a poll interval
\* before the winner it waits for is through: newRefresher's maxWait covers the
\* winner's re-check and POST, and a poll interval of the time in which the
\* winner learns that it has won.
GivesUpLate ==
    [][\A r, w \in Reqs :
          GivesUpOn(r, w) /\ HasTheLock(w) => WorkEnd(w) <= now + StoreTimeout - WaitStep]_vars

\* A loser of the lock gives up only when the request that held the lock
\* while it began to wait no longer works under it (newRefresher's comment).
\* GivesUpLate says this for a poll interval above the store timeout.
LoserOutwaitsWinner ==
    [][\A r, w \in Reqs : GivesUpOn(r, w) => ~Holding(w)]_vars

\* The longest the resolver takes for one request: up to the acquire, then the
\* whole of waitForOtherRefresh with its last sleep and poll, then renewIdle.
\* Nothing but the timeouts of its parts bounds it (main.go has no deadline of
\* its own), and gateway-timeout's clock runs meanwhile.
AnswerTime == 6 * StoreTimeout + RefreshTimeout + 2 * WaitStep

AnsweredInTime == \A r \in Reqs : pc[r] \in Active => now < arrived[r] + AnswerTime

-----------------------------------------------------------------------------
(* Liveness: the scheduler runs every handler, the clock advances.         *)

Fairness ==
    /\ WF_vars(PunctualTick)
    /\ \A r \in Reqs : WF_vars(Handler(r))

FairSpec == PunctualSpec /\ Fairness

Arrived(r) == pc[r] \notin {"new", "done", "crashed"}

\* Every request gets an answer, whatever Valkey and auth-bff do.
EveryRequestEnds == \A r \in Reqs : Arrived(r) ~> pc[r] \in {"done", "crashed"}

=============================================================================
