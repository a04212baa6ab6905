--------------------------- MODULE SessionPromise ---------------------------
(***************************************************************************)
(* What the front end may rely on for the requests of one session,         *)
(* whatever happens between the replicas, Valkey and auth-bff: a request   *)
(* is only forwarded on the strength of a session that existed after the   *)
(* request arrived, a 401 is only given for a session that can no longer   *)
(* be used, a session that is over stays over, and an answer is final.     *)
(***************************************************************************)
CONSTANT Reqs \* the requests of the session

VARIABLES
    life,  \* "live", "doomed" (there, but of no more use) or "gone"
    answer \* what has become of each request

pvars == <<life, answer>>

\* What may become of a session; the later the worse.
Onward(l) == IF l = "live" THEN {"live", "doomed", "gone"}
             ELSE IF l = "doomed" THEN {"doomed", "gone"} ELSE {"gone"}

Open(r) == answer[r] \in {"waiting", "admitted"}

Becomes(r, a) == answer' = [answer EXCEPT ![r] = a]

\* The session is seen to exist, after the request arrived.
Admit(r) ==
    /\ answer[r] = "waiting" /\ life # "gone"
    /\ Becomes(r, "admitted")
    /\ UNCHANGED life

Forward(r) ==
    /\ answer[r] = "admitted"
    /\ Becomes(r, "forwarded")
    /\ UNCHANGED life

\* The 401 may come with the removal of the session.
Refuse(r) ==
    /\ Open(r) /\ life # "live"
    /\ Becomes(r, "refused")
    /\ life' \in Onward(life)

Abandon(r) ==
    /\ Open(r)
    /\ Becomes(r, "unavailable") \/ Becomes(r, "lost")
    /\ UNCHANGED life

Fade == life' \in Onward(life) /\ UNCHANGED answer

PInit == life \in {"live", "doomed", "gone"} /\ answer = [r \in Reqs |-> "waiting"]

PNext == (\E r \in Reqs : Admit(r) \/ Forward(r) \/ Refuse(r) \/ Abandon(r)) \/ Fade

PSpec == PInit /\ [][PNext]_pvars

=============================================================================
