------------------------------ MODULE MCSession ------------------------------
(* The small instances of SessionResolver on which TLC runs. *)
EXTENDS SessionResolver, TLC

\* One session: a token about to expire (exp 1), or with time left (exp 3).
HealthySessions ==
    {[tok |-> e, exp |-> e, abs |-> 4, expires |-> 3] : e \in {1, 3}}

\* No session, a malformed exp, a malformed abs_exp, an empty token.
OddSessions ==
    {NoSession,
     [tok |-> 1, exp |-> 0, abs |-> 4, expires |-> 3],
     [tok |-> 1, exp |-> 1, abs |-> 0, expires |-> 2],
     [tok |-> 0, exp |-> 1, abs |-> 4, expires |-> 3]}

AllSessions == HealthySessions \cup OddSessions

RequestSymmetry == Permutations(Reqs)

=============================================================================
