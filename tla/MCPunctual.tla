----------------------------- MODULE MCPunctual -----------------------------
(* The small instances of PunctualResolver on which TLC runs. *)
EXTENDS PunctualResolver, TLC

\* A token about to expire in a session whose ceiling is out of reach, near, or malformed.
Sessions ==
    {[tok |-> 1, exp |-> 1, abs |-> a, expires |-> 14] : a \in {0, 2, 20}}

LongSession == {[tok |-> 1, exp |-> 1, abs |-> 20, expires |-> 20]}

RequestSymmetry == Permutations(Reqs)

=============================================================================
