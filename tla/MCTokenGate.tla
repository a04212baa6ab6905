----------------------------- MODULE MCTokenGate -----------------------------
(* The small instance of TokenGate on which TLC runs. *)
EXTENDS TokenGate, TLC

RequestSymmetry == Permutations(Reqs)

=============================================================================
