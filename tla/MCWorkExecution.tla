-------------------------- MODULE MCWorkExecution --------------------------
(* Instances of WorkExecution small enough for TLC. *)
EXTENDS WorkExecution, TLC

CONSTANTS n1, u1, u2, w1, a1, a2, k1, k2, f1

Claim(a, k) == [act |-> "claim", node |-> n1, actor |-> a, key |-> k]
Complete(a, k) == [act |-> "complete", node |-> n1, actor |-> a, key |-> k]

\* Nobody sends a request: for facts on their own.
NoCommand == {}
\* Two people compete, one of them claims again with another key.
Rivals == {Claim(a1, k1), Claim(a1, k2), Claim(a2, k1),
           Complete(a1, k1), Complete(a2, k1)}

\* Requests in progress are interchangeable.
Interchangeable == Permutations(User)
=============================================================================
