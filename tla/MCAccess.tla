------------------------------ MODULE MCAccess ------------------------------
(***************************************************************************)
(* Instances of Access for TLC.                                            *)
(***************************************************************************)
EXTENDS Access, TLC

CONSTANTS r1, r2, a1, a2, u1, u2, hello, other, m, n

\* One token of u1 for model m.
OneToken == [i \in Id |-> IF i = 1
               THEN [secret |-> 1, user |-> u1, models |-> {m},
                     enabled |-> TRUE]
               ELSE None]

\* A body for each model.
Asks == [b \in Body |-> IF b = other THEN n ELSE m]

Symmetric == Permutations({r1, r2}) \cup Permutations({a1, a2})
=============================================================================
