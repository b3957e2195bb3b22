----------------------------- MODULE MCChannels -----------------------------
(***************************************************************************)
(* Instances of Channels for TLC.                                          *)
(***************************************************************************)
EXTENDS Channels, TLC

CONSTANTS g1, g2, a1, a2

\* One channel in the database, identified or not.
OneOpenAI == [i \in Id |-> IF i = 1
                 THEN [type |-> "openai", addr |-> "x", status |-> "active"]
                 ELSE Absent]
OneAuto == [i \in Id |-> IF i = 1
               THEN [type |-> "auto", addr |-> "x", status |-> "active"]
               ELSE Absent]

Symmetric == Permutations({g1, g2}) \cup Permutations({a1, a2})
=============================================================================
