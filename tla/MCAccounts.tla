----------------------------- MODULE MCAccounts -----------------------------
(***************************************************************************)
(* Instances of Accounts for TLC.                                          *)
(***************************************************************************)
EXTENDS Accounts, TLC

CONSTANTS b1, b2, c

\* Two administrators, the second with a token, and a channel with a key.
TwoAdmins ==
    [NoRows EXCEPT !.users = [i \in Uid |->
        IF i > 2 THEN None
        ELSE [name |-> IF i = 1 THEN "root" ELSE "ann", role |-> "admin"]],
                   !.tokens = [t \in Tid |-> IF t = 1 THEN 2 ELSE 0],
                   !.channels = Channel, !.keys = Channel]

TwoBrowsers == Permutations({b1, b2})
=============================================================================
