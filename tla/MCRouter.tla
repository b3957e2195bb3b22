------------------------------ MODULE MCRouter ------------------------------
(***************************************************************************)
(* Instances of Router for TLC.                                            *)
(***************************************************************************)
EXTENDS Router, TLC

CONSTANTS r1, r2

\* Model m is also asked for as "old", which model_redirects turns into m.
ThreeModels == {"m", "m2", "old"}
RedirectOld == [m \in ThreeModels |-> IF m = "old" THEN "m" ELSE m]

\* Channel a offers m twice, as m and as the alias of m2, and has as many keys as
\* a request has attempts; the second key of b cannot be decrypted; the type of
\* channel c has no adapter.  Five routes are more than the four attempts.
Four == {"a", "b", "c", "d"}
RowsFour == 1..5
ChannelFour == <<"a", "a", "b", "c", "d">>
ServesFour == <<{"m"}, {"m2", "m"}, {"m"}, {"m"}, {"m"}>>
KeysFour == <<"a", "a", "a", "a", "b", "b", "c", "d">>

\* One model, two channels with one row each.
OneModel == {"m"}
RedirectOne == [m \in OneModel |-> m]
AB == {"a", "b"}
RowsAB == 1..2
ChannelAB == <<"a", "b">>
ServesAB == [row \in RowsAB |-> {"m"}]
KeysAB == <<"a", "b">>
KeysAAB == <<"a", "a", "b">>

TwoRequests == Permutations({r1, r2})
=============================================================================
