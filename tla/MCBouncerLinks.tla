---------------------------- MODULE MCBouncerLinks -----------------------------
(* Instances of BouncerLinks: three bouncers linked in a ring, of which only    *)
(* connections are modelled, or in a chain, or two of them.                    *)
EXTENDS BouncerLinks

Ring == {<<"a", "b">>, <<"b", "c">>, <<"c", "a">>}
Chain == {<<"a", "b">>, <<"b", "c">>}
Pair == {<<"c", "a">>}
Setup(L, t, H, n, k) == [links |-> L, talk |-> t, here |-> H, events |-> n, tries |-> k]
Beginnings == {Setup(Ring, FALSE, {}, 1, 4), Setup(Chain, TRUE, {"u", "v"}, 1, 3),
               Setup(Pair, TRUE, {}, 3, 3)}
TwoHomes == [u |-> "a", v |-> "c"]
================================================================================
