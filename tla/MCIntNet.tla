-------------------------------- MODULE MCIntNet -------------------------------
(* Instances of IntNet: two bouncers with a user each.                         *)
EXTENDS IntNet

OneLink == {<<"a", "b">>}
OneBehind == (<<"a", "b">> :> {"b"}) @@ (<<"b", "a">> :> {"a"})
OneHome == [u |-> "a", v |-> "b"]

(* Bound: the users begin with different nicks, one of them perhaps a guest's; *)
(* any nick can be taken later.                                                *)
MCInit == Init /\ nick \in [u : {"m", "g"}, v : {"n"}]
MCSpec == MCInit /\ [][Next]_vars
================================================================================
