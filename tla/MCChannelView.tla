---------------------------- MODULE MCChannelView ----------------------------
(* Instances of ChannelView. *)
EXTENDS ChannelView

Stored(pairs) == [e \in Entries |-> IF \E p \in pairs : p[1] = e
                                    THEN (CHOOSE p \in pairs : p[1] = e)[2] ELSE NoChan]

OneChan == {Stored({<<0, "#a">>})}

(* A change of a nick, filled in by the server, before a ban and after one.  *)
Op(a) == [mode |-> "o", add |-> a, nick |-> "x"]
Ban == [mode |-> "b", add |-> TRUE, nick |-> "mask"]
BanAndOp == {<<Op(FALSE), Ban>>, <<Ban, Op(TRUE)>>}

(* A fourth line is in transit only where the names of a channel take two.   *)
Bound == Len(wire) = 4 => \E i \in 1 .. 3 : wire[i].cmd = "353" /\ wire[i + 1].cmd = "353"
MCSpec == Init /\ [][Next /\ Bound']_vars
=============================================================================
