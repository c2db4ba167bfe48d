--------------------------- MODULE MCClientSession ---------------------------
(* Instances of ClientSession for TLC: user 1 with network 2, and user 3,      *)
(* whom an admin may BQUIT.  Either user 1 alone logs in, with wrong passwords *)
(* too, from two sockets, or both do, with right ones, one after the other,   *)
(* from three.                                                                *)
EXTENDS ClientSession, TLC

CONSTANTS ann, bob, p1, p2, h1, h2

MCParent == [u \in Users |-> IF u = 2 THEN 1 ELSE 0]
MCAccounts == [u \in Mains |-> [login |-> IF u = 1 THEN ann ELSE bob, pass |-> p1]]

Symmetry == Permutations({h1, h2})

VARIABLE both       \* both users log in in this behaviour
mcvars == <<vars, both>>

(* NICK, USER and PASS in this order, none of them twice. *)
Straight(r) == <<r.nick, r.login # None, r.user, r.pass # None, r.delayed>> \in
    {<<FALSE, FALSE, FALSE, FALSE, 0>>, <<TRUE, FALSE, FALSE, FALSE, 1>>, <<TRUE, TRUE, TRUE, FALSE, 2>>}

Bound ==
    IF both
    THEN /\ Cardinality(Peers \ FreePeers) <= 1
         /\ \A p \in Peers : Straight(peer[p])
         /\ \A u \in Users : user[u].penalty = 0
    ELSE /\ sock[3] = NoSock /\ cleared = {} /\ user[3].instate = "NOCON"
         /\ \A p \in Peers : peer[p].login # bob

MCInit == Init /\ both \in BOOLEAN /\ (both => ~nousers)
MCNext == Next /\ UNCHANGED both /\ Bound'
MCSpec == MCInit /\ [][MCNext]_mcvars
=============================================================================
