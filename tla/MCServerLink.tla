---------------------------- MODULE MCServerLink ----------------------------
(* Instances of ServerLink for TLC: two users with one usable server each and *)
(* the largest connect delay, or one user with a list of servers, usable or   *)
(* not, while the other stays off.                                            *)
EXTENDS ServerLink

VARIABLE alone       \* TRUE: the second kind
mcvars == <<vars, alone>>

Off(u) == user[u].quitted /\ \A n \in Slots : servers[u][n] = "none"
Listless(u) ==
    /\ servers[u][Min(Slots)] # "port0"
    /\ \A n \in Slots \ {Min(Slots)} : servers[u][n] = "none"

Bound == IF alone THEN Off(NUsers) /\ user[NUsers].currentserver = 0
         ELSE /\ \A u \in Users : Listless(u) /\ user[u].currentserver <= Min(Slots)
              /\ connectdelay = MaxAge

MCInit == Init /\ alone \in BOOLEAN /\ Bound
MCNext == Next /\ UNCHANGED alone /\ Bound'
MCSpec == MCInit /\ [][MCNext]_mcvars /\ Fairness
=============================================================================
