---------------------------- MODULE MCSendQueue ----------------------------
(* Instances of SendQueue for TLC: a server socket beside another outgoing   *)
(* one, or the two client sockets of one user (a socket group) with one line  *)
(* less, all of one length.                                                   *)
EXTENDS SendQueue

CONSTANTS srv, dcc, c1, c2

MCGroupOf == [s \in Sockets |-> IF s \in {srv, dcc} THEN 0 ELSE 1]
MCGroupOrder == <<c1, srv, c2, dcc>>

VARIABLE used       \* the sockets of this behaviour; the others stay idle
mcvars == <<vars, used>>

Idle(s) ==
    /\ wire[s] = <<>>
    /\ sock[s] = NewSocket(IF s \in OutgoingSockets THEN "DEAD" ELSE "CONN", FALSE)

Written(s) == Range(sock[s].sendq \o wire[s])

Bound ==
    /\ \A s \in Sockets \ used : Idle(s)
    /\ used = {srv, dcc} =>
         /\ \A m \in Written(srv) : m.api \in {"connect", "writesock"} /\ m.len \in {0, Max(Lengths)}
         /\ \A m \in Written(dcc) : m.api = "connect"
    /\ used = {c1, c2} =>
         /\ nextid <= MaxMessages
         /\ \A s \in used : \A m \in Written(s) : m.len = Min(Lengths)

MCInit == Init /\ used \in {{srv}, {srv, dcc}, {c1, c2}}
(* Only beside another outgoing socket do closed ones come back. *)
Final == used # {srv, dcc} =>
            /\ nextid' > nextid => <<sock', wire'>> # <<sock, wire>>
            /\ \A s \in used : sock[s].flag = "DEAD" /\ nextid > 1 => sock'[s] = sock[s]

MCNext == Next /\ UNCHANGED used /\ Bound' /\ Final
MCSpec == MCInit /\ [][MCNext]_mcvars /\ Fairness
=============================================================================
