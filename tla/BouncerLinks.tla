------------------------------ MODULE BouncerLinks -----------------------------
(* Links between bouncers (p_link.c), the topology each one keeps of the       *)
(* others (p_topology.c) and the list of users on the party channel            *)
(* (p_sysmsg.c). A line that comes from a link is first passed on to all other *)
(* links and then handled (processlink()), so the links must form a tree: the  *)
(* connecting end announces itself with RECURSIVE, and the bouncer that gets   *)
(* its own name back deletes the link it came from.                            *)
(*                                                                             *)
(* A connection is a pair of queues; a closed one ends with EOF, a broken one  *)
(* loses its lines. Answers sent in one go (one SYSMSG for every user or link) *)
(* are one line here. LISTLINKS for TOPO@*, which connectedlink() sends, is    *)
(* left out: no bouncer handles the answers. Users are main records with the   *)
(* system messages on; record 1 exists at every bouncer.                       *)
(*                                                                             *)
(* Connections depend on PASS, IAM and RECURSIVE only. With talk FALSE the     *)
(* other lines are left out, and with them topology and party channel.         *)
EXTENDS Integers, Sequences, FiniteSets, FiniteSetsExt, SequencesExt, Functions

CONSTANTS
    Bouncers,
    Links,          \* pairs <<x, y>>: LINKTO y at x, LINKFROM x at y
    Setups,         \* [links, talk, here, events, tries]: how a behaviour may begin
    Users, Home     \* users and their bouncers

ASSUME LinksAssumption ==
    /\ Links \subseteq Bouncers \X Bouncers
    /\ \A l \in Links : l[1] # l[2] /\ <<l[2], l[1]>> \notin Links
    /\ \A c \in Setups : c.links \subseteq Links /\ c.talk \in BOOLEAN
                         /\ c.here \subseteq Users /\ c.events \in Nat /\ c.tries \in Nat
    /\ Home \in [Users -> Bouncers]

Rev(e) == <<e[2], e[1]>>
Ends == Links \cup {Rev(l) : l \in Links}
Of(z) == {e \in Ends : e[1] = z}

VARIABLES
    st,         \* [link, topo, party, q, talk]: the bouncers and what is between them
    here,       \* users with a client
    on,         \* users of these on the party channel
    replaced,   \* history: a connection was replaced in silence
    lost,       \* history: users that were on the channel when their bouncer ended
    events,     \* bound: commands, logins, failures that may still happen
    tries       \* bound: attempts to connect that may still happen

vars == <<st, here, on, replaced, lost, events, tries>>

(* A record of the link table; type 0 after clearlink(). state: outstate of an *)
(* LI_LINK, instate of an LI_ALLOW; "syn" is STD_CONN of a socket that is not  *)
(* connected, "stale" STD_CONN of one the other end has replaced.              *)
NoLink == [used |-> FALSE, state |-> "off", iam |-> "", pass |-> 0]
Entry(e) == [NoLink EXCEPT !.used = TRUE, !.iam = IF e \in Links THEN "" ELSE e[2]]

Line(cmd, from, arg) == [cmd |-> cmd, from |-> from, arg |-> arg]
EOF == Line("EOF", "", "")
Said(talk, ms) == SelectSeq(ms, LAMBDA m : talk \/ m.cmd \in {"PASS", "IAM", "RECURSIVE"})

(* ------------------------------ topology ----------------------------------- *)
(* topo[z]: the parent of every bouncer z knows of; z is the root.             *)
Known(t, z) == {z} \cup DOMAIN t

(* addtopology(): only if exactly one of the two is known.                     *)
addtopology(t, z, x, y) ==
    CASE x \in Known(t, z) /\ y \notin Known(t, z) -> (y :> x) @@ t
      [] y \in Known(t, z) /\ x \notin Known(t, z) -> (x :> y) @@ t
      [] OTHER -> t

(* digremove(): the bouncers below S.                                          *)
Closure(t, S) == S \cup {n \in DOMAIN t : t[n] \in S}
Subtree(t, n) == FoldSet(LAMBDA i, S : Closure(t, S), {n}, DOMAIN t)

(* lostlink(), partylinklost(): the users of the bouncers S leave the list.    *)
partylinklost(party, z, S) == {p \in party : p[2] \notin S \ {z}}
partyremove(party, u, from) == party \ {<<u, from>>}

(* Mutant: what is below the item stays.                                       *)
removetopology_Leaf(s, z, node, item) ==
    LET t == s.topo[z]
    IN  IF item \in DOMAIN t /\ t[item] = node
        THEN [s EXCEPT !.topo[z] = Restrict(t, DOMAIN t \ {item}),
                       !.party[z] = partylinklost(@, z, {item})]
        ELSE s

(* removetopology(): the item and what is below it go, with their users.       *)
removetopology(s, z, node, item) ==
    LET t == s.topo[z]
        S == Subtree(t, item)
    IN  IF item \in DOMAIN t /\ t[item] = node
        THEN [s EXCEPT !.topo[z] = Restrict(t, DOMAIN t \ S),
                       !.party[z] = partylinklost(@, z, S)]
        ELSE s

(* ------------------------------ sending ------------------------------------ *)
Ended(q) == q # <<>> /\ Last(q) = EOF
(* broadcast(): every link in STD_CONN but one. What is written before the     *)
(* connection stands, or on one that was replaced, has no effect at the peer.  *)
broadcast(s, z, except, m) ==
    [s EXCEPT !.q = [e \in Ends |->
        IF e[1] = z /\ e[2] # except /\ s.link[e].state = "on" /\ ~Ended(s.q[e])
        THEN @[e] \o Said(s.talk, <<m>>) ELSE @[e]]]

(* querybounce() for the system: its own list is kept while a user is there.   *)
Seen(z, party, m, H) ==
    IF {u \in H : Home[u] = z} = {} THEN party
    ELSE CASE m.cmd = "in" -> party \cup {<<m.arg, "">>}
           [] m.cmd = "off" -> partyremove(party, m.arg, "")
           [] m.cmd = "lost" -> {p \in party : p[2] = "" \/ p[2] # m.arg}
           [] OTHER -> party
sysparty(s, z, cmd, arg, H) ==
    LET m == Line(cmd, z, arg)
    IN  broadcast([s EXCEPT !.party[z] = Seen(z, @, m, H)], z, z, m)

(* ------------------------------ connections -------------------------------- *)
(* killsocket(): what was written is still sent; the rest is lost.             *)
Closed(s, e) ==
    IF s.link[e].state = "on"
    THEN [s EXCEPT !.q = [@ EXCEPT ![e] = Append(@, EOF), ![Rev(e)] = <<>>]] ELSE s

(* killedlink(), checklinkkill()                                               *)
killedlink(s, e, H) ==
    LET t == Closed(sysparty(s, e[1], "lost", s.link[e].iam, H), e)
    IN  removetopology([t EXCEPT !.link[e].state = "off"], e[1], e[1], s.link[e].iam)

(* clearlink(), eraselinkini() *)
Erased(s, e) == [s EXCEPT !.link[e] = NoLink]

connectlink(l) ==
    /\ st.link[l].used /\ st.link[l].state = "off"
    /\ st.q[Rev(l)] = <<>>
    /\ st' = [st EXCEPT !.link[l].state = "syn"]
    /\ UNCHANGED <<here, on, replaced, lost>>

errorlink(l) ==
    /\ st.link[l].state = "syn"
    /\ st' = [st EXCEPT !.link[l].state = "off"]
    /\ UNCHANGED <<here, on, replaced, lost>>

Fresh(l) == 1 + Max({st.link[e].pass : e \in {l, Rev(l)}})

(* Mutant: the bouncer does not announce itself.                               *)
connectedlink_Silent(l) ==
    LET p == IF st.link[l].pass = 0 THEN Fresh(l) ELSE st.link[l].pass
        b == Rev(l)
    IN  /\ st.link[l].state = "syn"
        /\ st' = [st EXCEPT !.link = [@ EXCEPT ![l].pass = p, ![l].state = "on",
                                               ![b].state = IF @ = "on" THEN "stale" ELSE @],
                            !.q = [@ EXCEPT ![b] = <<>>,
                                     ![l] = Said(st.talk, <<Line("PASS", l[1], p), Line("BWHO", "", "")>>)]]
        /\ UNCHANGED <<here, on, replaced, lost>>
(* connectedlink(): PSYBNC and PASS, RECURSIVE, BWHO.                          *)
connectedlink(l) ==
    LET p == IF st.link[l].pass = 0 THEN Fresh(l) ELSE st.link[l].pass
        b == Rev(l)
    IN  /\ st.link[l].state = "syn"
        /\ st' = [st EXCEPT !.link = [@ EXCEPT ![l].pass = p, ![l].state = "on",
                                               ![b].state = IF @ = "on" THEN "stale" ELSE @],
                            !.q = [@ EXCEPT ![b] = <<>>,
                                     ![l] = Said(st.talk, <<Line("PASS", l[1], p),
                                          Line("RECURSIVE", l[1], ""), Line("BWHO", "", "")>>)]]
        /\ UNCHANGED <<here, on, replaced, lost>>

(* Mutant: the users of the other end are not asked for.                       *)
linklink_NoWho(s, b, m) ==
    LET y == b[1]
        r == s.link[b]
        w == IF r.pass = 0 THEN m.arg ELSE r.pass
        t == [s EXCEPT !.link[b].state = "on", !.link[b].pass = w,
                       !.q[b] = Said(s.talk, <<Line("IAM", y, ""), Line("LISTLINKS", "", "*")>>)]
    IN  IF ~r.used \/ w # m.arg
        THEN [s EXCEPT !.q[b] = <<EOF>>]
        ELSE [sysparty(t, y, "linked", b[2], here) EXCEPT !.topo[y] = addtopology(@, y, b[2], y)]
(* linklink(): the first password is kept; an old connection is dropped        *)
(* without its handlers.                                                       *)
linklink(s, b, m) ==
    LET y == b[1]
        r == s.link[b]
        w == IF r.pass = 0 THEN m.arg ELSE r.pass
        t == [s EXCEPT !.link[b].state = "on", !.link[b].pass = w,
                       !.q[b] = Said(s.talk, <<Line("IAM", y, ""), Line("BWHO", "", ""),
                                               Line("LISTLINKS", "", "*")>>)]
    IN  IF ~r.used \/ w # m.arg
        THEN [s EXCEPT !.q[b] = <<EOF>>]
        ELSE [sysparty(t, y, "linked", b[2], here) EXCEPT !.topo[y] = addtopology(@, y, b[2], y)]

(* The connection breaks: its lines are lost, both ends are told.              *)
Break(l) ==
    /\ st.link[l].state = "on"
    /\ st' = [st EXCEPT !.q = [@ EXCEPT ![l] = <<EOF>>, ![Rev(l)] = <<EOF>>]]
    /\ UNCHANGED <<here, on, replaced, lost>>

(* ------------------------------ lines from a link -------------------------- *)
(* The links of z that LISTLINKS shows as connected, with their names.         *)
Listed(s, z) == {s.link[e].iam : e \in {d \in Of(z) : s.link[d].state # "off"}}

(* A message of the system on the party channel of another bouncer.            *)
PartyLine(s, z, m) ==
    CASE m.cmd = "in" -> [s EXCEPT !.party[z] = @ \cup {<<m.arg, m.from>>}]
      [] m.cmd = "off" -> [s EXCEPT !.party[z] = partyremove(@, m.arg, m.from)]
      [] m.cmd = "linked" -> broadcast(s, z, z, Line("LISTLINKS", "", z))
      [] m.cmd = "lost" -> removetopology(s, z, m.from, m.arg)

(* A SYSMSG for everyone or for this bouncer.                                  *)
Answer(s, z, m) ==
    CASE m.cmd = "users" -> [s EXCEPT !.party[z] = @ \cup {<<u, m.from>> : u \in m.arg}]
      [] m.cmd = "links" /\ m.arg.to \in {"*", z} ->
           [s EXCEPT !.topo[z] =
              FoldSet(LAMBDA n, t : addtopology(t, z, m.from, n), @, m.arg.names)]
      [] OTHER -> s

BWHO(s, z) ==
    LET party == {u \in on : Home[u] = z}
    IN  IF party = {} THEN s ELSE broadcast(s, z, z, Line("users", z, party))

(* A bouncer that is sent its own name deletes the link.                       *)
Recursive(s, e, m) == IF m.from = e[1] THEN Erased(killedlink(s, e, here), e) ELSE s

(* processlink(): IAM is not passed on.                                        *)
processlink(s, e, m) ==
    LET z == e[1]
        f == IF m.cmd = "IAM" THEN s ELSE broadcast(s, z, e[2], m)
    IN  CASE m.cmd = "IAM" ->
               [f EXCEPT !.link[e].iam = e[2], !.topo[z] = addtopology(@, z, z, e[2])]
          [] m.cmd = "RECURSIVE" -> Recursive(f, e, m)
          [] m.cmd = "BWHO" -> BWHO(f, z)
          [] m.cmd = "LISTLINKS" ->
               broadcast(f, z, z, Line("links", z, [to |-> m.arg, names |-> Listed(f, z)]))
          [] m.cmd \in {"users", "links"} -> Answer(f, z, m)
          [] OTHER -> PartyLine(f, z, m)

(* checklinkdata() for one line; nothing is read from a socket that is closed. *)
Handled(s, e, m) ==
    CASE m.cmd = "PASS" -> linklink(s, e, m)
      [] s.link[e].state = "on" -> processlink(s, e, m)
      [] OTHER -> s

(* receivesock(): one read gets some of the lines sent so far and handles them *)
(* all; the end of the connection is found by a later one. Bound: with talk, a *)
(* read gets all lines there are.                                              *)
Lines(e) == SelectSeq(st.q[e], LAMBDA m : m # EOF)
Receive(e) ==
    LET d == Rev(e)
        new == Head(st.q[d]).cmd = "PASS"
        Rest(n) == [st EXCEPT !.q[d] = SubSeq(@, n + 1, Len(@))]
    IN  /\ Lines(d) # <<>>
        /\ st.link[e].state = "on" \/ new
        /\ \E n \in (IF st.talk THEN Len(Lines(d)) ELSE 1)..Len(Lines(d)) :
             st' = FoldLeft(LAMBDA t, m : Handled(t, e, m), Rest(n), SubSeq(Lines(d), 1, n))
        /\ replaced' = (replaced \/ (new /\ st.link[e].state = "stale"))
        /\ UNCHANGED <<here, on, lost>>

EndOf(e) ==
    LET d == Rev(e) IN
    /\ st.q[d] = <<EOF>>
    /\ st' = LET s == [st EXCEPT !.q[d] = <<>>, !.q[e] = SelectSeq(@, LAMBDA m : m = EOF)]
             IN  IF st.link[e].state = "on"
                 THEN killedlink([s EXCEPT !.link[e].state = "stale"], e, here) ELSE s
    /\ UNCHANGED <<here, on, replaced, lost>>

(* The accepting end finds its old connection dead before the new one asks.    *)
Notice(e) ==
    /\ st.link[e].state = "stale"
    /\ st' = killedlink(st, e, here)
    /\ UNCHANGED <<here, on, replaced, lost>>

(* ------------------------------ commands ----------------------------------- *)
(* LINKTO, LINKFROM *)
cmdaddlink(e) ==
    /\ ~st.link[e].used
    /\ st' = [st EXCEPT !.link[e] = Entry(e)]
    /\ UNCHANGED <<here, on, replaced, lost>>

cmddellink(e) ==
    /\ st.link[e].used
    /\ st' = Erased(IF st.link[e].state = "off" THEN st ELSE killedlink(st, e, here), e)
    /\ UNCHANGED <<here, on, replaced, lost>>

cmdrelink(e) ==
    /\ st.link[e].used /\ st.link[e].state # "off"
    /\ st' = killedlink(st, e, here)
    /\ UNCHANGED <<here, on, replaced, lost>>

(* loadlink(): the record is read again, as writelink() has kept it at every   *)
(* change; a connection is closed first.                                       *)
loadlink(s, e, H) ==
    LET t == IF s.link[e].state = "off" THEN s ELSE killedlink(s, e, H)
    IN  [t EXCEPT !.link[e].state = "off"]

(* REHASH: loadlinks()                                                         *)
cmdrehash(z) ==
    /\ \E e \in Of(z) : st.link[e].state # "off"
    /\ st' = FoldSet(LAMBDA e, s : loadlink(s, e, here), st, Of(z))
    /\ UNCHANGED <<here, on, replaced, lost>>

(* The bouncer ends and is started again: its clients, topology and lists are  *)
(* gone, and the other ends find their connections closed.                     *)
Restart(z) ==
    /\ st' = [FoldSet(LAMBDA e, s : [Closed(s, e) EXCEPT !.link[e].state = "off"], st, Of(z))
                EXCEPT !.topo[z] = << >>, !.party[z] = {}]
    /\ here' = {u \in here : Home[u] # z} /\ on' = on \cap here'
    /\ lost' = lost \cup {u \in on : Home[u] = z}
    /\ UNCHANGED replaced

(* A client of a user logs in and joins the party channel; it leaves it when   *)
(* it is no longer counted as a client (quitclient()).                         *)
joinparty(u) ==
    /\ u \notin here
    /\ here' = here \cup {u} /\ on' = on \cup {u}
    /\ st' = sysparty(st, Home[u], "in", u, here')
    /\ UNCHANGED <<replaced, lost>>

quitclient(u) ==
    /\ u \in here
    /\ here' = here \ {u} /\ on' = on \ {u}
    /\ st' = IF u \in on THEN sysparty(st, Home[u], "off", u, here') ELSE st
    /\ UNCHANGED <<replaced, lost>>

cmdjoin(u) ==
    /\ u \in here \ on /\ on' = on \cup {u}
    /\ st' = sysparty(st, Home[u], "in", u, here)
    /\ UNCHANGED <<here, replaced, lost>>

cmdpart(u) ==
    /\ u \in on /\ on' = on \ {u}
    /\ st' = sysparty(st, Home[u], "off", u, here)
    /\ UNCHANGED <<here, replaced, lost>>

(* --------------------------------------------------------------------------- *)
Init ==
    /\ \E c \in Setups :
         /\ st = [link |-> [e \in Ends |-> IF {e, Rev(e)} \cap c.links # {} THEN Entry(e) ELSE NoLink],
               topo |-> [z \in Bouncers |-> << >>], q |-> [e \in Ends |-> <<>>], talk |-> c.talk,
               party |-> [z \in Bouncers |-> {<<u, "">> : u \in {v \in c.here : Home[v] = z}}]]
         /\ here = c.here /\ on = c.here /\ events = c.events /\ tries = c.tries
    /\ replaced = FALSE /\ lost = {}

Next ==
    \/ /\ events > 0 /\ events' = events - 1 /\ UNCHANGED tries
       /\ \/ \E e \in Ends : cmdaddlink(e) \/ cmddellink(e) \/ cmdrelink(e)
          \/ \E z \in Bouncers : cmdrehash(z) \/ Restart(z)
          \/ \E u \in Users : joinparty(u) \/ quitclient(u) \/ cmdjoin(u) \/ cmdpart(u)
          \/ \E l \in Links : Break(l) \/ errorlink(l)
    \/ /\ tries > 0 /\ tries' = tries - 1 /\ UNCHANGED events
       /\ \E l \in Links : connectlink(l)
    \/ /\ UNCHANGED <<events, tries>>
       /\ \/ \E l \in Links : connectedlink(l)
          \/ \E e \in Ends : Receive(e) \/ EndOf(e) \/ Notice(e)

Spec == Init /\ [][Next]_vars

(* --------------------------------------------------------------------------- *)
(* Type invariant.                                                             *)
TypeOK ==
    /\ \A e \in Ends :
         /\ st.link[e].used \in BOOLEAN /\ st.link[e].iam \in Bouncers \cup {""}
         /\ st.link[e].state \in {"off", "syn", "on", "stale"}
         /\ ~st.link[e].used => st.link[e] = NoLink
    /\ \A z \in Bouncers :
         /\ DOMAIN st.topo[z] \subseteq Bouncers \cup {""}
         /\ st.party[z] \subseteq Users \X (Bouncers \cup {""})
    /\ on \subseteq here /\ here \subseteq Users

(* What is up for both ends, and whether nothing is under way.                 *)
Up == {l \in Links : st.link[l].state = "on" /\ st.link[Rev(l)].state = "on"}
Quiet == \A e \in Ends : st.q[e] = <<>> /\ st.link[e].state \in {"off", "on"}
Grow(S) == S \cup {e[2] : e \in {d \in Ends : d[1] \in S /\ {d, Rev(d)} \cap Up # {}}}
Reach(z) == FoldSet(LAMBDA i, S : Grow(S), {z}, Bouncers)

(* The links that are up never form a loop once all lines have been handled:   *)
(* the RECURSIVE of some bouncer has come back and its link is deleted, even   *)
(* when several links connect at the same time.                                *)
LoopsCut == Quiet => Cardinality(Up) <= Cardinality(Bouncers) - 1

(* Once all lines have been handled, the topology of a bouncer holds exactly   *)
(* the bouncers it is linked with over any number of links, in whatever order  *)
(* the links came up, broke and were deleted.                                  *)
TopologyExact ==
    (st.talk /\ Quiet /\ ~replaced) =>
       \A z \in Bouncers : DOMAIN st.topo[z] \ {""} = Reach(z) \ {z}

(* ... its list of the party channel holds all users that are on it there,     *)
Others(z) == {u \in on : Home[u] \in Reach(z) \ {z}}
PartyComplete ==
    (st.talk /\ Quiet) =>
       \A z \in Bouncers : {<<u, Home[u]>> : u \in Others(z)} \subseteq st.party[z]

(* ... and no others of the bouncers in its topology. (Users of a bouncer that *)
(* was lost before the answers to LISTLINKS came stay on the list, and for     *)
(* good if that bouncer was restarted.)                                        *)
NoGhosts ==
    (st.talk /\ Quiet /\ ~replaced) =>
       \A z \in Bouncers : \A p \in st.party[z] :
          p[2] \in DOMAIN st.topo[z] \ {""} => p[2] = Home[p[1]] /\ p[1] \in Others(z) \cup lost

(* The links that are up form a tree, at the latest when all is handled.       *)
Consistent == TypeOK /\ LoopsCut

(* The party channel: its list is that of the users who are on it, wherever    *)
(* they are, when links come, break and cross joins and parts.                 *)
PartyExact == PartyComplete /\ NoGhosts
=============================================================================
