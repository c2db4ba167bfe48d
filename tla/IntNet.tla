--------------------------------- MODULE IntNet --------------------------------
(* The internal network (p_intnet.c): an IRC network of its own between linked *)
(* bouncers. Every bouncer keeps all clients and channels; what a user does is *)
(* applied at its own bouncer and broadcast as INTNET lines, which the others  *)
(* apply and pass on (internalinbound(), broadcast(link)). A new link begins   *)
(* with a burst of everything known, sent by both ends (joinintnettolink());   *)
(* a lost one removes the clients behind it (removeinternal()).                *)
(*                                                                             *)
(* The ends of a link notice a broken connection each in its own time, and the *)
(* accepting end replaces an old connection by a new one (linklink()). Lines   *)
(* on a connection stay in order. The links form a tree; of the topology only  *)
(* what lies behind a link is kept. Clients are known by nick; a nick stands   *)
(* for the user (ident) it was introduced with.                                *)
EXTENDS Integers, Sequences, FiniteSets, FiniteSetsExt, SequencesExt, Functions

CONSTANTS
    Bouncers,
    Links,          \* pairs <<x, y>>: x connects, y accepts; a tree
    Behind,         \* Behind[<<z, w>>]: the bouncers z reaches through w
    Users, Home,    \* users and their bouncers
    Nicks, Chans,
    Guests,         \* the nicks "Guest" with a number
    Letters,        \* the modes users change
    MAXINTOPS,      \* remembered operators of a channel (100 in addintop())
    MaxLines,       \* bound: users wait while a connection holds more lines
    MaxEvents       \* bound: commands of users and broken connections

ASSUME IntNetAssumption ==
    /\ Links \subseteq Bouncers \X Bouncers
    /\ Home \in [Users -> Bouncers] /\ Guests \subseteq Nicks
    /\ Letters \subseteq {"o", "v", "i", "b"}
    /\ MAXINTOPS \in Nat \ {0} /\ MaxLines \in Nat /\ MaxEvents \in Nat

Ends == Links \cup {<<l[2], l[1]>> : l \in Links}
LinkOf(e) == IF e \in Links THEN e ELSE <<e[2], e[1]>>

VARIABLES
    net,        \* [cl, ch, end, wire, q]: the bouncers and what is between them
    nick,       \* the nick of a user on its IRC server
    saved,      \* the internal channels of a user in the configuration
    past,       \* history: what excuses a difference between bouncers
    events      \* number of commands and broken connections so far

vars == <<net, nick, saved, past, events>>

(* kicked: users removed from a channel by others; ignored: users not taken    *)
(* for their nick; halved: users of whose modes a burst sent one; replaced: a  *)
(* connection was replaced silently; crossed: a command came while lines were  *)
(* under way.                                                                  *)
NoPast == [kicked |-> {}, ignored |-> {}, halved |-> {}, replaced |-> FALSE, crossed |-> FALSE]

NoChan == [mem |-> << >>, modes |-> {}, ban |-> {}, inv |-> {}, ops |-> << >>, topic |-> ""]
Exists(c) == c.mem # << >>

(* cl[z]: the clients bouncer z knows; ch[z]: its channels; end[e]: what its   *)
(* owner thinks of the link; wire: the links with a connection; q[e]: lines.   *)
Line(cmd, n, ch, arg) == [cmd |-> cmd, n |-> n, ch |-> ch, arg |-> arg]
Short(e) == Len(net.q[e]) <= MaxLines

(* ------------------------------ tables ------------------------------------- *)
Local(z, u) == Home[u] = z
NicksOf(s, z, u) == {n \in DOMAIN s.cl[z] : s.cl[z][n] = u}     \* getclientbynumber()
createclient(s, z, n, u) == [s EXCEPT !.cl[z] = (n :> u) @@ @]
Without(f, S) == Restrict(f, DOMAIN f \ S)
removeclient(s, z, S) == [s EXCEPT !.cl[z] = Without(@, S)]

(* A member's modes: "o" and "v" ('@' and '+').                                *)
(* addchanneltouser(-1), addnicktochannel(): a member again keeps its modes.   *)
addnick(c, n) == [c EXCEPT !.mem = IF n \in DOMAIN @ THEN @ ELSE (n :> {}) @@ @]

(* removenickfromchannel(), and removechannelfromuser(-1) once it is empty.    *)
Removed(c, S) == IF DOMAIN c.mem \subseteq S THEN NoChan
                 ELSE [c EXCEPT !.mem = Without(@, S)]
removenickfromallchannels(s, z, S) ==
    [s EXCEPT !.ch[z] = [k \in Chans |-> IF Exists(@[k]) THEN Removed(@[k], S) ELSE @[k]]]

(* addintop(): no search for an entry that is there; removeintop() takes one.  *)
addintop(c, u) == IF Len(c.ops) < MAXINTOPS THEN [c EXCEPT !.ops = Append(@, u)] ELSE c
removeintop(c, u) ==
    LET i == SelectInSeq(c.ops, LAMBDA v : v = u)
    IN  IF i = 0 THEN c ELSE [c EXCEPT !.ops = RemoveAt(@, i)]
Remembered(c, u) == \E i \in DOMAIN c.ops : c.ops[i] = u

(* mayjoin(): an invitation to a closed channel also lets a banned user in.    *)
mayjoin(c, n, u) == IF "i" \in c.modes THEN n \in c.inv ELSE u \notin c.ban

(* ------------------------------ sending ------------------------------------ *)
(* broadcast(): to every link except the one a line came from. What is written *)
(* on a connection that is gone or replaced is lost.                           *)
broadcast(s, z, except, lines) ==
    [s EXCEPT !.q = [e \in Ends |->
        IF e[1] = z /\ e[2] # except /\ s.end[e] = "on" /\ LinkOf(e) \in s.wire
        THEN @[e] \o lines ELSE @[e]]]

(* enteruser(), for a user without a client: refused if the nick is taken.     *)
enteruser(s, z, u, n) ==
    IF NicksOf(s, z, u) # {} \/ n \in DOMAIN s.cl[z] THEN s
    ELSE broadcast(createclient(s, z, n, u), z, z, <<Line("USER", n, "", u)>>)

(* ------------------------------ modes -------------------------------------- *)
(* A change is [set, let, par]: par is a nick for o and v, a user for b.       *)
Change == [set : BOOLEAN, let : Letters, par : Nicks \cup Users]
OfNick == {"o", "v"}

(* addop() leaves a voice no place, addvoice() and addchannelmode() add it to  *)
(* an operator's modes; delop(), delvoice(). Local operators are remembered.   *)
UserMode(s, z, c, x) ==
    LET n == x.par
        u == s.cl[z][n]
        Own == n \in DOMAIN s.cl[z] /\ Local(z, u)
        d == [c EXCEPT !.mem[n] = CASE ~x.set -> @ \ {x.let}
                                    [] x.let = "o" -> {"o"}
                                    [] OTHER -> @ \cup {"v"}]
    IN  IF n \notin DOMAIN c.mem THEN c
        ELSE IF x.let = "o" /\ Own /\ x.set THEN addintop(d, u)
        ELSE IF x.let = "o" /\ Own /\ "o" \in c.mem[n] THEN removeintop(d, u)
        ELSE d

(* addban(), removeban(), addchannelmode() *)
Moded(s, z, c, x) ==
    CASE x.let \in OfNick -> UserMode(s, z, c, x)
      [] x.let = "b" -> [c EXCEPT !.ban = IF x.set THEN @ \cup {x.par} ELSE @ \ {x.par}]
      [] OTHER -> [c EXCEPT !.modes = IF x.set THEN @ \cup {x.let} ELSE @ \ {x.let}]

(* Whether intmode() passes the change on: a change without effect is not,     *)
(* except +o, +v, and, from a link, a nick that is not on the channel.         *)
PassedOn(c, x, link) ==
    CASE x.let \in OfNick ->
           IF x.par \notin DOMAIN c.mem THEN link
           ELSE x.set \/ x.let \in c.mem[x.par]
      [] x.let = "b" -> x.set # (x.par \in c.ban)
      [] OTHER -> x.set # (x.let \in c.modes)

(* intmode(), for a user of z (from = z) or a line from the link to from.      *)
intmode(s, z, from, n, k, x) ==
    LET c == s.ch[z][k]
        t == [s EXCEPT !.ch[z][k] = Moded(s, z, c, x)]
    IN  IF ~Exists(c) THEN s
        ELSE IF PassedOn(c, x, from # z) THEN broadcast(t, z, from, <<Line("MODE", n, k, x)>>)
        ELSE t

(* ------------------------------ users -------------------------------------- *)
Nobody(n) == [set |-> TRUE, let |-> "o", par |-> n]
Op(s, z, k, n) == n \in DOMAIN s.ch[z][k].mem /\ "o" \in s.ch[z][k].mem[n]

(* cmdintjoin() of the client n: the first one and remembered ones are opped.  *)
Joined(s, z, n, k) ==
    LET c == s.ch[z][k]
        u == s.cl[z][n]
        new == ~Exists(c)
        opped == new \/ Remembered(c, u)
        d == [addnick([c EXCEPT !.inv = @ \ {n}], n)
                EXCEPT !.mem[n] = IF opped THEN {"o"} ELSE @]
        t == [s EXCEPT !.ch[z][k] = IF new THEN addintop(d, u) ELSE d]
    IN  IF n \in DOMAIN c.mem \/ ~mayjoin(c, n, u) THEN s
        ELSE broadcast(t, z, z, <<Line("JOIN", n, k, "")>> \o
                 (IF opped THEN <<Line("MODE", n, k, Nobody(n))>> ELSE <<>>))

Waits(u) == \A e \in Ends : e[1] = Home[u] => Short(e)
Mine(s, u) == NicksOf(s, Home[u], u)

cmdintjoin(u, k) ==
    LET s == enteruser(net, Home[u], u, nick[u])
    IN  /\ Waits(u)
        /\ Mine(s, u) # {}
        /\ \E n \in Mine(s, u) :
             /\ net' = Joined(s, Home[u], n, k)
             /\ saved' = IF n \in DOMAIN net.ch[Home[u]][k].mem THEN saved
                         ELSE IF n \in DOMAIN net'.ch[Home[u]][k].mem
                         THEN [saved EXCEPT ![u] = @ \cup {k}] ELSE saved
        /\ UNCHANGED nick

(* rejoinintchannels() at login.                                               *)
rejoinintchannels(u) ==
    LET s == enteruser(net, Home[u], u, nick[u])
    IN  /\ Waits(u)
        /\ Mine(net, u) = {} /\ saved[u] # {} /\ Mine(s, u) # {}
        /\ \E n \in Mine(s, u) :
             net' = FoldSet(LAMBDA k, t : Joined(t, Home[u], n, k), s, saved[u])
        /\ UNCHANGED <<nick, saved>>

(* Any other command of a user that is not in the network yet: it is entered   *)
(* and told that it is on no channel.                                          *)
Enter(u) ==
    /\ Waits(u)
    /\ Mine(net, u) = {} /\ saved[u] = {}
    /\ net' = enteruser(net, Home[u], u, nick[u])
    /\ net' # net
    /\ UNCHANGED <<nick, saved>>

(* Commands of a client; the ones of operators look the mode up first.         *)
Client(u, n) == Waits(u) /\ n \in Mine(net, u)

cmdintpart(u, n, k) ==
    LET z == Home[u] IN
    /\ Client(u, n)
    /\ n \in DOMAIN net.ch[z][k].mem
    /\ net' = broadcast([net EXCEPT !.ch[z][k] = Removed(@, {n})], z, z, <<Line("PART", n, k, "")>>)
    /\ saved' = [saved EXCEPT ![u] = @ \ {k}]
    /\ UNCHANGED nick

Forgotten(s, z, c, n) ==
    IF n \in DOMAIN s.cl[z] /\ Local(z, s.cl[z][n]) /\ Exists(c)
    THEN removeintop(c, s.cl[z][n]) ELSE c

Kicked(s, z, k, n) ==
    [s EXCEPT !.ch[z][k] = Forgotten(s, z, Removed(@, {n}), n)]

cmdintkick(u, n, k, m) ==
    LET z == Home[u] IN
    /\ Client(u, n) /\ Op(net, z, k, n)
    /\ m \in DOMAIN net.ch[z][k].mem
    /\ net' = broadcast(Kicked(net, z, k, m), z, z, <<Line("KICK", n, k, m)>>)
    /\ UNCHANGED <<nick, saved>>

cmdintmode(u, n, k, x) ==
    /\ Client(u, n) /\ Op(net, Home[u], k, n)
    /\ net' = intmode(net, Home[u], Home[u], n, k, x)
    /\ UNCHANGED <<nick, saved>>

(* An invitation reaches the others for a client of theirs; for a nick nobody  *)
(* has, sendtoclient() formats its buffer into itself, and they read nothing.  *)
Remote(s, z) == {m \in DOMAIN s.cl[z] : ~Local(z, s.cl[z][m])}

cmdintinvite(u, n, k, m) ==
    LET z == Home[u] IN
    /\ Client(u, n) /\ Op(net, z, k, n)
    /\ m \notin DOMAIN net.ch[z][k].mem
    /\ LET s == [net EXCEPT !.ch[z][k].inv = @ \cup {m}]
       IN  net' = IF m \in Remote(net, z)
                  THEN broadcast(s, z, z, <<Line("INVITE", n, k, m)>>) ELSE s
    /\ UNCHANGED <<nick, saved>>

(* A topic, told apart by the user who set it, is not part of a burst.         *)
cmdinttopic(u, n, k) ==
    LET z == Home[u] IN
    /\ Client(u, n) /\ Op(net, z, k, n)
    /\ net' = broadcast([net EXCEPT !.ch[z][k].topic = u], z, z, <<Line("TOPIC", n, k, u)>>)
    /\ UNCHANGED <<nick, saved>>

(* Mutant: the nick stays in the channels. *)
Renamed_Client(s, z, n, m) ==
    [s EXCEPT !.cl[z] = (m :> s.cl[z][n]) @@ Without(@, {n})]

(* nickchange(-1) and the client's entry.                                      *)
Renamed(s, z, n, m) ==
    [s EXCEPT !.cl[z] = (m :> s.cl[z][n]) @@ Without(@, {n}),
              !.ch[z] = [k \in Chans |->
                 IF n \in DOMAIN @[k].mem
                 THEN [@[k] EXCEPT !.mem = (m :> @[n]) @@ Without(@, {n})] ELSE @[k]]]

(* A nick change on the IRC server; refused in silence if the nick is taken. A *)
(* user that is not a client is entered with the new nick.                     *)
cmdintnick(u, m) ==
    LET z == Home[u] IN
    /\ Waits(u) /\ m # nick[u]
    /\ nick' = [nick EXCEPT ![u] = m]
    /\ net' = IF m \in DOMAIN net.cl[z] THEN net
              ELSE IF Mine(net, u) = {} THEN enteruser(net, z, u, m)
              ELSE LET n == CHOOSE x \in Mine(net, u) : TRUE
                   IN  broadcast(Renamed(net, z, n, m), z, z, <<Line("NICK", n, "", m)>>)
    /\ UNCHANGED saved

Gone(s, z, S) == removenickfromallchannels(removeclient(s, z, S), z, S)

(* quitclient(): the last client of the user leaves.                           *)
cmdintquit(u, n) ==
    LET z == Home[u] IN
    /\ Client(u, n)
    /\ net' = broadcast(Gone(net, z, {n}), z, z, <<Line("QUIT", n, "", "")>>)
    /\ UNCHANGED <<nick, saved>>

(* ------------------------------ links -------------------------------------- *)
(* joinintnettolink(): the clients, then the members of the channels, their    *)
(* modes (of an operator with a voice, the first), the bans and the modes of   *)
(* the channel.                                                                *)
ChannelBurst(s, z, k) ==
    LET c == s.ch[z][k]
        ms == SetToSeq(DOMAIN c.mem)
        Has == SelectSeq(ms, LAMBDA n : c.mem[n] # {})
        bs == SetToSeq(c.ban)
        os == SetToSeq(c.modes)
        M(x) == Line("MODE", "", k, x)
    IN  [i \in DOMAIN ms |-> Line("JOIN", ms[i], k, "")]
        \o [i \in DOMAIN Has |-> M([set |-> TRUE, par |-> Has[i],
                                    let |-> IF "o" \in c.mem[Has[i]] THEN "o" ELSE "v"])]
        \o [i \in DOMAIN bs |-> M([set |-> TRUE, par |-> bs[i], let |-> "b"])]
        \o [i \in DOMAIN os |-> M([set |-> TRUE, par |-> "", let |-> os[i]])]

(* Mutant: the clients are not sent. *)
Burst_NoClients(s, z) == FoldSet(LAMBDA k, b : b \o ChannelBurst(s, z, k), <<>>, Chans)

Burst(s, z) ==
    LET ns == SetToSeq(DOMAIN s.cl[z])
    IN  FoldSet(LAMBDA k, b : b \o ChannelBurst(s, z, k),
                [i \in DOMAIN ns |-> Line("USER", ns[i], "", s.cl[z][ns[i]])], Chans)

Halved(z) ==
    {net.cl[z][n] : n \in {m \in DOMAIN net.cl[z] :
        \E k \in Chans : m \in DOMAIN net.ch[z][k].mem /\ net.ch[z][k].mem[m] = OfNick}}

(* connectedlink(): the connecting end has the link from now on; the other one *)
(* keeps a connection it has not missed yet.                                   *)
Connect(l) ==
    /\ net.end[l] = "off"
    /\ LET b == <<l[2], l[1]>>
       IN  net' = [net EXCEPT !.end = [@ EXCEPT ![l] = "on",
                                               ![b] = IF @ = "off" THEN "off" ELSE "stale"],
                              !.wire = @ \cup {l},
                              !.q = [@ EXCEPT ![l] = Burst(net, l[1]), ![b] = <<>>]]
    /\ past' = [past EXCEPT !.halved = @ \cup Halved(l[1])]
    /\ UNCHANGED <<nick, saved>>

(* linklink(): PASS is right, a connection that is still there is killed       *)
(* without its handlers.                                                       *)
linklink(l) ==
    LET b == <<l[2], l[1]>> IN
    /\ l \in net.wire /\ net.end[b] # "on"
    /\ net' = [net EXCEPT !.end[b] = "on", !.q[b] = Burst(net, l[2])]
    /\ past' = [past EXCEPT !.halved = @ \cup Halved(l[2]),
                            !.replaced = @ \/ net.end[b] = "stale"]
    /\ UNCHANGED <<nick, saved>>

(* The bouncers of the topology: what lies behind a link counts at once.       *)
Topology(s, z) == {z} \cup UNION {Behind[e] : e \in {d \in Ends : d[1] = z /\ s.end[d] # "off"}}

(* removetopology(), removeinternal(): the clients behind a lost link quit,    *)
(* and all whose bouncer is not in the topology.                               *)
removeinternal(s, z, w) ==
    LET S == {n \in DOMAIN s.cl[z] : LET h == Home[s.cl[z][n]] IN
                 h \in Behind[<<z, w>>] \/ h \notin Topology(s, z)}
        ns == SetToSeq(S)
    IN  broadcast(Gone(s, z, S), z, z, [i \in DOMAIN ns |-> Line("QUIT", ns[i], "", "")])

(* killedlink(), checklinkkill(): the end e is gone, with its connection.      *)
LinkLost(s, e) ==
    removeinternal([s EXCEPT !.end[e] = "off",
                             !.wire = IF s.end[e] = "on" THEN @ \ {LinkOf(e)} ELSE @,
                             !.q = [d \in Ends |->
                                IF s.end[e] = "on" /\ LinkOf(d) = LinkOf(e) THEN <<>> ELSE @[d]]],
                   e[1], e[2])

(* The connection breaks; the ends notice later.                               *)
Break(l) ==
    /\ l \in net.wire
    /\ net' = [net EXCEPT !.wire = @ \ {l},
                          !.q = [d \in Ends |-> IF LinkOf(d) = l THEN <<>> ELSE @[d]]]
    /\ UNCHANGED <<nick, saved, past>>

Notice(e) ==
    /\ \/ net.end[e] = "on" /\ LinkOf(e) \notin net.wire
       \/ net.end[e] = "stale"
    /\ net' = LinkLost(net, e)
    /\ UNCHANGED <<nick, saved, past>>

(* ------------------------------ lines from a link -------------------------- *)
(* The handlers of inthash with usern = 0 at z, for the line m from w. A nick  *)
(* that is taken ends the link (cmdrelink()), a guest's is ignored in silence. *)
FromLink(s, z, w, m) ==
    LET c == s.ch[z][m.ch]
        known == m.n \in DOMAIN s.cl[z]
        On(t) == broadcast(t, z, w, <<m>>)
        relink == LinkLost(s, <<z, w>>)
    IN  CASE m.cmd = "USER" ->
               IF m.n \in Guests THEN s
               ELSE IF known THEN relink ELSE On(createclient(s, z, m.n, m.arg))
          [] m.cmd = "NICK" ->
               IF ~known THEN s
               ELSE IF m.arg \in DOMAIN s.cl[z] THEN relink ELSE On(Renamed(s, z, m.n, m.arg))
          [] m.cmd = "QUIT" ->
               IF known /\ ~Local(z, s.cl[z][m.n]) THEN On(Gone(s, z, {m.n})) ELSE s
          [] m.cmd = "JOIN" ->
               IF ~known THEN s
               ELSE On([s EXCEPT !.ch[z][m.ch] = addnick([c EXCEPT !.inv = @ \ {m.n}], m.n)])
          [] m.cmd = "PART" ->
               IF ~known \/ m.n \notin DOMAIN c.mem THEN s
               ELSE On([s EXCEPT !.ch[z][m.ch] = Removed(c, {m.n})])
          [] m.cmd = "KICK" ->
               IF ~known \/ m.arg \notin DOMAIN c.mem THEN s
               ELSE On(Kicked(s, z, m.ch, m.arg))
          [] m.cmd = "MODE" -> intmode(s, z, w, m.n, m.ch, m.arg)
          [] m.cmd = "INVITE" ->
               IF ~known \/ ~Exists(c) \/ m.arg \in DOMAIN c.mem THEN s
               ELSE LET t == [s EXCEPT !.ch[z][m.ch].inv = @ \cup {m.arg}]
                    IN  IF m.arg \in Remote(s, z) THEN On(t) ELSE t
          [] m.cmd = "TOPIC" ->
               IF ~Exists(c) THEN s ELSE On([s EXCEPT !.ch[z][m.ch].topic = m.arg])

internalinbound(e) ==
    LET b == <<e[2], e[1]>>
        m == Head(net.q[e])
    IN
    /\ net.q[e] # <<>> /\ net.end[b] = "on"
    /\ net' = FromLink([net EXCEPT !.q[e] = Tail(@)], e[2], e[1], m)
    /\ past' = IF m.cmd = "USER" /\ m.n \in Guests
               THEN [past EXCEPT !.ignored = @ \cup {m.arg}] ELSE past
    /\ UNCHANGED <<nick, saved>>

(* --------------------------------------------------------------------------- *)
Init ==
    /\ net = [cl |-> [z \in Bouncers |-> << >>],
              ch |-> [z \in Bouncers |-> [k \in Chans |-> NoChan]],
              end |-> [e \in Ends |-> "off"], wire |-> {},
              q |-> [e \in Ends |-> <<>>]]
    /\ nick \in [Users -> Nicks]
    /\ saved = [u \in Users |-> {}]
    /\ past = NoPast /\ events = 0

Past(K) == past' = [past EXCEPT !.kicked = @ \cup K,
                                !.crossed = @ \/ \E e \in Ends : net.q[e] # <<>>]

UserNext(u) ==
    \/ /\ \/ Enter(u) \/ rejoinintchannels(u)
          \/ \E k \in Chans : cmdintjoin(u, k)
          \/ \E m \in Nicks : cmdintnick(u, m)
          \/ \E n \in Nicks : cmdintquit(u, n)
          \/ \E n \in Nicks, k \in Chans :
                \/ cmdintpart(u, n, k) \/ cmdinttopic(u, n, k)
                \/ \E m \in Nicks : cmdintinvite(u, n, k, m)
                \/ \E x \in Change :
                      /\ IF x.let \in OfNick THEN x.par \in Nicks ELSE x.par \in Users
                      /\ cmdintmode(u, n, k, x)
       /\ Past({})
    \/ \E n, m \in Nicks, k \in Chans :
          cmdintkick(u, n, k, m) /\ Past({net.cl[Home[u]][m]})

Next ==
    \/ /\ events < MaxEvents /\ events' = events + 1
       /\ \/ \E u \in Users : UserNext(u)
          \/ \E l \in Links : Break(l)
    \/ /\ UNCHANGED events
       /\ \/ \E l \in Links : Connect(l) \/ linklink(l)
          \/ \E e \in Ends : Notice(e) \/ internalinbound(e)

Spec == Init /\ [][Next]_vars

(* --------------------------------------------------------------------------- *)
(* Type invariant.                                                             *)
TypeOK ==
    /\ \A z \in Bouncers :
         /\ DOMAIN net.cl[z] \subseteq Nicks /\ \A n \in DOMAIN net.cl[z] : net.cl[z][n] \in Users
         /\ \A k \in Chans : LET c == net.ch[z][k] IN
              /\ DOMAIN c.mem \subseteq Nicks
              /\ \A n \in DOMAIN c.mem : c.mem[n] \subseteq OfNick
              /\ c.modes \subseteq {"i"} /\ c.ban \subseteq Users /\ c.inv \subseteq Nicks
              /\ c.topic \in Users \cup {""} /\ c.ops \in Seq(Users) /\ Len(c.ops) <= MAXINTOPS
    /\ net.end \in [Ends -> {"off", "on", "stale"}] /\ net.wire \subseteq Links
    /\ nick \in [Users -> Nicks] /\ saved \in [Users -> SUBSET Chans]

(* A member of a channel is a client of the bouncer, and a channel without     *)
(* members keeps neither modes nor remembered operators, in whatever order     *)
(* nick changes, quits, kicks and lost links arrive.                           *)
MembersAreClients ==
    \A z \in Bouncers, k \in Chans :
       LET c == net.ch[z][k] IN
       /\ DOMAIN c.mem \subseteq DOMAIN net.cl[z]
       /\ ~Exists(c) => c = NoChan

(* Only local users are remembered as operators: what a bouncer grants on a    *)
(* join is granted to its own users.                                           *)
OpsAreLocal ==
    \A z \in Bouncers, k \in Chans : \A i \in DOMAIN net.ch[z][k].ops :
       Local(z, net.ch[z][k].ops[i])

Quiet == net.wire = Links /\ \A e \in Ends : net.end[e] = "on" /\ net.q[e] = <<>>

(* A client that a bouncer has ignored is unknown there, whatever its nick is  *)
(* now; lines of it that cross others are taken for those of the nick's owner. *)
Guest(u) == u \in past.ignored \/ (past.crossed /\ past.ignored # {})

(* "Channels and modes are shared thruout the linked bouncers": once every     *)
(* line has arrived and no connection was replaced in silence, all bouncers    *)
(* know the same clients ...                                                   *)
ClientsAgree ==
    \A z, w \in Bouncers : \A n \in DOMAIN net.cl[z] :
       Guest(net.cl[z][n]) \/ (n \in DOMAIN net.cl[w] /\ net.cl[w][n] = net.cl[z][n])

(* ... the same members of every channel; a KICK may cross a PART and a new    *)
(* JOIN of the same user, and one by a guest is ignored;                       *)
MembersAgree ==
    \A z, w \in Bouncers, k \in Chans : \A n \in DOMAIN net.cl[z] :
       LET u == net.cl[z][n] IN
       \/ Guest(u)
       \/ u \in past.kicked /\ (past.crossed \/ past.ignored # {})
       \/ n \in DOMAIN net.ch[z][k].mem <=> n \in DOMAIN net.ch[w][k].mem

(* ... and, if no commands crossed and no guest was ignored, the same bans and *)
(* modes, except for a voice a burst did not carry.                            *)
ModesAgree ==
    \/ past.crossed \/ past.ignored # {}
    \/ \A z, w \in Bouncers, k \in Chans :
         LET c == net.ch[z][k]
             d == net.ch[w][k]
         IN  /\ c.ban = d.ban /\ c.modes = d.modes
             /\ \A n \in DOMAIN c.mem :
                   LET X == IF net.cl[z][n] \in past.halved THEN {"o"} ELSE OfNick
                   IN  n \in DOMAIN d.mem /\ c.mem[n] \cap X = d.mem[n] \cap X

(* The tables of one bouncer: members are clients, empty channels are gone,    *)
(* and only local users are remembered as operators.                           *)
Consistent == TypeOK /\ MembersAreClients /\ OpsAreLocal

(* The bouncers agree on clients, members and modes once all lines have        *)
(* arrived, when links break and lines cross.                                  *)
BouncersAgree == (Quiet /\ ~past.replaced) => (ClientsAgree /\ MembersAgree /\ ModesAgree)
=============================================================================
