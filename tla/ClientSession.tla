---------------------------- MODULE ClientSession ----------------------------
(***************************************************************************)
(* The client side of the bouncer: connections accepted by the listener     *)
(* (checknewlistener), the login dialogue of a peer (checkoldlistener,       *)
(* linkpeer, firstuser), the lockout after wrong passwords, and the client   *)
(* sockets of a user, which form a socket group and share one user record   *)
(* (killsocket with its remapper and destructor, quitclient, QUIT, BKILL,    *)
(* BREHASH, and what BQUIT and BRAW do to the client side).                  *)
(*                                                                         *)
(* A user record with a parent is a further network of that user; it has no *)
(* client sockets of its own but an insock field like every user record.    *)
(***************************************************************************)
EXTENDS Integers, FiniteSetsExt

CONSTANTS
    NUsers,       \* user records 1 .. NUsers
    Parent,       \* parent of a record; 0 for a main record
    Fds,          \* descriptors of accepted connections
    MaxPeer,      \* 254: slots of the peer table
    MaxPerHost,   \* 3: pending logins per host
    MaxLines,     \* 8: lines a peer may send before it is logged in
    Hosts,        \* hosts clients connect from
    HostAllows,   \* those the list hostallows matches
    Names, Passes,\* login names and passwords clients use
    Accounts,     \* name and password of every main record of the configuration
    MaxPenalty,   \* 2: wrong passwords that are tolerated
    LockTime,     \* 600: seconds a locked user stays locked
    LockRand,     \* 120: bound of the random seconds added to it
    ForeignBquit  \* users and networks that admins BQUIT

None == "none"

Users == 1 .. NUsers
Mains == {u \in Users : Parent[u] = 0}
Peers == 1 .. MaxPeer
Account == [login : Names \cup {None}, pass : Passes \cup {None}]

ASSUME ClientSessionAssumption ==
    /\ NUsers \in Nat \ {0}
    /\ Parent \in [Users -> 0 .. NUsers]
    /\ \A u \in Users : Parent[u] = 0 \/ Parent[u] \in Mains
    /\ 1 \in Mains
    /\ Fds \subseteq Nat \ {0} /\ IsFiniteSet(Fds)
    /\ MaxPeer \in Nat /\ MaxPerHost \in Nat \ {0} /\ MaxLines \in Nat
    /\ HostAllows \subseteq Hosts
    /\ None \notin Names /\ None \notin Passes
    /\ Accounts \in [Mains -> Account]
    /\ \A u, v \in Mains : Accounts[u].login = Accounts[v].login => u = v
    /\ MaxPenalty \in Nat /\ LockTime \in Nat /\ LockRand \in Nat \ {0}
    /\ ForeignBquit \subseteq Users

VARIABLES
    sock,     \* accepted sockets by descriptor; NoSock when free
    peer,     \* the peer table; NoPeer for STD_NOUSE
    user,     \* insock, instate, penalty and pentime of every user record
    account,  \* login and pass of every main record
    nousers,  \* the global flag: no user was ever loaded or created
    cleared   \* history, not code: main records an admin's BRAW detached since
              \* their last login

vars == <<sock, peer, user, account, nousers, cleared>>

-----------------------------------------------------------------------------
(* Types *)

NoSock == [kind |-> "free", param |-> 0, group |-> 0]
Sock == [kind : {"peer"}, param : Peers, group : {0}]
          \cup [kind : {"client"}, param : Mains, group : Mains]

NoPeer == [insock |-> 0, host |-> None, nick |-> FALSE, user |-> FALSE,
           login |-> None, pass |-> None, delayed |-> 0]
Peer == [insock : Fds, host : Hosts, nick : BOOLEAN, user : BOOLEAN,
         login : Names \cup {None}, pass : Passes \cup {None}, delayed : Nat]

Unset == -1       \* a pentime of 0

User == [insock : Fds \cup {0}, instate : {"NOCON", "CONN"},
         penalty : Nat, pentime : Int]

(* Type invariant. *)
TypeOK ==
    /\ sock \in [Fds -> Sock \cup {NoSock}]
    /\ peer \in [Peers -> Peer \cup {NoPeer}]
    /\ user \in [Users -> User]
    /\ account \in [Mains -> Account]
    /\ nousers \in BOOLEAN
    /\ cleared \subseteq Mains

-----------------------------------------------------------------------------
(* Tables *)

Root(u) == IF Parent[u] = 0 THEN u ELSE Parent[u]

FreeFds == {f \in Fds : sock[f] = NoSock}
NewFd == Min(FreeFds)

FreePeers == {p \in Peers : peer[p] = NoPeer}

(* getnewpeer *)
getnewpeer == Min(FreePeers)

Pending(h) == {p \in Peers : peer[p] # NoPeer /\ peer[p].host = h}

IsClient(f, u) == sock[f].kind = "client" /\ sock[f].param = u

(* getpsocketbygroup(socketnode, group of f, f): which other member comes    *)
(* first in the socket list is left open.                                    *)
Others(f) == {g \in Fds \ {f} : sock[f].group # 0 /\ sock[g].group = sock[f].group}

Closed(F) == [f \in Fds |-> IF f \in F THEN NoSock ELSE sock[f]]

(* checkuser: the main record with a login name, if there is one.            *)
checkuser(name) == {u \in Mains : account[u].login = name}

-----------------------------------------------------------------------------
(* Accepting a connection *)

(* checknewlistener: too many pending logins of the host, or no free slot in *)
(* the peer table, and the new socket is closed at once.                     *)
checknewlistener(h) ==
    /\ FreeFds # {}
    /\ Cardinality(Pending(h)) < MaxPerHost
    /\ FreePeers # {}
    /\ sock' = [sock EXCEPT ![NewFd] = [kind |-> "peer", param |-> getnewpeer, group |-> 0]]
    /\ peer' = [peer EXCEPT ![getnewpeer] = [NoPeer EXCEPT !.insock = NewFd, !.host = h]]
    /\ UNCHANGED <<user, account, nousers, cleared>>

(* acceptcb: a host that no entry of hostallows matches, by its address or   *)
(* by its name, is disconnected before a socket is created for it.           *)
checkhostallows(h) == h \in HostAllows

acceptcb(h) == checkhostallows(h) /\ checknewlistener(h)

-----------------------------------------------------------------------------
(* The login dialogue *)

(* erasepeer: the socket is closed and the slot is cleared. *)
erasepeer(p) ==
    /\ sock' = Closed({peer[p].insock})
    /\ peer' = [peer EXCEPT ![p] = NoPeer]
    /\ UNCHANGED cleared

Complete(r) == r.nick /\ r.login # None /\ r.pass # None

(* Mutant: the slot of the peer is not cleared. *)
Adopt_KeepsPeer(p, u) ==
    /\ sock' = [sock EXCEPT ![peer[p].insock] = [kind |-> "client", param |-> u, group |-> u]]
    /\ cleared' = cleared \ {u}
    /\ UNCHANGED peer

(* The socket of the peer becomes a client socket of u. *)
Adopt(p, u) ==
    /\ sock' = [sock EXCEPT ![peer[p].insock] = [kind |-> "client", param |-> u, group |-> u]]
    /\ peer' = [peer EXCEPT ![p] = NoPeer]
    /\ cleared' = cleared \ {u}

(* linkpeer while no user exists: the first login creates user 1.  nousers   *)
(* is cleared before cmdadduser() can fail (it does on an empty real name).  *)
linkpeerFirst(p, r) ==
    /\ nousers
    /\ nousers' = FALSE
    /\ IF r.user
       THEN /\ Adopt(p, 1)
            /\ account' = [account EXCEPT ![1] = [login |-> r.login, pass |-> r.pass]]
            /\ user' = [user EXCEPT ![1].insock = r.insock, ![1].instate = "CONN"]
       ELSE erasepeer(p) /\ UNCHANGED <<account, user>>

(* A counter that no test tells apart beyond max stays there. *)
Older(n, max) == IF n < max THEN n + 1 ELSE n

linkpeerUnknown(p, r) ==
    /\ ~nousers
    /\ checkuser(r.login) = {}
    /\ erasepeer(p)
    /\ UNCHANGED <<user, account, nousers>>

linkpeerWrong(p, r, u) ==
    /\ ~nousers
    /\ u \in checkuser(r.login) /\ account[u].pass # r.pass
    /\ erasepeer(p)
    /\ user' = [user EXCEPT ![u].penalty = Older(@, MaxPenalty + 1),
                            ![u].pentime = 0]
    /\ UNCHANGED <<account, nousers>>

(* Mutant: one more wrong password is tolerated. *)
Locked_Late(u, rnd) == user[u].penalty > MaxPenalty + 1 /\ user[u].pentime < LockTime + rnd

(* pentime + 600 + rand() % 120 > time(NULL), rnd being the random number.   *)
Locked(u, rnd) == user[u].penalty > MaxPenalty /\ user[u].pentime < LockTime + rnd

linkpeerLocked(p, r, u, rnd) ==
    /\ ~nousers
    /\ u \in checkuser(r.login) /\ account[u].pass = r.pass
    /\ Locked(u, rnd)
    /\ erasepeer(p)
    /\ UNCHANGED <<user, account, nousers>>

(* The login is accepted: the client is the newest of the user and of all    *)
(* the user's networks.                                                      *)
linkpeerLogin(p, r, u, rnd) ==
    /\ ~nousers
    /\ u \in checkuser(r.login) /\ account[u].pass = r.pass
    /\ ~Locked(u, rnd)
    /\ Adopt(p, u)
    /\ user' = [v \in Users |->
                  IF v = u
                  THEN [insock |-> r.insock, instate |-> "CONN", penalty |-> 0, pentime |-> Unset]
                  ELSE IF Parent[v] = u
                  THEN [user[v] EXCEPT !.insock = r.insock, !.instate = "CONN"]
                  ELSE user[v]]
    /\ UNCHANGED <<account, nousers>>

linkpeer(p, r) ==
    \/ linkpeerFirst(p, r)
    \/ linkpeerUnknown(p, r)
    \/ \E u \in Mains : linkpeerWrong(p, r, u)
    \/ \E u \in Mains, rnd \in 0 .. LockRand - 1 :
          linkpeerLocked(p, r, u, rnd) \/ linkpeerLogin(p, r, u, rnd)

(* The fields of the peer after one line of the dialogue; a missing          *)
(* parameter empties the field, a USER without further words keeps the login. *)
LineUSER(r, name, real) == [r EXCEPT !.login = name, !.user = real]
LineNICK(r, given) == [r EXCEPT !.nick = given]
LinePASS(r, pw) == [r EXCEPT !.pass = pw]

(* checkoldlistener: r is the peer's record after the line was parsed.       *)
checkoldlistener(p, r) ==
    /\ peer[p] # NoPeer
    /\ LET counted == [r EXCEPT !.delayed = @ + 1]
       IN  IF counted.delayed > MaxLines
           THEN erasepeer(p) /\ UNCHANGED <<user, account, nousers>>
           ELSE IF Complete(counted)
           THEN linkpeer(p, counted)
           ELSE /\ peer' = [peer EXCEPT ![p] = counted]
                /\ UNCHANGED <<sock, user, account, nousers, cleared>>

Line(p) ==
    \/ checkoldlistener(p, peer[p])
    \/ \E given \in BOOLEAN : checkoldlistener(p, LineNICK(peer[p], given))
    \/ \E name \in Names \cup {None, peer[p].login}, real \in BOOLEAN :
          checkoldlistener(p, LineUSER(peer[p], name, real))
    \/ \E pw \in Passes \cup {None} : checkoldlistener(p, LinePASS(peer[p], pw))

-----------------------------------------------------------------------------
(* Closing a socket *)

(* Below, us is the table of user records before the call.                   *)

(* Mutant: the networks keep their state. *)
quitclient_MainOnly(us, u, F) ==
    /\ user' = [us EXCEPT ![u].instate = "NOCON", ![u].insock = 0]
    /\ sock' = Closed(F \cup {us[u].insock})
    /\ UNCHANGED <<peer, account, nousers>>

(* quitclient(u): u and its networks are detached, the insock of u and the   *)
(* sockets F are closed.                                                     *)
quitclient(us, u, F) ==
    /\ user' = [v \in Users |-> IF Root(v) = u
                                THEN [us[v] EXCEPT !.instate = "NOCON", !.insock = 0]
                                ELSE us[v]]
    /\ sock' = Closed(F \cup {us[u].insock})
    /\ UNCHANGED <<peer, account, nousers>>

(* killsocket: the client is gone, sent too much without a newline, or was   *)
(* named in a KILLSOCK.  A peer's destructor erases it; a member of a group  *)
(* is replaced by another one, of which the remapper userinboundsocket tells *)
(* the main record only; the last one's destructor userinkill detaches all.  *)
killPeer(f) ==
    /\ sock[f].kind = "peer"
    /\ erasepeer(sock[f].param)
    /\ UNCHANGED <<user, account, nousers>>

(* Mutant: the remapper is not called. *)
killRemapped_Forgets(us, f, g) ==
    /\ sock[f].kind = "client"
    /\ g \in Others(f)
    /\ user' = us
    /\ sock' = Closed({f})
    /\ UNCHANGED <<peer, account, nousers, cleared>>

killRemapped(us, f, g) ==
    /\ sock[f].kind = "client"
    /\ g \in Others(f)
    /\ user' = [us EXCEPT ![sock[f].param].insock = g]
    /\ sock' = Closed({f})
    /\ UNCHANGED <<peer, account, nousers, cleared>>

killLast(f) ==
    /\ sock[f].kind = "client"
    /\ Others(f) = {}
    /\ quitclient(user, sock[f].param, {f})
    /\ UNCHANGED cleared

killsocket(f) == killPeer(f) \/ (\E g \in Fds : killRemapped(user, f, g)) \/ killLast(f)

-----------------------------------------------------------------------------
(* Lines of a client *)

(* A line on the client socket f is for the record v: the user's own one, or *)
(* the network whose token checknetwork finds in the line.                   *)
Sends(f, v) == sock[f].kind = "client" /\ Root(v) = sock[f].param

(* userinbound: a network takes over the state of its main record, and the   *)
(* record the line is for gets the socket of the line as its insock.         *)
userinbound(f, v) ==
    [user EXCEPT ![v].insock = f, ![v].instate = user[Root(v)].instate]

(* Every line that none of the handlers below takes. *)
otherline(f, v) ==
    /\ Sends(f, v)
    /\ user' = userinbound(f, v)
    /\ UNCHANGED <<sock, peer, account, nousers, cleared>>

(* cmdquit, called for the main record u by a line on socket f: it looks for *)
(* another client in the group of the socket, not of u.                      *)
QuitOneOf(us, f) == \E g \in Fds : killRemapped(us, f, g)
QuitAll(us, f, u) == Others(f) = {} /\ quitclient(us, u, {})

(* QUIT *)
cmdquit(f, v) ==
    /\ Sends(f, v)
    /\ \/ QuitOneOf(userinbound(f, v), f)
       \/ QuitAll(userinbound(f, v), f, Root(v)) /\ UNCHANGED cleared

(* BRAW of a QUIT for the user u: fakeinbound calls cmdquit for u while the   *)
(* socket is the admin's.  Only the insock of u is closed: other clients of  *)
(* u stay, and the records say that nobody is there.                         *)
cmdbraw(f, v, u) ==
    /\ Sends(f, v)
    /\ u \in Mains /\ account[u].login # None
    /\ \/ QuitOneOf(userinbound(f, v), f)
       \/ QuitAll(userinbound(f, v), f, u) /\ cleared' = cleared \cup {u}

(* BKILL of the main record u: all client sockets are closed one by one, the *)
(* last one through its destructor.                                          *)
cmdbkill(f, v, u) ==
    LET F == {g \in Fds : IsClient(g, u)}
        us == userinbound(f, v)
    IN  /\ Sends(f, v)
        /\ u \in Mains
        /\ us[u].instate = "CONN"
        /\ user' = [w \in Users |-> IF w = u \/ (Root(w) = u /\ F # {})
                                    THEN [us[w] EXCEPT !.instate = "NOCON", !.insock = 0]
                                    ELSE us[w]]
        /\ sock' = Closed(F)
        /\ UNCHANGED <<peer, account, nousers, cleared>>

(* BQUIT of the own connection that the line is for, and an admin's BQUIT or *)
(* BQUITN of another user's or network's: for a connection that is up the    *)
(* client state of the target is set.                                        *)
cmdbquit(f, v, u) ==
    /\ Sends(f, v)
    /\ u \in ForeignBquit \cup {v}
    /\ user' = [userinbound(f, v) EXCEPT ![u].instate = "CONN"]
    /\ UNCHANGED <<sock, peer, account, nousers, cleared>>

(* useroutbound: before a line from the server of a network is handled, the  *)
(* network takes over the client state of its parent.                        *)
TakeOver(us, v) == [us[v] EXCEPT !.insock = us[Root(v)].insock,
                                 !.instate = us[Root(v)].instate]

useroutbound(v) ==
    /\ user' = [user EXCEPT ![v] = TakeOver(user, v)]
    /\ UNCHANGED <<sock, peer, account, nousers, cleared>>

(* checkparents, for every record: so does every network that is loaded. *)
checkparents(us) == [v \in Users |-> TakeOver(us, v)]

(* BREHASH, or SIGHUP when there is a user 1: accepted sockets are of the     *)
(* type ST_LISTEN and are not killed; the users are loaded again.            *)
cmdrehash ==
    /\ \/ \E f \in Fds, v \in Users : Sends(f, v) /\ user' = checkparents(userinbound(f, v))
       \/ account[1].login # None /\ user' = checkparents(user)
    /\ UNCHANGED <<sock, peer, account, nousers, cleared>>

(* One second passes; a pentime beyond any lockout keeps its age. *)
Tick ==
    /\ user' = [u \in Users |->
                  IF user[u].pentime = Unset THEN user[u]
                  ELSE [user[u] EXCEPT !.pentime = Older(@, LockTime + LockRand)]]
    /\ UNCHANGED <<sock, peer, account, nousers, cleared>>

-----------------------------------------------------------------------------
Init ==
    /\ sock = [f \in Fds |-> NoSock]
    /\ peer = [p \in Peers |-> NoPeer]
    /\ user = [u \in Users |-> [insock |-> 0, instate |-> "NOCON",
                                penalty |-> 0, pentime |-> Unset]]
    /\ \/ nousers = FALSE /\ account = Accounts
       \/ nousers = TRUE /\ account = [u \in Mains |-> [login |-> None, pass |-> None]]
    /\ cleared = {}

Next ==
    \/ \E h \in Hosts : acceptcb(h)
    \/ \E p \in Peers : Line(p)
    \/ \E f \in Fds : killsocket(f)
    \/ \E f \in Fds, v \in Users :
          \/ otherline(f, v)
          \/ cmdquit(f, v)
          \/ \E u \in Users : cmdbraw(f, v, u) \/ cmdbkill(f, v, u) \/ cmdbquit(f, v, u)
    \/ \E v \in Users : useroutbound(v)
    \/ cmdrehash
    \/ Tick

Spec == Init /\ [][Next]_vars

-----------------------------------------------------------------------------
(* Properties *)

(* Peer slots and sockets of pending logins correspond one to one, through   *)
(* the nested erasepeer() / killoldlistener() / killsocket() calls: no slot  *)
(* of the table leaks and none is shared.                                    *)
PeersMatchSockets ==
    /\ \A p \in Peers : peer[p] # NoPeer =>
          sock[peer[p].insock] = [kind |-> "peer", param |-> p, group |-> 0]
    /\ \A f \in Fds : sock[f].kind = "peer" => peer[sock[f].param].insock = f

(* The insock of a main record is one of the user's live client sockets as   *)
(* long as there is any, in whatever order clients of the group come and go, *)
(* and never a descriptor that now belongs to someone else.  An admin's BRAW *)
(* of a QUIT takes the insock from a user who still has a client.            *)
MainInsock ==
    \A u \in Mains :
       /\ (\E f \in Fds : IsClient(f, u)) => user[u].insock # 0 \/ u \in cleared
       /\ user[u].insock # 0 => IsClient(user[u].insock, u)

(* Records whose state no admin's BQUIT has changed, nor that of their parent. *)
Plain == {u \in Users : u \notin ForeignBquit /\ Root(u) \notin ForeignBquit}

(* A user with a client is in state CONN unless an admin's BRAW of a QUIT     *)
(* cleared it; a user without one is not, networks included, unless an        *)
(* admin's BQUIT set it: that is what privmsg() asks before it logs a message. *)
InstateExact ==
    /\ \A u \in Plain : user[u].instate = "CONN" => \E f \in Fds : IsClient(f, Root(u))
    /\ \A u \in Mains, f \in Fds : IsClient(f, u) => user[u].instate = "CONN" \/ u \in cleared

(* p_peer.c: "If more than 2 false logins are given, psybnc will lockup any  *)
(* login from that user for 10 minutes": no step gives a locked user another *)
(* client.                                                                   *)
LockoutHolds ==
    [][\A u \in Mains, f \in Fds :
          (sock'[f].kind = "client" /\ sock'[f].param = u /\ ~IsClient(f, u)) =>
             ~(user[u].penalty > MaxPenalty /\ user[u].pentime < LockTime)]_vars

(* The tables: every pending login has one peer slot and one socket,          *)
(* whatever ends it.                                                         *)
Consistent == TypeOK /\ PeersMatchSockets
=============================================================================
