---------------------------- MODULE UserRegistry ----------------------------
(***************************************************************************)
(* The user table and its copy in the configuration: ADDUSER, DELUSER,      *)
(* ADDNETWORK, DELNETWORK, SWITCHNET, ADMIN, UNADMIN, BREHASH and restarts,  *)
(* with the client sockets, which name a record of the table by its number, *)
(* and the lines between clients and servers, which refresh insock and      *)
(* instate of a network (userinbound, useroutbound).                        *)
(*                                                                         *)
(* Of a record the fields are kept that tie records together, the password,  *)
(* the realname, and opt, which stands for any other setting that a command *)
(* changes and saves; the value of each is 0 in a new record.  Lists are    *)
(* loaded and saved with them.                                              *)
(***************************************************************************)
EXTENDS NetworkToken, FiniteSetsExt

CONSTANTS
    MaxUser,   \* MAX_USER: records of the table
    Fds,       \* descriptors of clients
    Logins,    \* login names
    Nets,      \* names of networks
    NewValues, \* values given to a setting, of 0 and 1
    MaxSets,   \* bound: commands that change a setting
    DeleteSwitched  \* TRUE: users who have used SWITCHNET are deleted too

None == "none"
Slots == 1 .. MaxUser

ASSUME UserRegistryAssumption ==
    /\ MaxUser \in Nat \ {0}
    /\ Fds \subseteq Nat \ {0} /\ IsFiniteSet(Fds)
    /\ None \notin Logins \cup Nets
    /\ NoNet \notin Nets
    /\ DeleteSwitched \in BOOLEAN
    /\ MaxSets \in Nat /\ NewValues \subseteq {0, 1}
    /\ Server \notin Nicks /\ Nicks \cap Chans = {}

VARIABLES
    rec,       \* the records; NoRec where login is empty
    cfg,       \* the saved part of every record in the configuration
    sock,      \* param and group of a client socket; 0 if there is none
    nousers,   \* the flag of loadusers() and linkpeer()
    owner,     \* history: the login a client socket was accepted with
    switched,  \* history: logins that have used SWITCHNET
    sets       \* commands that have changed a setting

vars == <<rec, cfg, sock, nousers, owner, switched, sets>>

-----------------------------------------------------------------------------
NoSaved == [login |-> None, network |-> None, parent |-> 0, rights |-> "user",
            pass |-> 0, user |-> 0, opt |-> 0]
NoRec == [saved |-> NoSaved, insock |-> 0, instate |-> "NOUSE"]

Saved == [login : Logins \cup {None}, network : Nets \cup {None},
          parent : 0 .. MaxUser, rights : {"user", "admin"},
          pass : {0, 1}, user : {0, 1}, opt : {0, 1}]

(* Type invariant. *)
TypeOK ==
    /\ rec \in [Slots -> [saved : Saved, insock : Fds \cup {0},
                          instate : {"NOUSE", "NOCON", "CONN"}]]
    /\ cfg \in [Slots -> Saved]
    /\ sock \in [Fds -> 0 .. MaxUser]
    /\ nousers \in BOOLEAN
    /\ owner \in [Fds -> Logins \cup {None}]
    /\ switched \subseteq Logins
    /\ sets \in 0 .. MaxSets

Login(u) == rec[u].saved.login
Parent(u) == rec[u].saved.parent
Root(u) == IF Parent(u) = 0 THEN u ELSE Parent(u)
Exists(u) == Login(u) # None
Family(u) == {v \in Slots : v = u \/ Parent(v) = u}
Networks(u) == {v \in Slots : Exists(v) /\ Parent(v) = u}

(* checkuser: the main record of the first record with the login name.       *)
checkuser(name) == {Root(u) : u \in {v \in Slots : Login(v) = name}}

(* checkusernetwork, findnet *)
checkusernetwork(u, net) == {v \in Networks(u) : rec[v].saved.network = net}

-----------------------------------------------------------------------------
(* Loading and saving *)

(* loaduser: a record with an entry in the configuration is filled from it   *)
(* and stays connected to its clients; without an entry it is cleared.       *)
loaduser(s, r) ==
    IF s.login = None THEN NoRec
    ELSE [r EXCEPT !.saved = s, !.instate = IF @ = "NOUSE" THEN "NOCON" ELSE @]

(* checkparents, record by record in the order of their numbers: a network   *)
(* without its parent is deleted, any other takes over login, password,      *)
(* realname and rights.                                                      *)
checkparents(rs) ==
    [u \in Slots |->
       LET p == rs[u].saved.parent
       IN  IF p = 0 THEN rs[u]
           ELSE IF rs[p] = NoRec THEN NoRec
           ELSE [rs[u] EXCEPT !.saved.login = rs[p].saved.login,
                              !.saved.rights = rs[p].saved.rights,
                              !.saved.pass = rs[p].saved.pass,
                              !.saved.user = rs[p].saved.user,
                              !.insock = rs[p].insock, !.instate = rs[p].instate]]

(* deluser of the records checkparents() could not place. *)
Orphans(rs) == {u \in Slots : rs[u] # NoRec /\ checkparents(rs)[u] = NoRec}

(* loadusers, with the records rs in memory. *)
loadusers(rs) ==
    LET loaded == [u \in Slots |-> loaduser(cfg[u], rs[u])]
    IN  /\ rec' = checkparents(loaded)
        /\ cfg' = [u \in Slots |-> IF u \in Orphans(loaded) THEN NoSaved ELSE cfg[u]]
        /\ nousers' = (nousers /\ \A u \in Slots : cfg[u] = NoSaved)

(* BREHASH, or SIGHUP when there is a user 1.  Accepted sockets are of the    *)
(* type ST_LISTEN and are not killed: the clients stay.                      *)
cmdrehash ==
    /\ Exists(1) \/ \E f \in Fds : sock[f] # 0
    /\ loadusers(rec)
    /\ UNCHANGED <<sock, owner, switched, sets>>

(* The program ends and is started again. *)
Restart ==
    /\ loadusers([u \in Slots |-> NoRec])
    /\ sock' = [f \in Fds |-> 0]
    /\ owner' = [f \in Fds |-> None]
    /\ UNCHANGED <<switched, sets>>

-----------------------------------------------------------------------------
(* Clients *)

Free == {f \in Fds : sock[f] = 0}

Attach(f, u, name, rs) ==
    /\ rec' = [v \in Slots |-> IF v = u \/ (rs[v].saved.parent = u /\ rs[v] # NoRec)
                               THEN [rs[v] EXCEPT !.insock = f, !.instate = "CONN"] ELSE rs[v]]
    /\ sock' = [sock EXCEPT ![f] = u]
    /\ owner' = [owner EXCEPT ![f] = name]

(* linkpeer with the right password. *)
linkpeer(f, name) ==
    /\ f = Min(Free) /\ ~nousers
    /\ \E u \in checkuser(name) : Attach(f, u, name, rec)
    /\ UNCHANGED <<cfg, nousers, switched, sets>>

(* linkpeer, firstuser, cmdadduser(0): the first login becomes the owner.    *)
firstuser(f, name) ==
    LET s == [NoSaved EXCEPT !.login = name, !.rights = "admin"]
    IN  /\ f = Min(Free) /\ nousers
        /\ nousers' = FALSE
        /\ Attach(f, 1, name, [rec EXCEPT ![1] = loaduser(s, NoRec)])
        /\ cfg' = [cfg EXCEPT ![1] = s]
        /\ UNCHANGED <<switched, sets>>

(* quitclient(u): u and the records whose parent is u are detached.          *)
Detached(rs, u) ==
    [v \in Slots |-> IF rs[v] # NoRec /\ (v = u \/ rs[v].saved.parent = u)
                     THEN [rs[v] EXCEPT !.instate = "NOCON", !.insock = 0] ELSE rs[v]]

(* A client goes: another socket of its group takes its place, or the record *)
(* its socket names is detached.                                             *)
Leave(f) ==
    LET u == sock[f]
        Group == {g \in Fds \ {f} : sock[g] = u}
    IN  /\ u # 0
        /\ sock' = [sock EXCEPT ![f] = 0]
        /\ owner' = [owner EXCEPT ![f] = None]
        /\ \/ \E g \in Group : rec' = [rec EXCEPT ![u].insock = IF Exists(u) THEN g ELSE 0]
           \/ Group = {} /\ rec' = Detached(rec, u)
        /\ UNCHANGED <<cfg, nousers, switched, sets>>

(* userinbound: the line of client f is for the main record or, by its token, *)
(* for the network v (checknetwork copies the state of the main record); f   *)
(* becomes the insock of the record the line is for.                         *)
userinbound(f, v) ==
    rec' = IF v = Root(sock[f]) THEN [rec EXCEPT ![v].insock = f]
           ELSE [rec EXCEPT ![v].insock = f, ![v].instate = rec[Root(sock[f])].instate]

(* Records a client can address.  What the client of a deleted record does   *)
(* is outside the model.                                                     *)
Target(f, v) ==
    /\ sock[f] # 0 /\ Exists(Root(sock[f]))
    /\ v \in {Root(sock[f])} \cup Networks(Root(sock[f]))

Inbound(f, v) ==
    /\ Target(f, v)
    /\ userinbound(f, v)
    /\ UNCHANGED <<cfg, sock, nousers, owner, switched, sets>>

(* useroutbound: a line from the server of the network v.                    *)
useroutbound(v) ==
    /\ Exists(v) /\ Parent(v) # 0
    /\ rec' = [rec EXCEPT ![v].insock = rec[Parent(v)].insock,
                          ![v].instate = rec[Parent(v)].instate]
    /\ UNCHANGED <<cfg, sock, nousers, owner, switched, sets>>

-----------------------------------------------------------------------------
(* Commands.  f is the client, u the record the command is for.              *)

Command(f, u) == Target(f, u) /\ UNCHANGED <<nousers, sets>>
Admin(f, u) == Command(f, u) /\ rec[u].saved.rights = "admin"

(* A new record is saved, cleared and loaded again, whatever was copied.      *)
(* A network has the login, password, realname and rights of its user.       *)
Create(u, s) ==
    /\ cfg' = [cfg EXCEPT ![u] = s]
    /\ rec' = [rec EXCEPT ![u] = loaduser(s, NoRec)]

(* ADDUSER: the first free record up to MAX_USER. *)
cmdadduser(f, u, name) ==
    /\ Admin(f, u)
    /\ checkuser(name) = {}
    /\ \E n \in Slots : ~Exists(n)
    /\ Create(Min({n \in Slots : ~Exists(n)}), [NoSaved EXCEPT !.login = name])
    /\ UNCHANGED <<sock, owner, switched>>

(* ADDNETWORK: the search ends before the last record of the table. *)
cmdaddnetwork(f, u, net) ==
    /\ Command(f, u) /\ Parent(u) = 0
    /\ checkusernetwork(u, net) = {}
    /\ \E n \in 1 .. MaxUser - 1 : ~Exists(n)
    /\ Create(Min({n \in Slots : ~Exists(n)}), [rec[u].saved EXCEPT !.network = net, !.parent = u, !.opt = 0])
    /\ UNCHANGED <<sock, owner, switched>>

(* Mutant: the entries of the configuration stay. *)
Delete_Kept(D) ==
    /\ rec' = [v \in Slots |-> IF v \in D THEN NoRec ELSE rec[v]]
    /\ UNCHANGED <<cfg, sock, owner, switched>>

(* Mutant: the clients of a deleted user stay. *)
Delete_Clients(D) ==
    /\ cfg' = [u \in Slots |-> IF u \in D THEN NoSaved ELSE cfg[u]]
    /\ rec' = [v \in Slots |-> IF v \in D THEN NoRec ELSE rec[v]]
    /\ UNCHANGED <<sock, owner, switched>>

(* deluser and loaduser for the records D: the entries are erased; a main    *)
(* record with a client has the sockets of its group killed, the last one    *)
(* through its destructor; the records are cleared.                          *)
Delete(D) ==
    LET Main == {u \in D : Parent(u) = 0 /\ rec[u].instate = "CONN"}
        Hit(v) == v \in Main \/ Parent(v) \in {u \in Main : \E g \in Fds : sock[g] = u}
    IN  /\ cfg' = [u \in Slots |-> IF u \in D THEN NoSaved ELSE cfg[u]]
        /\ sock' = [g \in Fds |-> IF sock[g] \in Main THEN 0 ELSE sock[g]]
        /\ owner' = [g \in Fds |-> IF sock[g] \in Main THEN None ELSE owner[g]]
        /\ rec' = [v \in Slots |->
                     IF v \in D THEN NoRec
                     ELSE IF Exists(v) /\ Hit(v)
                     THEN [rec[v] EXCEPT !.instate = "NOCON", !.insock = 0] ELSE rec[v]]
        /\ UNCHANGED switched

(* Bound: with DeleteSwitched FALSE no behaviour deletes a user, or a network   *)
(* of one, who has used SWITCHNET.  (Record 1 may then be a network, and        *)
(* deleting its new parent leaves it with a parent that somebody else gets.)    *)
MayDelete(name) == DeleteSwitched \/ name \notin switched

(* Mutant: the networks of the user stay. *)
cmddeluser_Alone(f, u, name) ==
    /\ Admin(f, u) /\ MayDelete(name)
    /\ \E d \in checkuser(name) \ {1} : Delete({d})

(* Mutant: the owner's record is not spared. *)
cmddeluser_Owner(f, u, name) ==
    /\ Admin(f, u) /\ MayDelete(name)
    /\ \E d \in checkuser(name) : Delete({d} \cup Networks(d))

(* DELUSER: the networks of the user, except record 1, and the user. *)
cmddeluser(f, u, name) ==
    /\ Admin(f, u) /\ MayDelete(name)
    /\ \E d \in checkuser(name) \ {1} : Delete({d} \cup (Networks(d) \ {1}))

(* DELNETWORK *)
cmddelnetwork(f, u, net) ==
    /\ Command(f, u) /\ MayDelete(Login(u))
    /\ \E d \in checkusernetwork(u, net) : Delete({d})

(* SWITCHNET old :net - the network becomes the main connection, the main    *)
(* record a network named old.  The other networks get their new parent in   *)
(* memory only; the client sockets keep the number of the old main record.   *)
cmdswitchnet(f, u, net, old) ==
    /\ Command(f, u) /\ Parent(u) = 0
    /\ switched = {} /\ sets = 0   \* bound: SWITCHNET is used once, and not after Set
    /\ checkusernetwork(u, old) = {}
    /\ \E n \in checkusernetwork(u, net) :
          LET rs == [v \in Slots |->
                       IF v = n THEN [rec[v] EXCEPT !.saved.network = None, !.saved.parent = 0]
                       ELSE IF v = u THEN [rec[v] EXCEPT !.saved.network = old, !.saved.parent = n]
                       ELSE IF Exists(v) /\ Parent(v) = u THEN [rec[v] EXCEPT !.saved.parent = n]
                       ELSE rec[v]]
          IN  /\ rec' = rs
              /\ cfg' = [cfg EXCEPT ![n] = rs[n].saved, ![u] = rs[u].saved]
    /\ switched' = switched \cup {Login(u)}
    /\ UNCHANGED <<sock, owner>>

(* ADMIN and UNADMIN: the user and all of his networks, each one saved. *)
SetRights(d, r) ==
    /\ rec' = [v \in Slots |-> IF Exists(v) /\ v \in Family(d)
                               THEN [rec[v] EXCEPT !.saved.rights = r] ELSE rec[v]]
    /\ cfg' = [v \in Slots |-> IF Exists(v) /\ v \in Family(d) THEN rec'[v].saved ELSE cfg[v]]

cmdadmin(f, u, name) ==
    /\ Admin(f, u)
    /\ \E d \in checkuser(name) : SetRights(d, "admin")
    /\ UNCHANGED <<sock, owner, switched>>

cmdunadmin(f, u, name) ==
    /\ Admin(f, u)
    /\ \E d \in checkuser(name) : SetRights(d, "user")
    /\ UNCHANGED <<sock, owner, switched>>

-----------------------------------------------------------------------------
(* Settings.  Every command changes the record and the same entry of the     *)
(* configuration, which is written at once.                                  *)

Set(f, u) ==
    /\ Target(f, u)
    /\ sets < MaxSets /\ switched = {}   \* bounds
    /\ sets' = sets + 1
    /\ UNCHANGED <<sock, nousers, owner, switched>>

Store(T, field, x) ==
    /\ rec' = [v \in Slots |-> IF v \in T THEN [rec[v] EXCEPT !.saved[field] = x] ELSE rec[v]]
    /\ cfg' = [v \in Slots |-> IF v \in T THEN [cfg[v] EXCEPT ![field] = x] ELSE cfg[v]]

(* PASSWORD [user] :pass - the record and its networks.  A network has none: *)
(* from a network, only the password of its own record changes.              *)
cmdpassword(f, u, x) ==
    /\ Set(f, u)
    /\ \E d \in {u} \cup UNION {checkuser(name) : name \in Logins} :
          /\ d = u \/ rec[u].saved.rights = "admin"
          /\ Store({v \in Family(d) : Exists(v)}, "pass", x)

(* SETUSERNAME: the realname of the record the command is for.               *)
cmdsetusername(f, u, x) == Set(f, u) /\ Store({u}, "user", x)

(* AIDLE, AUTOREJOIN, LEAVEQUIT, DCCENABLE: any other value is refused.      *)
cmdaidle(f, u, x) == Set(f, u) /\ Store({u}, "opt", x)

(* AUTOGETDCC *)
cmdautogetdcc(f, u, x) == Set(f, u) /\ Store({u}, "opt", x)

(* SETAWAY, SETLEAVEMSG, SETAWAYNICK: any text.                              *)
cmdsetaway(f, u, x) == Set(f, u) /\ Store({u}, "opt", x)

(* PROXY host:port *)
cmdproxy(f, u, x) == Set(f, u) /\ Store({u}, "opt", x)

(* BVHOST and PREFERIPV6 [user]: an administrator may name a user, whose     *)
(* main record is changed.                                                   *)
Named(u, admin) ==
    {u} \cup IF admin THEN UNION {checkuser(name) : name \in Logins} ELSE {}

cmdvhost(f, u, x) ==
    /\ Set(f, u)
    /\ \E d \in Named(u, rec[Root(u)].saved.rights = "admin") : Store({d}, "opt", x)

cmdpreferipv6(f, u, x) ==
    /\ Set(f, u)
    /\ \E d \in Named(u, rec[Root(u)].saved.rights = "admin") : Store({d}, "opt", x)

(* BVHOSTN user :network vhost, of an administrator.                          *)
cmdbvhostn(f, u, x) ==
    /\ Set(f, u) /\ rec[u].saved.rights = "admin"
    /\ \E name \in Logins, net \in Nets :
          \E d \in checkuser(name) :
             \E n \in checkusernetwork(d, net) : Store({n}, "opt", x)

-----------------------------------------------------------------------------
Init ==
    /\ rec = [u \in Slots |-> NoRec]
    /\ cfg = [u \in Slots |-> NoSaved]
    /\ sock = [f \in Fds |-> 0]
    /\ nousers = TRUE
    /\ owner = [f \in Fds |-> None]
    /\ switched = {}
    /\ sets = 0

Next ==
    \/ cmdrehash
    \/ Restart
    \/ \E f \in Free, name \in Logins : firstuser(f, name) \/ linkpeer(f, name)
    \/ \E f \in Fds : Leave(f)
    \/ \E f \in Fds, u \in Slots : Inbound(f, u)
    \/ \E u \in Slots : useroutbound(u)
    \/ \E f \in Fds, u \in Slots, name \in Logins :
          \/ cmdadduser(f, u, name)
          \/ cmddeluser(f, u, name)
          \/ cmdadmin(f, u, name)
          \/ cmdunadmin(f, u, name)
    \/ \E f \in Fds, u \in Slots, net \in Nets :
          \/ cmdaddnetwork(f, u, net)
          \/ cmddelnetwork(f, u, net)
          \/ \E old \in Nets : cmdswitchnet(f, u, net, old)
    \/ \E f \in Fds, u \in Slots, x \in NewValues :
          \/ cmdpassword(f, u, x)
          \/ cmdsetusername(f, u, x)
          \/ cmdaidle(f, u, x)
          \/ cmdautogetdcc(f, u, x)
          \/ cmdsetaway(f, u, x)
          \/ cmdproxy(f, u, x)
          \/ cmdvhost(f, u, x)
          \/ cmdpreferipv6(f, u, x)
          \/ cmdbvhostn(f, u, x)

Spec == Init /\ [][Next]_vars

-----------------------------------------------------------------------------
(* Properties *)

Settled(u) == Exists(u) /\ Login(u) \notin switched

(* The parent of a network is a main record of the same user with the same   *)
(* rights, through deletions and reused records: a network whose record's    *)
(* number was given to someone else would be that user's.                    *)
ParentsAlive ==
    \A u \in Slots : Settled(u) /\ Parent(u) # 0 =>
       /\ Parent(Parent(u)) = 0
       /\ Login(Parent(u)) = Login(u)
       /\ rec[Parent(u)].saved.rights = rec[u].saved.rights

(* A login names one main record, a name of a network one network of a user. *)
NamesUnique ==
    \A u, v \in Slots :
       (Settled(u) /\ Settled(v) /\ u # v /\ Login(u) = Login(v)) =>
          /\ Parent(u) # 0 \/ Parent(v) # 0
          /\ Parent(u) = Parent(v) => rec[u].saved.network # rec[v].saved.network

(* What would be loaded at the next start is what the table holds, but for   *)
(* the password and the realname of a network, where the user's are taken.   *)
SavedMatches ==
    \A u \in Slots :
       /\ Settled(u) => \A k \in DOMAIN NoSaved :
             (k \in {"pass", "user"} /\ Parent(u) # 0) \/ cfg[u][k] = rec[u].saved[k]
       /\ ~Exists(u) => cfg[u] = NoSaved

(* A client socket names a record of the user that logged in on it.          *)
ClientOwnsRecord ==
    \A f \in Fds : sock[f] # 0 /\ owner[f] \notin switched => Login(sock[f]) = owner[f]

(* A line from a server is relayed to a client of the user it is for: the    *)
(* insock of the main record, which useroutbound() takes for every network,  *)
(* is never a descriptor another user's client got.                          *)
RelayedToOwner ==
    \A u \in Slots : Settled(u) /\ rec[Root(u)].instate = "CONN" =>
       LET f == rec[Root(u)].insock
       IN  f # 0 /\ sock[f] # 0 => owner[f] = Login(u)

Connection(net) == [net |-> net, my |-> "mynick", main |-> "mainnick"]
NetsOf(vs) == {rec[v].saved.network : v \in vs}

(* A network, the networks checknetwork() finds, whether the user has it, and *)
(* whether every line of the network routes back then.                        *)
Routing == {<<net, nets, has, \A m \in ServerLines(Connection(net)) :
                                 RoutesBack(Connection(net), nets, has, m)>> :
              net \in Nets, nets \in SUBSET Nets, has \in BOOLEAN}

(* Whatever networks were added, deleted and added again, by whom and in      *)
(* which records: a nick or channel the client was shown in a line of a       *)
(* network reaches that network of his own when he uses it in a line, and     *)
(* nobody once the network is gone.                                           *)
TokensRouteBack ==
    \A f \in Fds : (sock[f] # 0 /\ Settled(Root(sock[f])) /\ owner[f] \notin switched) =>
       LET Mine == {v \in Slots : Exists(v) /\ Parent(v) # 0 /\ Login(v) = owner[f]}
           Found == Networks(Root(sock[f]))
       IN  \A net \in Nets : <<net, NetsOf(Found), net \in NetsOf(Mine), TRUE>> \in Routing

(* english.lng: "User %s is the Owner. He cant be deleted.": unless the owner  *)
(* has used SWITCHNET, no DELUSER, DELNETWORK, rehash or restart in whatever   *)
(* order removes the main record that owns the bouncer.                        *)
OwnerKept ==
    [][Settled(1) /\ Login(1) \notin switched' =>
          rec'[1].saved.login = Login(1) /\ rec'[1].saved.parent = 0]_vars

(* The table: parents are live main records of the same user, and names are   *)
(* unique, through deletions, reloads and reused record numbers.             *)
Consistent == TypeOK /\ ParentsAlive /\ NamesUnique

(* The clients: neither the record a client socket names nor the socket the   *)
(* lines of a user go to is ever another user's.                             *)
ClientsOwned == ClientOwnsRecord /\ RelayedToOwner
=============================================================================
