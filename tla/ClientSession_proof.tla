------------------------ MODULE ClientSession_proof ------------------------
(***************************************************************************)
(* Proofs about ClientSession, for any number of users, networks, hosts,    *)
(* descriptors and peer slots, any accounts and any limits.                 *)
(***************************************************************************)
EXTENDS ClientSession, FiniteSetsExt, WellFoundedInduction, TLAPS

-----------------------------------------------------------------------------
(* Numbers *)

(* A nonempty set of naturals has a least element. *)
LEMMA LeastNatural ==
    ASSUME NEW T, T \subseteq Nat, T # {}
    PROVE  \E x \in T : \A y \in T : x <= y
<1>1. PICK R : R = OpToRel(<, Nat)
  BY Zenon
<1>2. IsWellFoundedOn(R, Nat)
  BY <1>1, NatLessThanWellFounded, Zenon
<1>3. \A x, y \in Nat : x < y => <<x, y>> \in R
  BY <1>1 DEF OpToRel
<1>4. PICK x \in T : \A y \in T : ~ (<<y, x>> \in R)
  BY <1>2, WFMin, Zenon
<1>5. \A y \in T : x <= y
  <2> TAKE y \in T
  <2>1. x \in Nat /\ y \in Nat
    BY <1>4
  <2>2. ~ (y < x)
    BY <1>3, <1>4, <2>1
  <2> QED
    BY <2>1, <2>2
<1> QED
  BY <1>4, <1>5

(* Min picks an element of a nonempty set of naturals, so a descriptor or   *)
(* slot chosen with it is a free one.                                       *)
LEMMA MinMember ==
    ASSUME NEW T, T \subseteq Nat, T # {}
    PROVE  Min(T) \in T /\ \A y \in T : Min(T) <= y
BY LeastNatural DEF Min

-----------------------------------------------------------------------------
(* A client socket is in the group of the user it belongs to. *)
GroupIsUser == \A f \in Fds : sock[f].kind = "client" => sock[f].group = sock[f].param

(* Before the first user exists nobody has given a wrong password. *)
FreshUnlocked == nousers => \A u \in Users : user[u].penalty = 0

(* The inductive invariant: MainInsock needs GroupIsUser, because the        *)
(* remapper picks the next socket by its group, and LockoutHolds needs       *)
(* FreshUnlocked, because the first login does not look at the penalty.      *)
IInv ==
    /\ TypeOK
    /\ PeersMatchSockets
    /\ GroupIsUser
    /\ MainInsock
    /\ FreshUnlocked
    /\ InstateExact

-----------------------------------------------------------------------------
(* Helpers *)

(* accept() returns a descriptor that no entry of the socket table uses. *)
LEMMA NewFdFree ==
    ASSUME TypeOK, FreeFds # {}
    PROVE  NewFd \in Fds /\ sock[NewFd] = NoSock
<1>1. FreeFds \subseteq Nat
  BY ClientSessionAssumption DEF FreeFds
<1>2. NewFd \in FreeFds
  BY <1>1, MinMember DEF NewFd
<1> QED
  BY <1>2 DEF FreeFds

(* getnewpeer() returns an unused slot of the peer table. *)
LEMMA NewPeerFree ==
    ASSUME TypeOK, FreePeers # {}
    PROVE  getnewpeer \in Peers /\ peer[getnewpeer] = NoPeer
<1>1. FreePeers \subseteq Nat
  BY DEF FreePeers, Peers
<1>2. getnewpeer \in FreePeers
  BY <1>1, MinMember DEF getnewpeer
<1> QED
  BY <1>2 DEF FreePeers

(* What the tables say of a socket of either kind. *)
LEMMA SockKinds ==
    ASSUME IInv, NEW f \in Fds
    PROVE  /\ sock[f] \in Sock \cup {NoSock}
           /\ sock[f].kind \in {"free", "peer", "client"}
           /\ sock[f].kind = "free" <=> sock[f] = NoSock
           /\ sock[f].kind = "client" => /\ sock[f].param \in Mains
                                         /\ sock[f].group = sock[f].param
           /\ sock[f].kind = "peer" => /\ sock[f].param \in Peers /\ sock[f].group = 0
                                       /\ peer[sock[f].param] # NoPeer
                                       /\ peer[sock[f].param].insock = f
<1>1. sock[f] \in Sock \cup {NoSock}
  BY DEF IInv, TypeOK
<1>2. /\ sock[f].kind \in {"free", "peer", "client"}
      /\ sock[f].kind = "free" <=> sock[f] = NoSock
      /\ sock[f].kind = "client" => sock[f].param \in Mains
      /\ sock[f].kind = "peer" => sock[f].param \in Peers /\ sock[f].group = 0
  BY <1>1 DEF Sock, NoSock
<1>3. sock[f].kind = "client" => sock[f].group = sock[f].param
  BY DEF IInv, GroupIsUser
<1>4. sock[f].kind = "peer" => peer[sock[f].param].insock = f
  BY DEF IInv, PeersMatchSockets
<1>5. sock[f].kind = "peer" => peer[sock[f].param] # NoPeer
  BY <1>4, ClientSessionAssumption DEF NoPeer
<1> QED
  BY <1>1, <1>2, <1>3, <1>4, <1>5

(* What the tables say of an occupied peer slot. *)
LEMMA PeerFacts ==
    ASSUME IInv, NEW p \in Peers, peer[p] # NoPeer
    PROVE  /\ peer[p] \in Peer
           /\ peer[p].insock \in Fds
           /\ sock[peer[p].insock] = [kind |-> "peer", param |-> p, group |-> 0]
<1>1. peer[p] \in Peer
  BY DEF IInv, TypeOK
<1>2. peer[p].insock \in Fds
  BY <1>1 DEF Peer
<1> QED
  BY <1>1, <1>2 DEF IInv, PeersMatchSockets

(* Main records are user records, and 0, the empty parent, is not one. *)
LEMMA MainsAreUsers == Mains \subseteq Users /\ 0 \notin Mains /\ \A u \in Mains : Parent[u] = 0
BY ClientSessionAssumption DEF Mains, Users

(* The parent chain of every record ends at a main record. *)
LEMMA RootIsMain ==
    ASSUME NEW v \in Users
    PROVE  Root(v) \in Mains /\ (v \in Mains => Root(v) = v)
BY ClientSessionAssumption DEF Root, Mains

(* The parent of a record that no BQUIT touches is such a record too. *)
LEMMA PlainUsers ==
    ASSUME NEW v \in Plain
    PROVE  v \in Users /\ Root(v) \in Plain
BY MainsAreUsers, RootIsMain DEF Plain

(* What the handler of a line finds: user records that the line may already  *)
(* have changed, and that still agree with the sockets.                      *)
Agrees(us) ==
    /\ us \in [Users -> User]
    /\ nousers => \A v \in Users : us[v].penalty = 0
    /\ \A u \in Mains : (\E f \in Fds : IsClient(f, u)) => us[u].insock # 0 \/ u \in cleared
    /\ \A u \in Mains : us[u].insock # 0 => us[u].insock \in Fds /\ IsClient(us[u].insock, u)
    /\ \A v \in Plain : us[v].instate = "CONN" => \E f \in Fds : IsClient(f, Root(v))
    /\ \A u \in Mains, f \in Fds : IsClient(f, u) => us[u].instate = "CONN" \/ u \in cleared

(* Between two steps the records agree. *)
LEMMA UserAgrees == ASSUME IInv PROVE Agrees(user)
<1>1. \A u \in Mains : user[u].insock \in Fds \cup {0}
  BY MainsAreUsers DEF IInv, TypeOK, User
<1> QED
  BY <1>1 DEF IInv, TypeOK, MainInsock, FreshUnlocked, InstateExact, Agrees

(* A step that changes nothing but the records leaves records that agree. *)
LEMMA UserOnly ==
    ASSUME IInv, NEW us, Agrees(us), user' = us,
           UNCHANGED <<sock, peer, account, nousers, cleared>>
    PROVE  IInv'
<1>1. TypeOK' /\ PeersMatchSockets' /\ GroupIsUser'
  BY DEF IInv, TypeOK, PeersMatchSockets, GroupIsUser, Agrees
<1>2. MainInsock'
  BY DEF Agrees, MainInsock, IsClient
<1>3. FreshUnlocked'
  BY DEF Agrees, FreshUnlocked
<1>4. InstateExact'
  BY DEF Agrees, InstateExact, IsClient, Plain, Root
<1> QED
  BY <1>1, <1>2, <1>3, <1>4 DEF IInv

(* Records that differ from ones that agree in other fields agree as well. *)
LEMMA SameAgrees ==
    ASSUME NEW us, NEW vs, Agrees(us), vs \in [Users -> User],
           \A v \in Users : /\ vs[v].penalty = us[v].penalty
                            /\ v \in Mains => vs[v].insock = us[v].insock
                            /\ \/ vs[v].instate \in {us[v].instate, us[Root(v)].instate}
                               \/ vs[v].instate = "CONN" /\ v \notin Plain
                               \/ vs[v].instate = "CONN" /\ \E f \in Fds : IsClient(f, Root(v))
    PROVE  Agrees(vs)
<1>1. \A u \in Mains : u \in Users /\ Root(u) = u
  BY MainsAreUsers, RootIsMain
<1>2. \A u \in Mains : vs[u].insock = us[u].insock
  BY <1>1
<1>3. \A u \in Mains : vs[u].instate \in {us[u].instate, "CONN"}
  BY <1>1
<1>4. nousers => \A v \in Users : vs[v].penalty = 0
  BY DEF Agrees
<1>5. ASSUME NEW v \in Plain, vs[v].instate = "CONN"
      PROVE  \E f \in Fds : IsClient(f, Root(v))
  <2>1. v \in Users /\ Root(v) \in Plain /\ Root(v) \in Mains /\ Root(Root(v)) = Root(v)
    BY <1>1, PlainUsers, RootIsMain
  <2>2. \/ us[v].instate = "CONN" \/ us[Root(v)].instate = "CONN"
        \/ \E f \in Fds : IsClient(f, Root(v))
    BY <1>5, <2>1
  <2>3. \A w \in Plain : us[w].instate = "CONN" => \E f \in Fds : IsClient(f, Root(w))
    BY DEF Agrees
  <2>4. us[v].instate = "CONN" => \E f \in Fds : IsClient(f, Root(v))
    BY <2>3
  <2>5. us[Root(v)].instate = "CONN" => \E f \in Fds : IsClient(f, Root(v))
    <3>1. us[Root(v)].instate = "CONN" => \E f \in Fds : IsClient(f, Root(Root(v)))
      BY <2>1, <2>3, Zenon
    <3> QED
      BY <2>1, <3>1
  <2> QED
    BY <2>2, <2>4, <2>5
<1>6. /\ \A u \in Mains : (\E f \in Fds : IsClient(f, u)) => vs[u].insock # 0 \/ u \in cleared
      /\ \A u \in Mains : vs[u].insock # 0 => vs[u].insock \in Fds /\ IsClient(vs[u].insock, u)
  BY <1>2 DEF Agrees
<1>7. \A u \in Mains, f \in Fds : IsClient(f, u) => vs[u].instate = "CONN" \/ u \in cleared
  BY <1>3 DEF Agrees
<1> QED
  BY <1>4, <1>5, <1>6, <1>7 DEF Agrees

(* One field of a user record changes. *)
LEMMA SetInsock ==
    ASSUME NEW r \in User, NEW g \in Fds \cup {0}
    PROVE  LET a == [r EXCEPT !.insock = g]
           IN  a \in User /\ a.insock = g /\ a.instate = r.instate /\ a.penalty = r.penalty
BY DEF User

(* One field of a user record changes. *)
LEMMA SetInstate ==
    ASSUME NEW r \in User, NEW t \in {"NOCON", "CONN"}
    PROVE  LET a == [r EXCEPT !.instate = t]
           IN  a \in User /\ a.insock = r.insock /\ a.instate = t /\ a.penalty = r.penalty
BY DEF User

(* The fields of a user record. *)
LEMMA UserFields ==
    ASSUME NEW us, Agrees(us), NEW v \in Users
    PROVE  /\ us[v] \in User /\ us[v].insock \in Fds \cup {0}
           /\ us[v].instate \in {"NOCON", "CONN"} /\ us[v].penalty \in Nat
BY DEF Agrees, User

(* userinbound(): the record a line is for gets the socket of the line. *)
LEMMA userinboundAgrees ==
    ASSUME IInv, NEW f \in Fds, NEW v \in Users, Sends(f, v)
    PROVE  Agrees(userinbound(f, v))
<1> DEFINE us == userinbound(f, v)
           t == user[Root(v)].instate
           a == [user[v] EXCEPT !.insock = f]
           b == [a EXCEPT !.instate = t]
<1>1. Agrees(user)
  BY UserAgrees
<1>2. Root(v) \in Mains /\ Root(v) \in Users /\ (v \in Mains => Root(v) = v)
  BY RootIsMain, MainsAreUsers
<1>3. user[v] \in User /\ t \in {"NOCON", "CONN"}
  BY <1>1, <1>2, UserFields
<1>4. a \in User /\ a.insock = f /\ a.penalty = user[v].penalty
  BY <1>3, SetInsock
<1>5. us = [user EXCEPT ![v] = b]
  BY DEF userinbound
<1> HIDE DEF a, t
<1>6. b \in User /\ b.insock = f /\ b.instate = t /\ b.penalty = user[v].penalty
  BY <1>3, <1>4, SetInstate
<1> HIDE DEF b, us
<1>7. us \in [Users -> User] /\ us[v] = b /\ \A w \in Users : w # v => us[w] = user[w]
  BY <1>1, <1>5, <1>6 DEF Agrees
<1>8. IsClient(f, Root(v))
  BY DEF Sends, IsClient
<1>9. nousers => \A w \in Users : us[w].penalty = 0
  BY <1>1, <1>6, <1>7 DEF Agrees
<1>10. f # 0
  BY ClientSessionAssumption
<1>11. ASSUME NEW u \in Mains
       PROVE  /\ (\E g \in Fds : IsClient(g, u)) => us[u].insock # 0 \/ u \in cleared
              /\ us[u].insock # 0 => us[u].insock \in Fds /\ IsClient(us[u].insock, u)
  <2>1. u \in Users
    BY MainsAreUsers
  <2>2. CASE u = v
    BY <1>2, <1>6, <1>7, <1>8, <1>10, <2>2
  <2>3. CASE u # v
    BY <1>1, <1>7, <2>1, <2>3 DEF Agrees
  <2> QED
    BY <2>2, <2>3
<1>12. ASSUME NEW w \in Plain, us[w].instate = "CONN"
       PROVE  \E g \in Fds : IsClient(g, Root(w))
  <2>1. CASE w = v
    BY <1>8, <2>1
  <2>2. CASE w # v
    <3>1. user[w].instate = "CONN"
      BY <1>7, <1>12, <2>2, PlainUsers
    <3> QED
      BY <1>1, <3>1 DEF Agrees
  <2> QED
    BY <2>1, <2>2
<1>13. ASSUME NEW u \in Mains, NEW g \in Fds, IsClient(g, u)
       PROVE  us[u].instate = "CONN" \/ u \in cleared
  <2>1. u \in Users
    BY MainsAreUsers
  <2>2. user[u].instate = "CONN" \/ u \in cleared
    BY <1>1, <1>13 DEF Agrees
  <2>3. us[u].instate = user[u].instate
    <3>1. CASE u = v
      BY <1>2, <1>6, <1>7, <3>1 DEF t
    <3>2. CASE u # v
      BY <1>7, <2>1, <3>2
    <3> QED
      BY <3>1, <3>2
  <2> QED
    BY <2>2, <2>3
<1>14. Agrees(us)
  BY <1>7, <1>9, <1>11, <1>12, <1>13 DEF Agrees
<1> QED
  BY <1>14 DEF us

(* A record that takes over the state of its parent. *)
LEMMA TakenOver ==
    ASSUME NEW us, Agrees(us), NEW v \in Users
    PROVE  /\ TakeOver(us, v) \in User
           /\ TakeOver(us, v).penalty = us[v].penalty
           /\ TakeOver(us, v).insock = us[Root(v)].insock
           /\ TakeOver(us, v).instate = us[Root(v)].instate
<1> DEFINE s == us[Root(v)].insock
           t == us[Root(v)].instate
           a == [us[v] EXCEPT !.insock = s]
           b == [a EXCEPT !.instate = t]
<1>1. Root(v) \in Users
  BY RootIsMain, MainsAreUsers
<1>2. s \in Fds \cup {0} /\ t \in {"NOCON", "CONN"} /\ us[v] \in User
  BY <1>1, UserFields
<1>3. TakeOver(us, v) = b
  BY DEF TakeOver
<1> HIDE DEF s, t
<1>4. a \in User /\ a.penalty = us[v].penalty /\ a.insock = s
  BY <1>2, SetInsock
<1> HIDE DEF a
<1>5. b \in User /\ b.penalty = us[v].penalty /\ b.insock = s /\ b.instate = t
  BY <1>2, <1>4, SetInstate
<1> HIDE DEF b
<1> QED
  BY <1>3, <1>5 DEF s, t

-----------------------------------------------------------------------------
(* erasepeer: one slot and its socket go, nothing else changes. *)

(* erasepeer(): slot and socket of a pending login go together. *)
LEMMA eraseKeeps ==
    ASSUME IInv, NEW p \in Peers, peer[p] # NoPeer, erasepeer(p),
           user' \in [Users -> User],
           \A v \in Users : user'[v].insock = user[v].insock /\ user'[v].instate = user[v].instate,
           account' \in [Mains -> Account], nousers' \in BOOLEAN,
           nousers' => \A v \in Users : user'[v].penalty = 0
    PROVE  IInv'
<1> DEFINE f == peer[p].insock
<1>1. f \in Fds /\ sock[f] = [kind |-> "peer", param |-> p, group |-> 0]
  BY PeerFacts
<1>2. sock' = [g \in Fds |-> IF g = f THEN NoSock ELSE sock[g]]
  BY DEF erasepeer, Closed
<1>3. peer' = [peer EXCEPT ![p] = NoPeer] /\ cleared' = cleared
  BY DEF erasepeer
<1>4. TypeOK'
  BY <1>2, <1>3 DEF IInv, TypeOK
<1>5. PeersMatchSockets'
  <2>1. ASSUME NEW q \in Peers, peer'[q] # NoPeer
        PROVE  sock'[peer'[q].insock] = [kind |-> "peer", param |-> q, group |-> 0]
    <3>1. q # p /\ peer'[q] = peer[q]
      BY <1>3, <2>1 DEF IInv, TypeOK
    <3>2. peer[q].insock \in Fds /\ sock[peer[q].insock] = [kind |-> "peer", param |-> q, group |-> 0]
      BY <2>1, <3>1, PeerFacts
    <3>3. peer[q].insock # f
      BY <1>1, <3>1, <3>2
    <3> QED
      BY <1>2, <3>1, <3>2, <3>3
  <2>2. ASSUME NEW g \in Fds, sock'[g].kind = "peer"
        PROVE  peer'[sock'[g].param].insock = g
    <3>1. g # f /\ sock'[g] = sock[g]
      BY <1>2, <2>2 DEF NoSock
    <3>2. sock[g].param \in Peers /\ peer[sock[g].param].insock = g
      BY <2>2, <3>1, SockKinds
    <3>3. sock[g].param # p
      BY <3>1, <3>2
    <3> QED
      BY <1>3, <3>1, <3>2, <3>3 DEF IInv, TypeOK
  <2> QED
    BY <2>1, <2>2 DEF PeersMatchSockets
<1>6. \A g \in Fds : sock'[g].kind = "client" <=> sock[g].kind = "client"
  BY <1>1, <1>2 DEF NoSock
<1>7. \A g \in Fds : sock[g].kind = "client" => sock'[g] = sock[g]
  BY <1>1, <1>2
<1>8. GroupIsUser'
  BY <1>6, <1>7 DEF IInv, GroupIsUser
<1>9. \A g \in Fds, u \in Mains : IsClient(g, u)' <=> IsClient(g, u)
  BY <1>6, <1>7 DEF IsClient
<1>10. \A v \in Users : user[v].insock \in Fds \cup {0}
  BY DEF IInv, TypeOK, User
<1>11. MainInsock'
  <2> SUFFICES ASSUME NEW u \in Mains
               PROVE  /\ (\E g \in Fds : IsClient(g, u)') =>
                            user'[u].insock # 0 \/ u \in cleared'
                      /\ user'[u].insock # 0 => sock'[user'[u].insock].kind = "client"
                                                  /\ sock'[user'[u].insock].param = u
    BY DEF MainInsock, IsClient
  <2>1. u \in Users /\ user'[u].insock = user[u].insock
    BY MainsAreUsers
  <2>2. (\E g \in Fds : IsClient(g, u)) => user[u].insock # 0 \/ u \in cleared'
    BY <1>3 DEF IInv, MainInsock
  <2>3. user[u].insock # 0 => IsClient(user[u].insock, u) /\ user[u].insock \in Fds
    BY <1>10, <2>1 DEF IInv, MainInsock
  <2> QED
    BY <1>7, <1>9, <2>1, <2>2, <2>3 DEF IsClient
<1>12. FreshUnlocked'
  BY DEF FreshUnlocked
<1>13. InstateExact'
  <2> SUFFICES ASSUME InstateExact PROVE InstateExact'
    BY DEF IInv
  <2>1. ASSUME NEW v \in Plain, user'[v].instate = "CONN"
        PROVE  \E g \in Fds : IsClient(g, Root(v))'
    BY <1>9, <2>1, RootIsMain, PlainUsers DEF InstateExact
  <2>2. ASSUME NEW u \in Mains, NEW g \in Fds, IsClient(g, u)'
        PROVE  user'[u].instate = "CONN" \/ u \in cleared'
    BY <1>3, <1>9, <2>2, MainsAreUsers DEF InstateExact
  <2> QED
    BY <2>1, <2>2 DEF InstateExact, Root, Plain
<1> QED
  BY <1>4, <1>5, <1>8, <1>11, <1>12, <1>13 DEF IInv

(* A login: the socket of the peer becomes the newest client of u, and only  *)
(* u and the networks of u are told.                                         *)
LEMMA AdoptKeeps ==
    ASSUME IInv, NEW p \in Peers, peer[p] # NoPeer, NEW u \in Mains, Adopt(p, u),
           user' \in [Users -> User],
           user'[u].insock = peer[p].insock, user'[u].instate = "CONN",
           \A v \in Users : Root(v) # u =>
              user'[v].insock = user[v].insock /\ user'[v].instate = user[v].instate,
           account' \in [Mains -> Account], nousers' = FALSE
    PROVE  IInv'
<1> DEFINE f == peer[p].insock
           c == [kind |-> "client", param |-> u, group |-> u]
<1>1. f \in Fds /\ sock[f] = [kind |-> "peer", param |-> p, group |-> 0]
  BY PeerFacts
<1>2. /\ sock' = [sock EXCEPT ![f] = c] /\ peer' = [peer EXCEPT ![p] = NoPeer]
      /\ cleared' = cleared \ {u}
  BY DEF Adopt
<1>3. c \in Sock
  BY DEF Sock
<1>4. TypeOK'
  BY <1>2, <1>3 DEF IInv, TypeOK
<1>5. sock'[f] = c /\ \A g \in Fds : g # f => sock'[g] = sock[g]
  BY <1>1, <1>2 DEF IInv, TypeOK
<1>6. PeersMatchSockets'
  <2>1. ASSUME NEW q \in Peers, peer'[q] # NoPeer
        PROVE  sock'[peer'[q].insock] = [kind |-> "peer", param |-> q, group |-> 0]
    <3>1. q # p /\ peer'[q] = peer[q]
      BY <1>2, <2>1 DEF IInv, TypeOK
    <3>2. peer[q].insock \in Fds /\ sock[peer[q].insock] = [kind |-> "peer", param |-> q, group |-> 0]
      BY <2>1, <3>1, PeerFacts
    <3>3. peer[q].insock # f
      BY <1>1, <3>1, <3>2
    <3> QED
      BY <1>5, <3>1, <3>2, <3>3
  <2>2. ASSUME NEW g \in Fds, sock'[g].kind = "peer"
        PROVE  peer'[sock'[g].param].insock = g
    <3>1. g # f /\ sock'[g] = sock[g]
      BY <1>5, <2>2
    <3>2. sock[g].param \in Peers /\ peer[sock[g].param].insock = g
      BY <2>2, <3>1, SockKinds
    <3>3. sock[g].param # p
      BY <3>1, <3>2
    <3> QED
      BY <1>2, <3>1, <3>2, <3>3 DEF IInv, TypeOK
  <2> QED
    BY <2>1, <2>2 DEF PeersMatchSockets
<1>7. GroupIsUser'
  BY <1>5 DEF IInv, GroupIsUser
<1>8. \A g \in Fds, v \in Mains : IsClient(g, v)' <=> IsClient(g, v) \/ (g = f /\ v = u)
  BY <1>1, <1>5 DEF IsClient
<1>9. MainInsock'
  <2> SUFFICES ASSUME NEW v \in Mains
               PROVE  /\ (\E g \in Fds : IsClient(g, v)') =>
                            user'[v].insock # 0 \/ v \in cleared'
                      /\ user'[v].insock # 0 => sock'[user'[v].insock].kind = "client"
                                                  /\ sock'[user'[v].insock].param = v
    BY DEF MainInsock, IsClient
  <2>1. CASE v = u
    BY <1>1, <1>5, <2>1, ClientSessionAssumption
  <2>2. CASE v # u
    <3>1. v \in Users /\ user'[v].insock = user[v].insock
      BY <2>2, MainsAreUsers, RootIsMain
    <3>2. user[v].insock \in Fds \cup {0}
      BY <3>1 DEF IInv, TypeOK, User
    <3>3. (\E g \in Fds : IsClient(g, v)) => user[v].insock # 0 \/ v \in cleared'
      BY <1>2, <2>2 DEF IInv, MainInsock
    <3>4. user[v].insock # 0 => IsClient(user[v].insock, v) /\ user[v].insock # f
      BY <1>1 DEF IInv, MainInsock, IsClient
    <3> QED
      BY <1>5, <1>8, <2>2, <3>1, <3>2, <3>3, <3>4 DEF IsClient
  <2> QED
    BY <2>1, <2>2
<1>10. InstateExact'
  <2> SUFFICES ASSUME InstateExact PROVE InstateExact'
    BY DEF IInv
  <2>1. ASSUME NEW v \in Plain, user'[v].instate = "CONN"
        PROVE  \E g \in Fds : IsClient(g, Root(v))'
    <3>1. CASE Root(v) = u
      BY <1>1, <1>8, <3>1
    <3>2. CASE Root(v) # u
      BY <1>8, <2>1, <3>2, RootIsMain, PlainUsers DEF InstateExact
    <3> QED
      BY <3>1, <3>2
  <2>2. ASSUME NEW v \in Mains, NEW g \in Fds, IsClient(g, v)'
        PROVE  user'[v].instate = "CONN" \/ v \in cleared'
    <3>1. CASE v = u
      BY <3>1
    <3>2. CASE v # u
      BY <1>2, <1>8, <2>2, <3>2, MainsAreUsers, RootIsMain DEF InstateExact
    <3> QED
      BY <3>1, <3>2
  <2> QED
    BY <2>1, <2>2 DEF InstateExact, Root, Plain
<1> QED
  BY <1>4, <1>6, <1>7, <1>9, <1>10 DEF IInv, FreshUnlocked

(* u is detached and the sockets F, all of them clients of u, are closed:    *)
(* every client of u, unless BRAW was the cause; networks of u keep their    *)
(* state only if u had no client anyway.                                     *)
LEMMA DetachKeeps ==
    ASSUME IInv, NEW us, Agrees(us), NEW u \in Mains, NEW F,
           \A f \in Fds : f \in F => IsClient(f, u),
           sock' = Closed(F), UNCHANGED <<peer, account, nousers>>,
           user' \in [Users -> User],
           user'[u].insock = 0, user'[u].instate = "NOCON",
           \A v \in Users : user'[v].penalty = us[v].penalty,
           \A v \in Users : Root(v) # u => user'[v] = us[v],
           \A v \in Users : Root(v) = u =>
              \/ user'[v].instate = "NOCON"
              \/ (\A f \in Fds : ~IsClient(f, u)) /\ user'[v].instate = us[v].instate,
           cleared' \in {cleared, cleared \cup {u}},
           u \in cleared' \/ \A f \in Fds : IsClient(f, u) => f \in F
    PROVE  IInv'
<1>1. sock' = [g \in Fds |-> IF g \in F THEN NoSock ELSE sock[g]]
  BY DEF Closed
<1>2. TypeOK'
  BY <1>1 DEF IInv, TypeOK
<1>3. \A g \in Fds : sock[g].kind # "client" => sock'[g] = sock[g]
  BY <1>1 DEF IsClient
<1>4. \A g \in Fds : sock'[g] = sock[g] \/ sock'[g] = NoSock
  BY <1>1
<1>5. PeersMatchSockets'
  <2>1. ASSUME NEW q \in Peers, peer[q] # NoPeer
        PROVE  sock'[peer[q].insock] = [kind |-> "peer", param |-> q, group |-> 0]
    BY <1>3, <2>1, PeerFacts
  <2>2. ASSUME NEW g \in Fds, sock'[g].kind = "peer"
        PROVE  peer[sock'[g].param].insock = g
    BY <1>4, <2>2, SockKinds DEF NoSock
  <2> QED
    BY <2>1, <2>2 DEF PeersMatchSockets
<1>6. GroupIsUser'
  BY <1>4 DEF IInv, GroupIsUser, NoSock
<1>7. \A g \in Fds, v \in Mains : IsClient(g, v)' <=> IsClient(g, v) /\ g \notin F
  BY <1>1 DEF IsClient, NoSock
<1>8. \A g \in Fds, v \in Mains : v # u => (IsClient(g, v)' <=> IsClient(g, v))
  BY <1>7 DEF IsClient
<1>9. \A v \in Mains : v # u => (v \in cleared' <=> v \in cleared)
  OBVIOUS
<1>10. (\E g \in Fds : IsClient(g, u)') => u \in cleared'
  BY <1>7
<1>11. MainInsock'
  <2> SUFFICES ASSUME NEW v \in Mains
               PROVE  /\ (\E g \in Fds : IsClient(g, v)') => user'[v].insock # 0 \/ v \in cleared'
                      /\ user'[v].insock # 0 => sock'[user'[v].insock].kind = "client"
                                                  /\ sock'[user'[v].insock].param = v
    BY DEF MainInsock, IsClient
  <2>1. CASE v = u
    BY <1>10, <2>1
  <2>2. CASE v # u
    <3>1. v \in Users /\ user'[v] = us[v]
      BY <2>2, MainsAreUsers, RootIsMain
    <3>2. us[v].insock # 0 => us[v].insock \in Fds /\ IsClient(us[v].insock, v)
      BY DEF Agrees
    <3>3. (\E g \in Fds : IsClient(g, v)) => us[v].insock # 0 \/ v \in cleared
      BY DEF Agrees
    <3>4. us[v].insock # 0 => us[v].insock \in Fds /\ IsClient(us[v].insock, v)'
      BY <1>8, <2>2, <3>2
    <3>5. (\E g \in Fds : IsClient(g, v)') => us[v].insock # 0 \/ v \in cleared'
      BY <1>8, <1>9, <2>2, <3>3
    <3> QED
      BY <3>1, <3>4, <3>5 DEF IsClient
  <2> QED
    BY <2>1, <2>2
<1>12. InstateExact'
  <2>1. ASSUME NEW v \in Plain, user'[v].instate = "CONN"
        PROVE  \E g \in Fds : IsClient(g, Root(v))'
    <3>1. v \in Users /\ Root(v) \in Mains
      BY PlainUsers, RootIsMain
    <3>2. us[v].instate = "CONN" => \E g \in Fds : IsClient(g, Root(v))
      BY DEF Agrees
    <3>3. Root(v) # u
      BY <2>1, <3>1, <3>2
    <3> QED
      BY <1>8, <2>1, <3>1, <3>2, <3>3
  <2>2. ASSUME NEW v \in Mains, NEW g \in Fds, IsClient(g, v)'
        PROVE  user'[v].instate = "CONN" \/ v \in cleared'
    <3>1. CASE v = u
      BY <1>10, <2>2, <3>1
    <3>2. CASE v # u
      <4>1. IsClient(g, v) /\ v \in Users /\ user'[v] = us[v]
        BY <1>8, <2>2, <3>2, MainsAreUsers, RootIsMain
      <4>2. us[v].instate = "CONN" \/ v \in cleared
        BY <4>1 DEF Agrees
      <4> QED
        BY <1>9, <3>2, <4>1, <4>2
    <3> QED
      BY <3>1, <3>2
  <2> QED
    BY <2>1, <2>2 DEF InstateExact, Root, Plain
<1>13. FreshUnlocked'
  BY DEF FreshUnlocked, Agrees
<1> QED
  BY <1>2, <1>5, <1>6, <1>11, <1>12, <1>13 DEF IInv

(* The record quitclient() leaves is a user record without a client. *)
LEMMA DetachedType ==
    ASSUME NEW r \in User
    PROVE  LET d == [r EXCEPT !.instate = "NOCON", !.insock = 0]
           IN  d \in User /\ d.instate = "NOCON" /\ d.insock = 0 /\ d.penalty = r.penalty
<1> DEFINE a == [r EXCEPT !.instate = "NOCON"]
           b == [a EXCEPT !.insock = 0]
<1>1. a \in User /\ a.instate = "NOCON" /\ a.penalty = r.penalty
  BY DEF User
<1>2. b \in User /\ b.instate = "NOCON" /\ b.insock = 0 /\ b.penalty = r.penalty
  <2> HIDE DEF a
  <2> QED
    BY <1>1 DEF User
<1> QED
  BY <1>2

(* quitclient(): all clients of u go, or BRAW leaves some. *)
LEMMA quitclientKeeps ==
    ASSUME IInv, NEW us, Agrees(us), NEW u \in Mains, NEW F \in SUBSET Fds,
           \A f \in F : IsClient(f, u), quitclient(us, u, F),
           cleared' \in {cleared, cleared \cup {u}},
           u \in cleared' \/ \A f \in Fds : IsClient(f, u) => f \in F \cup {us[u].insock}
    PROVE  IInv'
<1> DEFINE G == F \cup {us[u].insock}
<1>1. u \in Users /\ Root(u) = u /\ 0 \notin Fds
  BY MainsAreUsers, RootIsMain, ClientSessionAssumption
<1>2. us[u].insock # 0 => us[u].insock \in Fds /\ IsClient(us[u].insock, u)
  BY DEF Agrees
<1>3. \A h \in Fds : h \in G => IsClient(h, u)
  BY <1>1, <1>2
<1>4. user' = [v \in Users |-> IF Root(v) = u
                               THEN [us[v] EXCEPT !.instate = "NOCON", !.insock = 0]
                               ELSE us[v]]
        /\ sock' = Closed(G) /\ UNCHANGED <<peer, account, nousers>>
  BY DEF quitclient
<1>5. us \in [Users -> User]
  BY DEF Agrees
<1>6. \A v \in Users : /\ user'[v] \in User /\ user'[v].penalty = us[v].penalty
                       /\ Root(v) = u => user'[v].instate = "NOCON" /\ user'[v].insock = 0
                       /\ Root(v) # u => user'[v] = us[v]
  BY <1>4, <1>5, DetachedType
<1>7. user' \in [Users -> User]
  BY <1>4, <1>6
<1>8. u \in cleared' \/ \A f \in Fds : IsClient(f, u) => f \in G
  OBVIOUS
<1> HIDE DEF G
<1> QED
  BY <1>1, <1>3, <1>4, <1>6, <1>7, <1>8, DetachKeeps

(* A socket with no other one in its group is the only client of its user. *)
LEMMA OnlyClient ==
    ASSUME IInv, NEW f \in Fds, sock[f].kind = "client", Others(f) = {},
           NEW h \in Fds, IsClient(h, sock[f].param)
    PROVE  h = f
<1>1. sock[f].param \in Mains /\ sock[f].group = sock[f].param /\ sock[f].param # 0
  BY SockKinds, MainsAreUsers
<1>2. sock[h].group = sock[f].param
  BY SockKinds DEF IsClient
<1> QED
  BY <1>1, <1>2 DEF Others

(* A line of a client other than the handlers' own ones. *)
LEMMA otherlineKeeps ==
    ASSUME IInv, NEW f \in Fds, NEW v \in Users, otherline(f, v)
    PROVE  IInv'
BY userinboundAgrees, UserOnly DEF otherline

(* BKILL closes all clients of the user and detaches its networks. *)
LEMMA cmdbkillKeeps ==
    ASSUME IInv, NEW f \in Fds, NEW w \in Users, NEW u \in Users, cmdbkill(f, w, u)
    PROVE  IInv'
<1> DEFINE F == {g \in Fds : IsClient(g, u)}
           us == userinbound(f, w)
<1>1. u \in Mains /\ Root(u) = u
  BY RootIsMain DEF cmdbkill
<1>2. Agrees(us)
  BY userinboundAgrees DEF cmdbkill
<1>3. user' = [v \in Users |-> IF v = u \/ (Root(v) = u /\ F # {})
                               THEN [us[v] EXCEPT !.instate = "NOCON", !.insock = 0]
                               ELSE us[v]]
        /\ sock' = Closed(F) /\ UNCHANGED <<peer, account, nousers, cleared>>
  BY DEF cmdbkill
<1> HIDE DEF us
<1>4. us \in [Users -> User]
  BY <1>2 DEF Agrees
<1>5. \A v \in Users : /\ user'[v] \in User /\ user'[v].penalty = us[v].penalty
                       /\ v = u \/ (Root(v) = u /\ F # {}) =>
                            user'[v].instate = "NOCON" /\ user'[v].insock = 0
                       /\ ~(v = u \/ (Root(v) = u /\ F # {})) => user'[v] = us[v]
  BY <1>3, <1>4, DetachedType
<1>6. user' \in [Users -> User]
  BY <1>3, <1>5
<1>7. \A g \in Fds : g \in F <=> IsClient(g, u)
  OBVIOUS
<1>8. F = {} => \A g \in Fds : ~IsClient(g, u)
  OBVIOUS
<1> HIDE DEF F
<1> QED
  BY <1>1, <1>2, <1>3, <1>5, <1>6, <1>7, <1>8, DetachKeeps

(* One client of several goes: the remapper makes another one the insock.    *)
LEMMA killRemappedKeeps ==
    ASSUME IInv, NEW us, Agrees(us), NEW f \in Fds, NEW g \in Fds, killRemapped(us, f, g)
    PROVE  IInv'
<1> DEFINE u == sock[f].param
           r == [us[u] EXCEPT !.insock = g]
<1>1. u \in Mains /\ u \in Users /\ sock[f].group = u /\ u # 0 /\ sock[f].kind = "client"
  BY SockKinds, MainsAreUsers DEF killRemapped
<1>2. g # f /\ sock[g].group = u
  BY <1>1 DEF killRemapped, Others
<1>3. sock[g].kind = "client" /\ sock[g].param = u
  BY <1>1, <1>2, SockKinds DEF NoSock
<1>4. sock' = [h \in Fds |-> IF h = f THEN NoSock ELSE sock[h]]
        /\ user' = [us EXCEPT ![u] = r] /\ UNCHANGED <<peer, account, nousers, cleared>>
  BY DEF killRemapped, Closed
<1>5. r \in User /\ r.insock = g /\ r.instate = us[u].instate /\ r.penalty = us[u].penalty
  BY <1>1, UserFields, SetInsock
<1>6. us \in [Users -> User]
  BY DEF Agrees
<1> HIDE DEF r
<1>7. user' \in [Users -> User] /\ user'[u] = r /\ \A v \in Users : v # u => user'[v] = us[v]
  BY <1>1, <1>4, <1>5, <1>6
<1>8. TypeOK'
  BY <1>4, <1>7 DEF IInv, TypeOK
<1>9. \A h \in Fds : h # f => sock'[h] = sock[h]
  BY <1>4
<1>10. sock'[f] = NoSock
  BY <1>4
<1>11. PeersMatchSockets'
  <2>1. ASSUME NEW q \in Peers, peer[q] # NoPeer
        PROVE  sock'[peer[q].insock] = [kind |-> "peer", param |-> q, group |-> 0]
    BY <1>1, <1>9, <2>1, PeerFacts
  <2>2. ASSUME NEW h \in Fds, sock'[h].kind = "peer"
        PROVE  peer[sock'[h].param].insock = h
    BY <1>9, <1>10, <2>2, SockKinds DEF NoSock
  <2> QED
    BY <1>4, <2>1, <2>2 DEF PeersMatchSockets
<1>12. GroupIsUser'
  BY <1>9, <1>10 DEF IInv, GroupIsUser, NoSock
<1>13. \A h \in Fds, v \in Mains : IsClient(h, v)' <=> IsClient(h, v) /\ h # f
  BY <1>9, <1>10 DEF IsClient, NoSock
<1>14. MainInsock'
  <2> SUFFICES ASSUME NEW v \in Mains
               PROVE  /\ (\E h \in Fds : IsClient(h, v)') => user'[v].insock # 0 \/ v \in cleared
                      /\ user'[v].insock # 0 => sock'[user'[v].insock].kind = "client"
                                                  /\ sock'[user'[v].insock].param = v
    BY <1>4 DEF MainInsock, IsClient
  <2>1. CASE v = u
    BY <1>2, <1>3, <1>5, <1>7, <1>9, <2>1, ClientSessionAssumption
  <2>2. CASE v # u
    <3>1. v \in Users /\ user'[v] = us[v]
      BY <1>7, <2>2, MainsAreUsers
    <3>2. us[v].insock # 0 => us[v].insock \in Fds /\ IsClient(us[v].insock, v)
      BY DEF Agrees
    <3>3. (\E h \in Fds : IsClient(h, v)) => us[v].insock # 0 \/ v \in cleared
      BY DEF Agrees
    <3>4. us[v].insock # 0 => us[v].insock # f
      BY <2>2, <3>2 DEF IsClient
    <3> QED
      BY <1>9, <1>13, <3>1, <3>2, <3>3, <3>4 DEF IsClient
  <2> QED
    BY <2>1, <2>2
<1>15. \A v \in Users : user'[v].instate = us[v].instate /\ user'[v].penalty = us[v].penalty
  BY <1>5, <1>7
<1>16. InstateExact'
  <2>1. ASSUME NEW v \in Plain, user'[v].instate = "CONN"
        PROVE  \E h \in Fds : IsClient(h, Root(v))'
    <3>1. v \in Users /\ Root(v) \in Mains
      BY PlainUsers, RootIsMain
    <3>2. CASE Root(v) = u
      BY <1>1, <1>2, <1>3, <1>13, <3>2 DEF IsClient
    <3>3. CASE Root(v) # u
      <4>1. PICK h \in Fds : IsClient(h, Root(v))
        BY <1>15, <2>1, <3>1 DEF Agrees
      <4>2. h # f
        BY <3>3, <4>1 DEF IsClient
      <4> QED
        BY <1>13, <3>1, <4>1, <4>2
    <3> QED
      BY <3>2, <3>3
  <2>2. ASSUME NEW v \in Mains, NEW h \in Fds, IsClient(h, v)'
        PROVE  user'[v].instate = "CONN" \/ v \in cleared'
    <3>1. IsClient(h, v) /\ v \in Users
      BY <1>13, <2>2, MainsAreUsers
    <3>2. us[v].instate = "CONN" \/ v \in cleared
      BY <3>1 DEF Agrees
    <3> QED
      BY <1>4, <1>15, <3>1, <3>2
  <2> QED
    BY <2>1, <2>2 DEF InstateExact, Root, Plain
<1>17. FreshUnlocked'
  BY <1>4, <1>15 DEF FreshUnlocked, Agrees
<1> QED
  BY <1>8, <1>11, <1>12, <1>14, <1>16, <1>17 DEF IInv

(* killsocket() of a pending login, of one client of several, of the last. *)
LEMMA killsocketKeeps == ASSUME IInv, NEW f \in Fds, killsocket(f) PROVE IInv'
<1>1. CASE killPeer(f)
  <2>1. sock[f].param \in Peers /\ peer[sock[f].param] # NoPeer
    BY <1>1, SockKinds DEF killPeer
  <2>2. erasepeer(sock[f].param) /\ UNCHANGED <<user, account, nousers>>
    BY <1>1 DEF killPeer
  <2>3. /\ user \in [Users -> User] /\ account \in [Mains -> Account]
        /\ nousers \in BOOLEAN
        /\ nousers => \A v \in Users : user[v].penalty = 0
    BY DEF IInv, TypeOK, FreshUnlocked
  <2> QED
    BY <2>1, <2>2, <2>3, eraseKeeps
<1>2. ASSUME NEW g \in Fds, killRemapped(user, f, g) PROVE IInv'
  BY <1>2, UserAgrees, killRemappedKeeps
<1>3. CASE killLast(f)
  <2>1. /\ sock[f].kind = "client" /\ Others(f) = {} /\ cleared' = cleared
        /\ quitclient(user, sock[f].param, {f})
    BY <1>3 DEF killLast
  <2>2. sock[f].param \in Mains /\ IsClient(f, sock[f].param)
    BY <2>1, SockKinds DEF IsClient
  <2>3. \A h \in Fds : IsClient(h, sock[f].param) => h = f
    BY <2>1, OnlyClient
  <2> QED
    BY <2>1, <2>2, <2>3, UserAgrees, quitclientKeeps
<1> QED
  BY <1>1, <1>2, <1>3 DEF killsocket

(* QUIT of one client of several closes its socket as killsocket() does. *)
LEMMA QuitOneOfKeeps ==
    ASSUME IInv, NEW us, Agrees(us), NEW f \in Fds, QuitOneOf(us, f)
    PROVE  IInv'
BY killRemappedKeeps DEF QuitOneOf

(* QUIT of the last client closes it, unless BRAW has cleared the insock. *)
LEMMA cmdquitKeeps ==
    ASSUME IInv, NEW f \in Fds, NEW v \in Users, cmdquit(f, v)
    PROVE  IInv'
<1> DEFINE us == userinbound(f, v)
           u == Root(v)
<1>1. Agrees(us)
  BY userinboundAgrees DEF cmdquit
<1>2. sock[f].kind = "client" /\ sock[f].param = u /\ IsClient(f, u) /\ u \in Mains
  BY RootIsMain DEF cmdquit, Sends, IsClient
<1>3. QuitOneOf(us, f) \/ (QuitAll(us, f, u) /\ cleared' = cleared)
  BY DEF cmdquit
<1> HIDE DEF us, u
<1>4. CASE QuitOneOf(us, f)
  BY <1>1, <1>4, QuitOneOfKeeps
<1>5. CASE QuitAll(us, f, u) /\ cleared' = cleared
  <2>1. Others(f) = {} /\ quitclient(us, u, {})
    BY <1>5 DEF QuitAll
  <2>2. \A h \in Fds : IsClient(h, u) => h = f
    BY <1>2, <2>1, OnlyClient
  <2>3. us[u].insock # 0 \/ u \in cleared
    BY <1>1, <1>2 DEF Agrees
  <2>4. us[u].insock # 0 => us[u].insock \in Fds /\ IsClient(us[u].insock, u)
    BY <1>1, <1>2 DEF Agrees
  <2>5. u \in cleared' \/ \A h \in Fds : IsClient(h, u) => h \in {} \cup {us[u].insock}
    BY <1>5, <2>2, <2>3, <2>4
  <2> QED
    BY <1>1, <1>2, <1>5, <2>1, <2>5, quitclientKeeps
<1> QED
  BY <1>3, <1>4, <1>5

(* BRAW of a QUIT closes one client of its target, who counts as cleared. *)
LEMMA cmdbrawKeeps ==
    ASSUME IInv, NEW f \in Fds, NEW v \in Users, NEW u \in Users, cmdbraw(f, v, u)
    PROVE  IInv'
<1>1. Agrees(userinbound(f, v))
  BY userinboundAgrees DEF cmdbraw
<1>2. CASE QuitOneOf(userinbound(f, v), f)
  BY <1>1, <1>2, QuitOneOfKeeps
<1>3. CASE QuitAll(userinbound(f, v), f, u) /\ cleared' = cleared \cup {u}
  BY <1>1, <1>3, quitclientKeeps DEF cmdbraw, QuitAll
<1> QED
  BY <1>2, <1>3 DEF cmdbraw

(* BQUIT changes the state of its target only. *)
LEMMA cmdbquitKeeps ==
    ASSUME IInv, NEW f \in Fds, NEW v \in Users, NEW u \in Users, cmdbquit(f, v, u)
    PROVE  IInv'
<1> DEFINE us == userinbound(f, v)
           r == [us[u] EXCEPT !.instate = "CONN"]
           vs == [us EXCEPT ![u] = r]
<1>1. Agrees(us)
  BY userinboundAgrees DEF cmdbquit
<1>2. user' = vs /\ UNCHANGED <<sock, peer, account, nousers, cleared>>
  BY DEF cmdbquit
<1>3. u \notin Plain \/ \E g \in Fds : IsClient(g, Root(u))
  BY DEF cmdbquit, Plain, Sends, IsClient
<1> HIDE DEF us
<1>4. us \in [Users -> User]
  BY <1>1 DEF Agrees
<1>5. r \in User /\ r.insock = us[u].insock /\ r.penalty = us[u].penalty /\ r.instate = "CONN"
  BY <1>4, SetInstate
<1> HIDE DEF r
<1>6. vs \in [Users -> User] /\ vs[u] = r /\ \A w \in Users : w # u => vs[w] = us[w]
  BY <1>4, <1>5
<1> HIDE DEF vs
<1>7. \A w \in Users : /\ vs[w].penalty = us[w].penalty
                       /\ vs[w].insock = us[w].insock
                       /\ w # u => vs[w].instate = us[w].instate
                       /\ w = u => vs[w].instate = "CONN"
  BY <1>5, <1>6
<1>8. Agrees(vs)
  BY <1>1, <1>3, <1>6, <1>7, SameAgrees
<1> QED
  BY <1>2, <1>8, UserOnly

(* A line of its server gives a network the client of its main record. *)
LEMMA useroutboundKeeps == ASSUME IInv, NEW v \in Users, useroutbound(v) PROVE IInv'
<1> DEFINE r == TakeOver(user, v)
           vs == [user EXCEPT ![v] = r]
<1>1. Agrees(user)
  BY UserAgrees
<1>2. user' = vs /\ UNCHANGED <<sock, peer, account, nousers, cleared>>
  BY DEF useroutbound
<1>3. /\ r \in User /\ r.penalty = user[v].penalty
      /\ r.insock = user[Root(v)].insock /\ r.instate = user[Root(v)].instate
  BY <1>1, TakenOver
<1> HIDE DEF r
<1>4. vs \in [Users -> User] /\ vs[v] = r /\ \A w \in Users : w # v => vs[w] = user[w]
  BY <1>1, <1>3 DEF Agrees
<1> HIDE DEF vs
<1>5. v \in Mains => Root(v) = v
  BY RootIsMain
<1>6. \A w \in Users : /\ vs[w].penalty = user[w].penalty
                       /\ w \in Mains => vs[w].insock = user[w].insock
                       /\ vs[w].instate \in {user[w].instate, user[Root(w)].instate}
  BY <1>3, <1>4, <1>5
<1>7. Agrees(vs)
  BY <1>1, <1>4, <1>6, SameAgrees
<1> QED
  BY <1>2, <1>7, UserOnly

(* Loading the users does so for every network. *)
LEMMA checkparentsAgrees ==
    ASSUME NEW us, Agrees(us)
    PROVE  Agrees(checkparents(us))
<1> DEFINE vs == checkparents(us)
<1>1. \A v \in Users : vs[v] = TakeOver(us, v)
  BY DEF checkparents
<1>2. \A v \in Users : /\ vs[v] \in User /\ vs[v].penalty = us[v].penalty
                       /\ vs[v].insock = us[Root(v)].insock
                       /\ vs[v].instate = us[Root(v)].instate
  BY <1>1, TakenOver
<1>3. vs \in [Users -> User]
  BY <1>2 DEF checkparents
<1> HIDE DEF vs
<1>4. \A v \in Mains : Root(v) = v
  BY MainsAreUsers, RootIsMain
<1>5. \A v \in Users : /\ vs[v].penalty = us[v].penalty
                       /\ v \in Mains => vs[v].insock = us[v].insock
                       /\ vs[v].instate \in {us[v].instate, us[Root(v)].instate}
  BY <1>2, <1>4
<1>6. Agrees(vs)
  BY <1>3, <1>5, SameAgrees
<1> QED
  BY <1>6 DEF vs

(* BREHASH gives every network the client of its main record. *)
LEMMA cmdrehashKeeps == ASSUME IInv, cmdrehash PROVE IInv'
<1>1. PICK us : Agrees(us) /\ user' = checkparents(us)
  BY userinboundAgrees, UserAgrees DEF cmdrehash
<1>2. Agrees(checkparents(us))
  BY <1>1, checkparentsAgrees
<1>3. UNCHANGED <<sock, peer, account, nousers, cleared>>
  BY DEF cmdrehash
<1> QED
  BY <1>1, <1>2, <1>3, UserOnly

(* Time only ages the lockouts. *)
LEMMA TickKeeps == ASSUME IInv, Tick PROVE IInv'
<1> DEFINE vs == [u \in Users |->
                  IF user[u].pentime = Unset THEN user[u]
                  ELSE [user[u] EXCEPT !.pentime = Older(@, LockTime + LockRand)]]
<1>1. user' = vs /\ UNCHANGED <<sock, peer, account, nousers, cleared>>
  BY DEF Tick
<1>2. Agrees(user)
  BY UserAgrees
<1>3. ASSUME NEW v \in Users
      PROVE  /\ vs[v] \in User /\ vs[v].insock = user[v].insock
             /\ vs[v].penalty = user[v].penalty /\ vs[v].instate = user[v].instate
  <2> DEFINE t == Older(user[v].pentime, LockTime + LockRand)
  <2>1. user[v] \in User
    BY <1>2, <1>3, UserFields
  <2>2. t \in Int
    BY <2>1, ClientSessionAssumption DEF Older, User
  <2>3. vs[v] \in {user[v], [user[v] EXCEPT !.pentime = t]}
    BY <1>3
  <2> HIDE DEF t, vs
  <2> QED
    BY <2>1, <2>2, <2>3 DEF User
<1>4. vs \in [Users -> User]
  BY <1>3
<1> HIDE DEF vs
<1>5. Agrees(vs)
  BY <1>2, <1>3, <1>4, SameAgrees
<1> QED
  BY <1>1, <1>5, UserOnly

(* An accepted connection takes a free slot and a free descriptor. *)
LEMMA checknewlistenerKeeps == ASSUME IInv, NEW h \in Hosts, checknewlistener(h) PROVE IInv'
<1> DEFINE f == NewFd
           p == getnewpeer
           k == [kind |-> "peer", param |-> p, group |-> 0]
           a == [NoPeer EXCEPT !.insock = f]
           r == [a EXCEPT !.host = h]
<1>1. f \in Fds /\ sock[f] = NoSock
  BY NewFdFree DEF IInv, checknewlistener
<1>2. p \in Peers /\ peer[p] = NoPeer
  BY NewPeerFree DEF IInv, checknewlistener
<1>3. r \in Peer /\ r.insock = f
  BY <1>1 DEF Peer, NoPeer
<1>4. k \in Sock
  BY <1>2 DEF Sock
<1>5. sock' = [sock EXCEPT ![f] = k] /\ peer' = [peer EXCEPT ![p] = r]
        /\ UNCHANGED <<user, account, nousers, cleared>>
  BY DEF checknewlistener
<1>6. f # 0
  BY <1>1, ClientSessionAssumption
<1> HIDE DEF f, p, a, r
<1>7. TypeOK'
  BY <1>3, <1>4, <1>5 DEF IInv, TypeOK
<1>8. sock'[f] = k /\ \A g \in Fds : g # f => sock'[g] = sock[g]
  BY <1>1, <1>5 DEF IInv, TypeOK
<1>9. peer'[p] = r /\ \A q \in Peers : q # p => peer'[q] = peer[q]
  BY <1>2, <1>5 DEF IInv, TypeOK
<1>10. PeersMatchSockets'
  <2>1. ASSUME NEW q \in Peers, peer'[q] # NoPeer
        PROVE  sock'[peer'[q].insock] = [kind |-> "peer", param |-> q, group |-> 0]
    <3>1. CASE q = p
      BY <1>3, <1>8, <1>9, <3>1
    <3>2. CASE q # p
      <4>1. peer'[q] = peer[q] /\ peer[q] # NoPeer
        BY <1>9, <2>1, <3>2
      <4>2. peer[q].insock \in Fds
              /\ sock[peer[q].insock] = [kind |-> "peer", param |-> q, group |-> 0]
        BY <4>1, PeerFacts
      <4>3. peer[q].insock # f
        BY <1>1, <4>2 DEF NoSock
      <4> QED
        BY <1>8, <4>1, <4>2, <4>3
    <3> QED
      BY <3>1, <3>2
  <2>2. ASSUME NEW g \in Fds, sock'[g].kind = "peer"
        PROVE  peer'[sock'[g].param].insock = g
    <3>1. CASE g = f
      BY <1>3, <1>8, <1>9, <3>1
    <3>2. CASE g # f
      <4>1. sock'[g] = sock[g]
        BY <1>8, <3>2
      <4>2. /\ sock[g].param \in Peers /\ peer[sock[g].param] # NoPeer
            /\ peer[sock[g].param].insock = g
        BY <2>2, <4>1, SockKinds
      <4>3. sock[g].param # p
        BY <1>2, <4>2
      <4> QED
        BY <1>9, <4>1, <4>2, <4>3
    <3> QED
      BY <3>1, <3>2
  <2> QED
    BY <2>1, <2>2 DEF PeersMatchSockets
<1>11. \A g \in Fds, v \in Mains : IsClient(g, v)' <=> IsClient(g, v)
  BY <1>1, <1>8 DEF IsClient, NoSock
<1>12. GroupIsUser'
  BY <1>8 DEF IInv, GroupIsUser
<1>13. MainInsock'
  <2> SUFFICES ASSUME NEW v \in Mains
               PROVE  /\ (\E g \in Fds : IsClient(g, v)') => user[v].insock # 0 \/ v \in cleared
                      /\ user[v].insock # 0 => sock'[user[v].insock].kind = "client"
                                                 /\ sock'[user[v].insock].param = v
    BY <1>5 DEF MainInsock, IsClient
  <2>1. user[v].insock \in Fds \cup {0}
    BY MainsAreUsers DEF IInv, TypeOK, User
  <2>2. user[v].insock # 0 => IsClient(user[v].insock, v) /\ user[v].insock # f
    BY <1>1 DEF IInv, MainInsock, IsClient, NoSock
  <2>3. (\E g \in Fds : IsClient(g, v)) => user[v].insock # 0 \/ v \in cleared
    BY DEF IInv, MainInsock
  <2> QED
    BY <1>8, <1>11, <2>1, <2>2, <2>3 DEF IsClient
<1>14. InstateExact'
  <2> SUFFICES ASSUME InstateExact PROVE InstateExact'
    BY DEF IInv
  <2> QED
    BY <1>5, <1>11, RootIsMain DEF InstateExact, Root, Plain
<1> QED
  BY <1>5, <1>7, <1>10, <1>12, <1>13, <1>14 DEF IInv, FreshUnlocked

-----------------------------------------------------------------------------
(* The login dialogue: r is the record of peer p after the line was parsed. *)

(* The first login creates record 1 or fails, with nousers cleared. *)
LEMMA linkpeerFirstKeeps ==
    ASSUME IInv, NEW p \in Peers, peer[p] # NoPeer,
           NEW r \in Peer, r.insock = peer[p].insock, linkpeerFirst(p, r)
    PROVE  IInv'
<1>1. 1 \in Mains /\ 1 \in Users
  BY ClientSessionAssumption, MainsAreUsers
<1>2. user \in [Users -> User] /\ account \in [Mains -> Account]
  BY DEF IInv, TypeOK
<1>3. CASE r.user
  <2> DEFINE a == [user[1] EXCEPT !.insock = r.insock]
             b == [a EXCEPT !.instate = "CONN"]
             acc == [login |-> r.login, pass |-> r.pass]
  <2>1. Adopt(p, 1) /\ account' = [account EXCEPT ![1] = acc] /\ nousers' = FALSE
    BY <1>3 DEF linkpeerFirst
  <2>2. acc \in Account
    BY DEF Peer, Account
  <2>3. account' \in [Mains -> Account]
    BY <1>1, <1>2, <2>1, <2>2
  <2>4. a \in User /\ a.insock = r.insock
    BY <1>1, <1>2 DEF User, Peer
  <2>5. b \in User /\ b.insock = r.insock /\ b.instate = "CONN"
    <3> HIDE DEF a
    <3> QED
      BY <2>4 DEF User
  <2>6. user' = [user EXCEPT ![1] = b]
    BY <1>1, <1>2, <1>3 DEF linkpeerFirst
  <2>7. user' \in [Users -> User] /\ user'[1] = b /\ \A v \in Users : v # 1 => user'[v] = user[v]
    <3> HIDE DEF b
    <3> QED
      BY <1>1, <1>2, <2>5, <2>6
  <2>8. \A v \in Users : Root(v) # 1 => v # 1
    BY <1>1, RootIsMain
  <2> HIDE DEF b, acc
  <2> QED
    BY <1>1, <2>1, <2>3, <2>5, <2>7, <2>8, AdoptKeeps
<1>4. CASE ~r.user
  <2>1. erasepeer(p) /\ UNCHANGED <<account, user>> /\ nousers' = FALSE
    BY <1>4 DEF linkpeerFirst
  <2> QED
    BY <1>2, <2>1, eraseKeeps
<1> QED
  BY <1>3, <1>4

(* A login with an unknown name only ends the pending login. *)
LEMMA linkpeerUnknownKeeps ==
    ASSUME IInv, NEW p \in Peers, peer[p] # NoPeer, NEW r, linkpeerUnknown(p, r)
    PROVE  IInv'
<1>1. /\ user \in [Users -> User] /\ account \in [Mains -> Account]
      /\ nousers \in BOOLEAN /\ ~nousers
  BY DEF IInv, TypeOK, linkpeerUnknown
<1> QED
  BY <1>1, eraseKeeps DEF linkpeerUnknown

(* A right password during the lockout only ends the pending login. *)
LEMMA linkpeerLockedKeeps ==
    ASSUME IInv, NEW p \in Peers, peer[p] # NoPeer, NEW r, NEW u \in Mains,
           NEW rnd \in 0 .. LockRand - 1, linkpeerLocked(p, r, u, rnd)
    PROVE  IInv'
<1>1. /\ user \in [Users -> User] /\ account \in [Mains -> Account]
      /\ nousers \in BOOLEAN /\ ~nousers
  BY DEF IInv, TypeOK, linkpeerLocked
<1> QED
  BY <1>1, eraseKeeps DEF linkpeerLocked

(* A wrong password counts up penalty and restarts the lockout. *)
LEMMA linkpeerWrongKeeps ==
    ASSUME IInv, NEW p \in Peers, peer[p] # NoPeer, NEW r, NEW u \in Mains,
           linkpeerWrong(p, r, u)
    PROVE  IInv'
<1> DEFINE n == Older(user[u].penalty, MaxPenalty + 1)
           a == [user[u] EXCEPT !.penalty = n]
           b == [a EXCEPT !.pentime = 0]
<1>1. /\ user \in [Users -> User] /\ account \in [Mains -> Account]
      /\ nousers \in BOOLEAN /\ ~nousers /\ u \in Users
  BY MainsAreUsers DEF IInv, TypeOK, linkpeerWrong
<1>2. n \in Nat
  BY <1>1, ClientSessionAssumption DEF Older, User
<1>3. a \in User /\ a.insock = user[u].insock /\ a.instate = user[u].instate
  <2> HIDE DEF n
  <2> QED
    BY <1>1, <1>2 DEF User
<1>4. b \in User /\ b.insock = a.insock /\ b.instate = a.instate
  <2> HIDE DEF a
  <2> QED
    BY <1>3 DEF User
<1>5. user' = [user EXCEPT ![u] = b] /\ erasepeer(p) /\ UNCHANGED <<account, nousers>>
  BY <1>1 DEF linkpeerWrong
<1>6. user' \in [Users -> User]
        /\ \A v \in Users : user'[v].insock = user[v].insock /\ user'[v].instate = user[v].instate
  <2> HIDE DEF a, b
  <2> QED
    BY <1>1, <1>3, <1>4, <1>5
<1> QED
  BY <1>1, <1>5, <1>6, eraseKeeps

(* An accepted login adds a client to the group and resets penalty. *)
LEMMA linkpeerLoginKeeps ==
    ASSUME IInv, NEW p \in Peers, peer[p] # NoPeer,
           NEW r \in Peer, r.insock = peer[p].insock, NEW u \in Mains,
           NEW rnd \in 0 .. LockRand - 1, linkpeerLogin(p, r, u, rnd)
    PROVE  IInv'
<1> DEFINE new == [insock |-> r.insock, instate |-> "CONN", penalty |-> 0, pentime |-> Unset]
<1>1. /\ user \in [Users -> User] /\ account \in [Mains -> Account]
      /\ nousers \in BOOLEAN /\ ~nousers /\ u \in Users
  BY MainsAreUsers DEF IInv, TypeOK, linkpeerLogin
<1>2. new \in User
  BY DEF User, Peer, Unset
<1>3. ASSUME NEW x \in User
      PROVE  [x EXCEPT !.insock = r.insock, !.instate = "CONN"] \in User
  <2> DEFINE a == [x EXCEPT !.insock = r.insock]
  <2>1. a \in User
    BY DEF User, Peer
  <2>2. [a EXCEPT !.instate = "CONN"] \in User
    <3> HIDE DEF a
    <3> QED
      BY <2>1 DEF User
  <2> QED
    BY <2>2
<1>4. user' = [v \in Users |->
                 IF v = u THEN new
                 ELSE IF Parent[v] = u
                 THEN [user[v] EXCEPT !.insock = r.insock, !.instate = "CONN"]
                 ELSE user[v]]
        /\ Adopt(p, u) /\ UNCHANGED <<account, nousers>>
  BY DEF linkpeerLogin
<1>5. \A v \in Users : user'[v] \in User
  BY <1>1, <1>2, <1>3, <1>4
<1>6. user' \in [Users -> User]
  BY <1>4, <1>5
<1>7. user'[u] = new
  BY <1>1, <1>4
<1>8. \A v \in Users : Root(v) # u => user'[v] = user[v]
  BY <1>4, MainsAreUsers DEF Root
<1>9. user'[u].insock = peer[p].insock /\ user'[u].instate = "CONN"
  BY <1>7
<1> QED
  BY <1>1, <1>4, <1>6, <1>8, <1>9, AdoptKeeps

(* The five outcomes of linkpeer(). *)
LEMMA linkpeerKeeps ==
    ASSUME IInv, NEW p \in Peers, peer[p] # NoPeer,
           NEW r \in Peer, r.insock = peer[p].insock, linkpeer(p, r)
    PROVE  IInv'
BY linkpeerFirstKeeps, linkpeerUnknownKeeps, linkpeerWrongKeeps, linkpeerLockedKeeps,
   linkpeerLoginKeeps DEF linkpeer

(* A line of the dialogue either completes the login or is remembered. *)
LEMMA checkoldlistenerKeeps ==
    ASSUME IInv, NEW p \in Peers, peer[p] # NoPeer,
           NEW r \in Peer, r.insock = peer[p].insock, checkoldlistener(p, r)
    PROVE  IInv'
<1> DEFINE c == [r EXCEPT !.delayed = @ + 1]
<1>1. c \in Peer /\ c.insock = peer[p].insock
  BY DEF Peer
<1>2. CASE c.delayed > MaxLines
  <2>1. erasepeer(p) /\ UNCHANGED <<user, account, nousers>>
    BY <1>2 DEF checkoldlistener
  <2>2. /\ user \in [Users -> User] /\ account \in [Mains -> Account]
        /\ nousers \in BOOLEAN /\ (nousers => \A v \in Users : user[v].penalty = 0)
    BY DEF IInv, TypeOK, FreshUnlocked
  <2> QED
    BY <2>1, <2>2, eraseKeeps
<1>3. CASE ~(c.delayed > MaxLines) /\ Complete(c)
  <2>1. linkpeer(p, c)
    BY <1>3 DEF checkoldlistener
  <2> HIDE DEF c
  <2> QED
    BY <1>1, <2>1, linkpeerKeeps
<1>4. CASE ~(c.delayed > MaxLines) /\ ~Complete(c)
  <2>1. peer' = [peer EXCEPT ![p] = c] /\ UNCHANGED <<sock, user, account, nousers, cleared>>
    BY <1>4 DEF checkoldlistener
  <2> HIDE DEF c
  <2>2. peer' \in [Peers -> Peer \cup {NoPeer}]
          /\ \A q \in Peers : /\ peer'[q].insock = peer[q].insock
                              /\ peer'[q] # NoPeer => peer[q] # NoPeer
    BY <1>1, <2>1 DEF IInv, TypeOK
  <2>3. TypeOK'
    BY <2>1, <2>2 DEF IInv, TypeOK
  <2>4. PeersMatchSockets'
    <3>1. \A g \in Fds : sock[g].kind = "peer" => sock[g].param \in Peers
      BY SockKinds
    <3> QED
      BY <2>1, <2>2, <3>1 DEF IInv, PeersMatchSockets
  <2> QED
    BY <2>1, <2>3, <2>4 DEF IInv, GroupIsUser, MainInsock, FreshUnlocked, InstateExact, IsClient, Plain, Root
<1> QED
  BY <1>2, <1>3, <1>4

(* A line of a pending login, the one too many included. *)
LEMMA LineKeeps == ASSUME IInv, NEW p \in Peers, Line(p) PROVE IInv'
<1> DEFINE r == peer[p]
<1>1. peer[p] # NoPeer
  BY DEF Line, checkoldlistener
<1>2. r \in Peer
  BY <1>1, PeerFacts
<1>3. ASSUME NEW given \in BOOLEAN
      PROVE  LineNICK(r, given) \in Peer /\ LineNICK(r, given).insock = r.insock
  BY <1>2 DEF LineNICK, Peer
<1>4. ASSUME NEW name \in Names \cup {None, r.login}, NEW real \in BOOLEAN
      PROVE  LineUSER(r, name, real) \in Peer /\ LineUSER(r, name, real).insock = r.insock
  <2> DEFINE a == [r EXCEPT !.login = name]
             b == [a EXCEPT !.user = real]
  <2>1. a \in Peer /\ a.insock = r.insock
    BY <1>2 DEF Peer
  <2>2. b \in Peer /\ b.insock = a.insock
    <3> HIDE DEF a
    <3> QED
      BY <2>1 DEF Peer
  <2>3. LineUSER(r, name, real) = b
    BY DEF LineUSER
  <2> QED
    BY <2>1, <2>2, <2>3
<1>5. ASSUME NEW pw \in Passes \cup {None}
      PROVE  LinePASS(r, pw) \in Peer /\ LinePASS(r, pw).insock = r.insock
  BY <1>2 DEF LinePASS, Peer
<1> QED
  BY <1>1, <1>2, <1>3, <1>4, <1>5, checkoldlistenerKeeps DEF Line

-----------------------------------------------------------------------------
(* The invariant *)

(* The program starts with empty tables. *)
LEMMA InitIInv == Init => IInv
<1> SUFFICES ASSUME Init PROVE IInv
  OBVIOUS
<1>1. TypeOK
  <2>1. sock \in [Fds -> Sock \cup {NoSock}] /\ peer \in [Peers -> Peer \cup {NoPeer}]
    BY DEF Init
  <2>2. user \in [Users -> User]
    BY DEF Init, User, Unset
  <2>3. account \in [Mains -> Account] /\ nousers \in BOOLEAN
    <3>1. [login |-> None, pass |-> None] \in Account
      BY DEF Account
    <3> QED
      BY <3>1, ClientSessionAssumption DEF Init
  <2> QED
    BY <2>1, <2>2, <2>3 DEF TypeOK, Init
<1>2. \A f \in Fds : sock[f].kind = "free"
  BY DEF Init, NoSock
<1>3. PeersMatchSockets /\ GroupIsUser
  BY <1>2 DEF Init, PeersMatchSockets, GroupIsUser
<1>4. MainInsock /\ InstateExact
  BY <1>2, MainsAreUsers DEF Init, MainInsock, InstateExact, IsClient, Plain, Root
<1>5. FreshUnlocked
  BY DEF Init, FreshUnlocked
<1> QED
  BY <1>1, <1>3, <1>4, <1>5 DEF IInv

(* One case per action of Next. *)
LEMMA NextIInv == IInv /\ [Next]_vars => IInv'
<1> SUFFICES ASSUME IInv, [Next]_vars PROVE IInv'
  OBVIOUS
<1>1. ASSUME NEW h \in Hosts, acceptcb(h) PROVE IInv'
  BY <1>1, checknewlistenerKeeps DEF acceptcb
<1>2. ASSUME NEW p \in Peers, Line(p) PROVE IInv'
  BY <1>2, LineKeeps
<1>3. ASSUME NEW f \in Fds, killsocket(f) PROVE IInv'
  BY <1>3, killsocketKeeps
<1>4. ASSUME NEW f \in Fds, NEW v \in Users,
             \/ otherline(f, v) \/ cmdquit(f, v)
             \/ \E u \in Users : cmdbraw(f, v, u) \/ cmdbkill(f, v, u) \/ cmdbquit(f, v, u)
      PROVE  IInv'
  BY <1>4, otherlineKeeps, cmdquitKeeps, cmdbrawKeeps, cmdbkillKeeps, cmdbquitKeeps
<1>5. CASE cmdrehash \/ Tick
  BY <1>5, cmdrehashKeeps, TickKeeps
<1>7. ASSUME NEW v \in Users, useroutbound(v) PROVE IInv'
  BY <1>7, useroutboundKeeps
<1>6. CASE UNCHANGED vars
  BY <1>6 DEF vars, IInv, TypeOK, PeersMatchSockets, GroupIsUser, MainInsock, FreshUnlocked,
     InstateExact, IsClient, Plain, Root
<1> QED
  BY <1>1, <1>2, <1>3, <1>4, <1>5, <1>6, <1>7 DEF Next

(* The inductive invariant holds in every reachable state. *)
THEOREM Invariance == Spec => []IInv
BY InitIInv, NextIInv, PTL DEF Spec

(* The tables agree: types are kept, and peer slots and sockets of pending    *)
(* logins belong together, whatever ends a login.                            *)
THEOREM TablesConsistent == Spec => []Consistent
<1>1. IInv => Consistent
  BY DEF IInv, Consistent
<1> QED
  BY <1>1, Invariance, PTL

(* Type correctness of the socket, peer and user tables. *)
THEOREM TypeCorrect == Spec => []TypeOK
<1>1. IInv => TypeOK
  BY DEF IInv
<1> QED
  BY <1>1, Invariance, PTL

(* Peer slots and pending sockets correspond one to one: the nested          *)
(* erasepeer() / killsocket() calls leak no slot and share none.             *)
THEOREM PeersMatch == Spec => []PeersMatchSockets
<1>1. IInv => PeersMatchSockets
  BY DEF IInv
<1> QED
  BY <1>1, Invariance, PTL

(* The insock of a main user is always one of that user's own live clients,  *)
(* however the clients of the group come and go; that it is one of them       *)
(* while there are any holds until an admin's BRAW of a QUIT clears it.       *)
THEOREM InsockIsClient == Spec => []MainInsock
<1>1. IInv => MainInsock
  BY DEF IInv
<1> QED
  BY <1>1, Invariance, PTL

(* instate says whether a client is attached, which is what decides whether  *)
(* a private message is logged: CONN with no client is possible only where   *)
(* an admin's BQUIT set it, a client without CONN only where an admin's BRAW  *)
(* of a QUIT cleared it.                                                     *)
THEOREM InstateIsExact == Spec => []InstateExact
<1>1. IInv => InstateExact
  BY DEF IInv
<1> QED
  BY <1>1, Invariance, PTL

(* A socket becomes a client of u only through the first login or through a  *)
(* login that found u not locked.                                            *)
LEMMA NewClientStep ==
    ASSUME IInv, [Next]_vars, NEW u \in Mains, NEW f \in Fds,
           sock'[f].kind = "client", sock'[f].param = u, ~IsClient(f, u)
    PROVE  \/ nousers
           \/ \E rnd \in 0 .. LockRand - 1 : ~Locked(u, rnd)
<1>1. sock'[f] # sock[f] /\ sock'[f] # NoSock
  BY DEF IsClient, NoSock
<1>2. \A F : sock' # Closed(F)
  BY <1>1 DEF Closed
<1>3. ASSUME NEW h \in Hosts PROVE ~acceptcb(h)
  BY <1>1, NewFdFree DEF acceptcb, checknewlistener, IInv, TypeOK
<1>4. ASSUME NEW g \in Fds PROVE ~killsocket(g)
  BY <1>2 DEF killsocket, killPeer, erasepeer, killRemapped, killLast, quitclient
<1>5. ASSUME NEW g \in Fds, NEW v \in Users
      PROVE  /\ ~otherline(g, v) /\ ~cmdquit(g, v)
             /\ \A w \in Users : ~cmdbraw(g, v, w) /\ ~cmdbkill(g, v, w) /\ ~cmdbquit(g, v, w)
  <2>1. ~otherline(g, v) /\ \A w \in Users : ~cmdbquit(g, v, w)
    BY <1>1 DEF otherline, cmdbquit
  <2>2. \A w \in Users : ~cmdbkill(g, v, w)
    BY <1>2 DEF cmdbkill
  <2>3. \A us : ~QuitOneOf(us, g) /\ \A w : ~QuitAll(us, g, w)
    BY <1>2 DEF QuitOneOf, QuitAll, killRemapped, quitclient
  <2> QED
    BY <2>1, <2>2, <2>3 DEF cmdquit, cmdbraw
<1>6. ~cmdrehash /\ ~Tick /\ ~UNCHANGED vars /\ \A v : ~useroutbound(v)
  BY <1>1 DEF cmdrehash, Tick, vars, useroutbound
<1>7. PICK p \in Peers : Line(p)
  BY <1>3, <1>4, <1>5, <1>6 DEF Next
<1>8. PICK r : checkoldlistener(p, r)
  BY <1>7 DEF Line
<1>9. PICK c : linkpeer(p, c)
  BY <1>1, <1>2, <1>8 DEF checkoldlistener, erasepeer
<1>10. CASE linkpeerFirst(p, c)
  BY <1>10 DEF linkpeerFirst
<1>11. CASE linkpeerUnknown(p, c)
  BY <1>2, <1>11 DEF linkpeerUnknown, erasepeer
<1>12. ASSUME NEW v \in Mains, linkpeerWrong(p, c, v) PROVE FALSE
  BY <1>2, <1>12 DEF linkpeerWrong, erasepeer
<1>13. ASSUME NEW v \in Mains, NEW rnd \in 0 .. LockRand - 1, linkpeerLocked(p, c, v, rnd)
       PROVE  FALSE
  BY <1>2, <1>13 DEF linkpeerLocked, erasepeer
<1>14. ASSUME NEW v \in Mains, NEW rnd \in 0 .. LockRand - 1, linkpeerLogin(p, c, v, rnd)
       PROVE  ~Locked(u, rnd)
  <2>1. sock' = [sock EXCEPT ![peer[p].insock] = [kind |-> "client", param |-> v, group |-> v]]
    BY <1>14 DEF linkpeerLogin, Adopt
  <2>2. v = u
    BY <1>1, <2>1 DEF IInv, TypeOK
  <2> QED
    BY <1>14, <2>2 DEF linkpeerLogin
<1> QED
  BY <1>9, <1>10, <1>11, <1>12, <1>13, <1>14 DEF linkpeer

(* The lockout holds for every user: during LockTime seconds after more than *)
(* MaxPenalty wrong passwords no step gives the user a new client.           *)
THEOREM LockoutIsKept == Spec => LockoutHolds
<1> DEFINE Kept == \A u \in Mains, f \in Fds :
                      (sock'[f].kind = "client" /\ sock'[f].param = u /\ ~IsClient(f, u)) =>
                         ~(user[u].penalty > MaxPenalty /\ user[u].pentime < LockTime)
<1>1. IInv /\ [Next]_vars => [Kept]_vars
  <2> SUFFICES ASSUME IInv, [Next]_vars, NEW u \in Mains, NEW f \in Fds,
                      sock'[f].kind = "client", sock'[f].param = u, ~IsClient(f, u)
               PROVE  ~(user[u].penalty > MaxPenalty /\ user[u].pentime < LockTime)
    OBVIOUS
  <2>1. u \in Users /\ user[u].penalty \in Nat /\ user[u].pentime \in Int
    BY MainsAreUsers DEF IInv, TypeOK, User
  <2>2. CASE nousers
    BY <2>1, <2>2, ClientSessionAssumption DEF IInv, FreshUnlocked
  <2>3. ASSUME NEW rnd \in 0 .. LockRand - 1, ~Locked(u, rnd)
        PROVE  ~(user[u].penalty > MaxPenalty /\ user[u].pentime < LockTime)
    BY <2>1, <2>3, ClientSessionAssumption DEF Locked
  <2> QED
    BY <2>2, <2>3, NewClientStep
<1> QED
  BY <1>1, Invariance, PTL DEF Spec, LockoutHolds
=============================================================================
