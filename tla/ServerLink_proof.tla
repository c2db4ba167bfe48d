-------------------------- MODULE ServerLink_proof --------------------------
(***************************************************************************)
(* Proofs about ServerLink, for any number of users, descriptors and server *)
(* slots and any values of the delays.                                      *)
(***************************************************************************)
EXTENDS ServerLink, FiniteSetsExt, WellFoundedInduction, TLAPS

-----------------------------------------------------------------------------
(* Numbers and lists *)

(* A nonempty set of naturals has a least element. *)
LEMMA LeastNatural ==
    ASSUME NEW T, T \subseteq Nat, T # {}
    PROVE  \E x \in T : \A y \in T : x <= y
<1>1. PICK R : R = OpToRel(<, Nat)
  BY Zenon
<1>2. IsWellFoundedOn(R, Nat)
  BY <1>1, NatLessThanWellFounded, Zenon
<1>3. \A x, y \in Nat : x < y => <<x, y>> \in R
  BY <1>1 DEF OpToRel
<1>4. PICK x \in T : \A y \in T : ~ (<<y, x>> \in R)
  BY <1>2, WFMin, Zenon
<1>5. \A y \in T : x <= y
  <2> TAKE y \in T
  <2>1. x \in Nat /\ y \in Nat
    BY <1>4
  <2>2. ~ (y < x)
    BY <1>3, <1>4, <2>1
  <2> QED
    BY <2>1, <2>2
<1> QED
  BY <1>4, <1>5

(* Min picks an element of a nonempty set of naturals, so a descriptor or   *)
(* slot chosen with it is a free one.                                       *)
LEMMA MinMember ==
    ASSUME NEW T, T \subseteq Nat, T # {}
    PROVE  Min(T) \in T /\ \A y \in T : Min(T) <= y
BY LeastNatural DEF Min

(* Max picks an element of a set that has a greatest one. *)
LEMMA MaxMember ==
    ASSUME NEW T, \E x \in T : \A y \in T : x >= y
    PROVE  Max(T) \in T /\ \A y \in T : Max(T) >= y
BY DEF Max

-----------------------------------------------------------------------------
(* A user that has quit is not marked connected. *)
QuitNotConnected ==
    \A u \in Users : user[u].quitted => user[u].outstate = "NOCON"

(* The inductive invariant.  QuitStaysOff speaks of sockets and is inductive *)
(* only together with SocketOwned; AttemptsSpaced needs that the static      *)
(* lastconnect of connectuser is the age of the last socket created.         *)
IInv ==
    /\ TypeOK
    /\ SocketOwned
    /\ QuitNotConnected
    /\ lastconnect = quiet

-----------------------------------------------------------------------------
(* Helpers *)

(* The descriptor of a new connection attempt is a free one. *)
LEMMA NewFdFree ==
    ASSUME TypeOK, FreeFds # {}
    PROVE  NewFd \in Fds /\ sock[NewFd] = NoSock
<1>1. FreeFds \subseteq Nat
  BY ServerLinkAssumption DEF FreeFds
<1>2. NewFd \in FreeFds
  BY <1>1, MinMember DEF NewFd
<1> QED
  BY <1>2 DEF FreeFds

(* getnextserver yields a configured slot whenever one exists. *)
LEMMA NextServerConfigured ==
    ASSUME NEW u \in Users, Configured(u) # {}
    PROVE  getnextserver(u) \in Slots
<1> DEFINE S == Configured(u)
           later == {n \in S : n > user[u].currentserver}
           pool == IF later # {} THEN later ELSE S
<1>1. pool \subseteq Slots /\ pool # {}
  BY DEF Configured
<1>2. pool \subseteq Nat
  BY <1>1 DEF Slots
<1>3. Min(pool) \in pool
  BY <1>1, <1>2, MinMember
<1> QED
  BY <1>1, <1>3 DEF getnextserver

(* The age at which clocks saturate is the largest connect delay. *)
LEMMA MaxAgeNat == MaxAge \in Delays /\ MaxAge \in Nat
<1>1. \E n \in Delays : \A d \in Delays : n >= d
  BY ServerLinkAssumption
<1> QED
  BY <1>1, MaxMember, ServerLinkAssumption DEF MaxAge

(* What the helpers make of a user record is a user record. *)
LEMMA DisconnectedType ==
    ASSUME NEW r \in User
    PROVE  /\ Disconnected(r) \in User
           /\ Disconnected(r).quitted = r.quitted
           /\ Disconnected(r).outstate = "NOCON"
           /\ Disconnected(r).outsock = r.outsock
<1>1. Disconnected(r).quitted = r.quitted
  BY DEF Disconnected, User, Never
<1>2. Disconnected(r).outstate = "NOCON"
  BY DEF Disconnected, User, Never
<1>3. Disconnected(r).outsock = r.outsock
  BY DEF Disconnected, User, Never
<1>4. [r EXCEPT !.outstate = "NOCON"] \in User
  BY DEF User
<1>5. ASSUME NEW x \in User PROVE [x EXCEPT !.pinged = FALSE] \in User
  BY DEF User
<1>6. ASSUME NEW x \in User PROVE [x EXCEPT !.pingtime = Never] \in User
  BY DEF User, Never
<1> QED
  BY <1>1, <1>2, <1>3, <1>4, <1>5, <1>6 DEF Disconnected

(* connectuser() returning 0 leaves a user record. *)
LEMMA SkippedType ==
    ASSUME TypeOK, NEW v \in Users, NEW inc \in {0, 1}
    PROVE  /\ Skipped(v, inc) \in User
           /\ Skipped(v, inc).quitted = user[v].quitted
           /\ Skipped(v, inc).outstate = user[v].outstate
           /\ user[v].outstate = "CONN" => Skipped(v, inc) = user[v]
<1> DEFINE r == user[v]
<1>1. r \in User
  BY DEF TypeOK
<1>2. CASE ~Due(v)
  BY <1>1, <1>2 DEF Skipped
<1>3. CASE Due(v) /\ r.delayed > 0
  <2>1. r.delayed - inc \in Nat
    BY <1>1, <1>3 DEF User
  <2> QED
    BY <1>1, <1>3, <2>1 DEF Skipped, User, Due
<1>4. CASE Due(v) /\ ~(r.delayed > 0) /\ Configured(v) = {}
  BY <1>1, <1>4, ServerLinkAssumption DEF Skipped, User, Due
<1>5. CASE Due(v) /\ ~(r.delayed > 0) /\ Configured(v) # {}
  <2>1. getnextserver(v) \in 0 .. MaxServer
    BY <1>5, NextServerConfigured, ServerLinkAssumption DEF Slots
  <2> QED
    BY <1>1, <1>5, <2>1, ServerLinkAssumption DEF Skipped, User, Due
<1> QED
  BY <1>2, <1>3, <1>4, <1>5

-----------------------------------------------------------------------------
(* Killing a socket *)

(* killsocket() with its nested destructor: of the sockets only f goes, and  *)
(* of the user records only the one that owned f changes.                    *)
LEMMA KillFacts ==
    ASSUME TypeOK, SocketOwned, NEW f \in Fds \cup {0},
           NEW us \in [Users -> User]
    PROVE  /\ SockAfterKill(f) \in [Fds -> Sock \cup {NoSock}]
           /\ \A g \in Fds : SockAfterKill(f)[g] # NoSock =>
                 /\ g # f
                 /\ sock[g] = SockAfterKill(f)[g]
                 /\ UserAfterKill(us, f)[sock[g].owner] = us[sock[g].owner]
           /\ UserAfterKill(us, f) \in [Users -> User]
           /\ \A v \in Users :
                 /\ UserAfterKill(us, f)[v].quitted = us[v].quitted
                 /\ UserAfterKill(us, f)[v].outstate \in {us[v].outstate, "NOCON"}
<1>1. CASE ~Live(f)
  <2>1. SockAfterKill(f) = sock /\ UserAfterKill(us, f) = us
    BY <1>1 DEF SockAfterKill, UserAfterKill
  <2>2. \A g \in Fds : sock[g] # NoSock => g # f
    BY <1>1 DEF Live
  <2> QED
    BY <2>1, <2>2 DEF TypeOK
<1>2. CASE Live(f)
  <2> DEFINE o == sock[f].owner
  <2>1. f \in Fds /\ o \in Users /\ user[o].outsock = f
    BY <1>2 DEF Live, TypeOK, SocketOwned, Sock
  <2>2. SockAfterKill(f) = [g \in Fds |-> IF g = f THEN NoSock ELSE sock[g]]
    BY <1>2, <2>1 DEF SockAfterKill, Closed
  <2>3. UserAfterKill(us, f) = [us EXCEPT ![o] = Disconnected(us[o])]
    BY <1>2 DEF UserAfterKill
  <2>4. /\ Disconnected(us[o]) \in User
        /\ Disconnected(us[o]).quitted = us[o].quitted
        /\ Disconnected(us[o]).outstate = "NOCON"
    BY <2>1, DisconnectedType
  <2>5. ASSUME NEW g \in Fds, SockAfterKill(f)[g] # NoSock
        PROVE  g # f /\ sock[g] = SockAfterKill(f)[g] /\ sock[g].owner # o
    BY <2>1, <2>2, <2>5 DEF SocketOwned
  <2>6. SockAfterKill(f) \in [Fds -> Sock \cup {NoSock}]
    BY <2>2 DEF TypeOK
  <2>7. UserAfterKill(us, f) \in [Users -> User]
    BY <2>3, <2>4
  <2>8. \A v \in Users :
          /\ UserAfterKill(us, f)[v].quitted = us[v].quitted
          /\ UserAfterKill(us, f)[v].outstate \in {us[v].outstate, "NOCON"}
    <3> TAKE v \in Users
    <3>1. CASE v = o
      BY <2>3, <2>4, <3>1
    <3>2. CASE v # o
      BY <2>3, <3>2
    <3> QED
      BY <3>1, <3>2
  <2>9. ASSUME NEW g \in Fds, SockAfterKill(f)[g] # NoSock
        PROVE  UserAfterKill(us, f)[sock[g].owner] = us[sock[g].owner]
    <3>1. sock[g].owner \in Users
      BY <2>5, <2>9 DEF TypeOK, Sock
    <3> QED
      BY <2>3, <2>5, <2>9, <3>1
  <2> QED
    BY <2>5, <2>6, <2>7, <2>8, <2>9
<1> QED
  BY <1>1, <1>2

(* A step that leaves the configuration and the clocks alone keeps the       *)
(* invariant if it keeps the types, the quitted users and the socket owners. *)
LEMMA RestUnchanged ==
    ASSUME IInv, UNCHANGED Rest,
           user' \in [Users -> User],
           sock' \in [Fds -> Sock \cup {NoSock}],
           \A v \in Users : user'[v].quitted => user'[v].outstate = "NOCON",
           \A g \in Fds : sock'[g] # NoSock =>
              user'[sock'[g].owner].outsock = g /\ user'[sock'[g].owner].outstate = "CONN"
    PROVE  IInv'
BY DEF IInv, TypeOK, SocketOwned, QuitNotConnected, Rest

(* A change of fields that are no concern of the invariant. *)
LEMMA Harmless ==
    ASSUME IInv, UNCHANGED <<sock, Rest>>, user' \in [Users -> User],
           \A v \in Users : /\ user'[v].quitted => user[v].quitted
                            /\ user'[v].outstate = user[v].outstate
                            /\ user'[v].outsock = user[v].outsock
    PROVE  IInv'
<1>1. \A g \in Fds : sock[g] # NoSock => sock[g].owner \in Users
  BY DEF IInv, TypeOK, Sock
<1> QED
  BY <1>1 DEF IInv, TypeOK, SocketOwned, QuitNotConnected, Rest

(* An established connection keeps its owner. *)
LEMMA userconnectedKeeps == ASSUME IInv, NEW f \in Fds, userconnected(f) PROVE IInv'
<1> DEFINE o == sock[f].owner
           r == [user[o] EXCEPT !.pinged = FALSE]
           k == [sock[f] EXCEPT !.flag = "CONN"]
<1>1. sock[f] \in Sock /\ o \in Users /\ user[o] \in User
  BY DEF userconnected, Live, IInv, TypeOK, Sock
<1>2. r \in User /\ r.quitted = user[o].quitted /\ r.outstate = user[o].outstate
        /\ r.outsock = user[o].outsock
  BY <1>1 DEF User
<1>3. ASSUME NEW x \in User
      PROVE  LET y == [x EXCEPT !.pingtime = Never]
             IN  y \in User /\ y.quitted = x.quitted /\ y.outstate = x.outstate
                   /\ y.outsock = x.outsock
  BY DEF User, Never
<1>4. user' = [user EXCEPT ![o] = [r EXCEPT !.pingtime = Never]]
  BY <1>1 DEF userconnected, IInv, TypeOK
<1>5. k \in Sock /\ k.owner = o
  BY <1>1 DEF Sock
<1>6. sock' = [sock EXCEPT ![f] = k]
  BY DEF userconnected
<1>7. user' \in [Users -> User]
  BY <1>1, <1>2, <1>3, <1>4 DEF IInv, TypeOK
<1>8. \A v \in Users : /\ user'[v].quitted = user[v].quitted
                       /\ user'[v].outstate = user[v].outstate
                       /\ user'[v].outsock = user[v].outsock
  BY <1>1, <1>2, <1>3, <1>4 DEF IInv, TypeOK
<1>9. sock' \in [Fds -> Sock \cup {NoSock}]
  BY <1>5, <1>6 DEF IInv, TypeOK
<1>10. \A g \in Fds : sock'[g] # NoSock =>
          /\ sock[g] # NoSock
          /\ sock'[g].owner = sock[g].owner /\ sock[g].owner \in Users
  BY <1>1, <1>5, <1>6 DEF IInv, TypeOK, Sock, userconnected, Live
<1>11. \A g \in Fds : sock'[g] # NoSock =>
          user'[sock'[g].owner].outsock = g /\ user'[sock'[g].owner].outstate = "CONN"
  BY <1>8, <1>10 DEF IInv, SocketOwned
<1>12. \A v \in Users : user'[v].quitted => user'[v].outstate = "NOCON"
  BY <1>8 DEF IInv, QuitNotConnected
<1> QED
  BY <1>7, <1>9, <1>11, <1>12, RestUnchanged DEF userconnected

(* Killing the socket f, with `us` the user table at the time of the call.   *)
LEMMA KillKeeps ==
    ASSUME IInv, NEW f \in Fds \cup {0}, NEW us \in [Users -> User],
           \A v \in Users : /\ us[v].quitted => user[v].quitted
                            /\ us[v].outstate = user[v].outstate
                            /\ us[v].outsock = user[v].outsock,
           sock' = SockAfterKill(f), user' = UserAfterKill(us, f), UNCHANGED Rest
    PROVE  IInv'
<1>1. user' \in [Users -> User] /\ sock' \in [Fds -> Sock \cup {NoSock}]
  BY KillFacts DEF IInv
<1>2. \A v \in Users : user'[v].quitted => user'[v].outstate = "NOCON"
  BY KillFacts DEF IInv, QuitNotConnected
<1>3. ASSUME NEW g \in Fds, sock'[g] # NoSock
      PROVE  user'[sock'[g].owner].outsock = g /\ user'[sock'[g].owner].outstate = "CONN"
  <2>1. sock'[g] = sock[g] /\ user'[sock[g].owner] = us[sock[g].owner]
    BY <1>3, KillFacts DEF IInv
  <2>2. sock[g].owner \in Users
    BY <1>3, <2>1 DEF IInv, TypeOK, Sock
  <2> QED
    BY <1>3, <2>1, <2>2 DEF IInv, SocketOwned
<1> QED
  BY <1>1, <1>2, <1>3, RestUnchanged

(* The error handler closes the socket and disconnects its owner. *)
LEMMA usererrorKeeps == ASSUME IInv, NEW f \in Fds, Live(f), usererror(f) PROVE IInv'
<1> DEFINE o == sock[f].owner
<1>1. o \in Users /\ user[o].outsock = f
  BY DEF Live, IInv, TypeOK, Sock, SocketOwned
<1>2. sock' = SockAfterKill(f) /\ user' = UserAfterKill(user, f) /\ UNCHANGED Rest
  BY <1>1 DEF usererror, SockAfterKill, UserAfterKill
<1>3. user \in [Users -> User]
  BY DEF IInv, TypeOK
<1> QED
  BY <1>2, <1>3, KillKeeps

(* A connection closed by the server disconnects its owner. *)
LEMMA RemoteCloseKeeps == ASSUME IInv, NEW f \in Fds, RemoteClose(f) PROVE IInv'
<1>1. user \in [Users -> User]
  BY DEF IInv, TypeOK
<1> QED
  BY <1>1, KillKeeps DEF RemoteClose

(* The welcome of the server changes no ownership. *)
LEMMA msg001Keeps == ASSUME IInv, NEW f \in Fds, msg001(f) PROVE IInv'
<1> DEFINE o == sock[f].owner
           r == [user[o] EXCEPT !.welcome = TRUE]
<1>1. o \in Users /\ user[o] \in User
  BY DEF msg001, Live, IInv, TypeOK, Sock
<1>2. r \in User /\ r.quitted = user[o].quitted /\ r.outstate = user[o].outstate
        /\ r.outsock = user[o].outsock
  BY <1>1 DEF User
<1>3. user' = [user EXCEPT ![o] = r]
  BY DEF msg001
<1> QED
  BY <1>1, <1>2, <1>3, Harmless DEF msg001, IInv, TypeOK

(* PONG changes the stone check only. *)
LEMMA msgPONGKeeps == ASSUME IInv, NEW f \in Fds, msgPONG(f) PROVE IInv'
<1> DEFINE o == sock[f].owner
           r == [user[o] EXCEPT !.pinged = FALSE]
           q == [r EXCEPT !.pingtime = 0]
<1>1. o \in Users /\ user[o] \in User
  BY DEF msgPONG, Live, IInv, TypeOK, Sock
<1>2. r \in User /\ r.quitted = user[o].quitted /\ r.outstate = user[o].outstate
        /\ r.outsock = user[o].outsock
  BY <1>1 DEF User
<1>3. q \in User /\ q.quitted = r.quitted /\ q.outstate = r.outstate /\ q.outsock = r.outsock
  <2> HIDE DEF r
  <2> QED
    BY <1>2 DEF User
<1>4. user' = [user EXCEPT ![o] = q]
  BY <1>1 DEF msgPONG, IInv, TypeOK
<1> QED
  BY <1>1, <1>2, <1>3, <1>4, Harmless DEF msgPONG, IInv, TypeOK

(* ERROR closes outsock with the destructor cleared, and forgets it. *)
LEMMA msgERRORKeeps == ASSUME IInv, NEW f \in Fds, msgERROR(f) PROVE IInv'
<1> DEFINE o == sock[f].owner
           r == [user[o] EXCEPT !.outstate = "NOCON"]
           q == [r EXCEPT !.outsock = 0]
<1>1. o \in Users /\ user[o] \in User /\ user[o].outsock = f
  BY DEF msgERROR, Live, IInv, TypeOK, Sock, SocketOwned
<1>2. r \in User /\ r.quitted = user[o].quitted /\ r.outstate = "NOCON"
  BY <1>1 DEF User
<1>3. q \in User /\ q.quitted = r.quitted /\ q.outstate = r.outstate
  <2> HIDE DEF r
  <2> QED
    BY <1>2 DEF User
<1>4. user' = [user EXCEPT ![o] = q]
  BY <1>1 DEF msgERROR, IInv, TypeOK
<1>5. sock' = [g \in Fds |-> IF g = f THEN NoSock ELSE sock[g]]
  BY <1>1 DEF msgERROR, Closed
<1>6. user' \in [Users -> User] /\ sock' \in [Fds -> Sock \cup {NoSock}]
  BY <1>1, <1>3, <1>4, <1>5 DEF IInv, TypeOK
<1>7. \A v \in Users : user'[v].quitted => user'[v].outstate = "NOCON"
  BY <1>1, <1>2, <1>3, <1>4 DEF IInv, TypeOK, QuitNotConnected
<1>8. ASSUME NEW g \in Fds, sock'[g] # NoSock
      PROVE  user'[sock'[g].owner].outsock = g /\ user'[sock'[g].owner].outstate = "CONN"
  <2>1. g # f /\ sock'[g] = sock[g]
    BY <1>5, <1>8
  <2>2. sock[g].owner \in Users /\ sock[g].owner # o
    BY <1>1, <1>8, <2>1 DEF IInv, TypeOK, Sock, SocketOwned
  <2> QED
    BY <1>4, <1>8, <2>1, <2>2 DEF IInv, TypeOK, SocketOwned
<1> QED
  BY <1>6, <1>7, <1>8, RestUnchanged DEF msgERROR

(* The stone check pings, or kills the connection through outsock. *)
LEMMA checkstonednickKeeps == ASSUME IInv, NEW u \in Users, checkstonednick(u) PROVE IInv'
<1> DEFINE down == [user[u] EXCEPT !.pinged = FALSE]
           off == [down EXCEPT !.pingtime = Never]
           up == [user[u] EXCEPT !.pinged = TRUE]
           on == [up EXCEPT !.pingtime = 0]
<1>1. user \in [Users -> User] /\ user[u] \in User /\ user[u].outsock \in Fds \cup {0}
  BY DEF IInv, TypeOK, User
<1>2. CASE user[u].pinged
  <2>1. down \in User /\ down.quitted = user[u].quitted /\ down.outstate = user[u].outstate
          /\ down.outsock = user[u].outsock
    BY <1>1 DEF User
  <2>2. off \in User /\ off.quitted = down.quitted /\ off.outstate = down.outstate
          /\ off.outsock = down.outsock
    <3> HIDE DEF down
    <3> QED
      BY <2>1 DEF User, Never
  <2>3. [user EXCEPT ![u].pinged = FALSE, ![u].pingtime = Never] = [user EXCEPT ![u] = off]
    BY <1>1
  <2>4. sock' = SockAfterKill(user[u].outsock)
          /\ user' = UserAfterKill([user EXCEPT ![u] = off], user[u].outsock) /\ UNCHANGED Rest
    BY <1>2, <2>3 DEF checkstonednick
  <2>5. [user EXCEPT ![u] = off] \in [Users -> User]
    BY <1>1, <2>2
  <2>6. \A v \in Users :
           /\ [user EXCEPT ![u] = off][v].quitted => user[v].quitted
           /\ [user EXCEPT ![u] = off][v].outstate = user[v].outstate
           /\ [user EXCEPT ![u] = off][v].outsock = user[v].outsock
    BY <1>1, <2>1, <2>2
  <2> QED
    BY <1>1, <2>4, <2>5, <2>6, KillKeeps
<1>3. CASE ~user[u].pinged
  <2>1. up \in User /\ up.quitted = user[u].quitted /\ up.outstate = user[u].outstate
          /\ up.outsock = user[u].outsock
    BY <1>1 DEF User
  <2>2. on \in User /\ on.quitted = up.quitted /\ on.outstate = up.outstate
          /\ on.outsock = up.outsock
    <3> HIDE DEF up
    <3> QED
      BY <2>1 DEF User
  <2>3. user' = [user EXCEPT ![u] = on] /\ UNCHANGED <<sock, Rest>>
    BY <1>1, <1>3 DEF checkstonednick
  <2> QED
    BY <1>1, <2>1, <2>2, <2>3, Harmless
<1> QED
  BY <1>2, <1>3

(* BQUIT kills outsock, which may be stale, before quitted can matter. *)
LEMMA cmdbquitKeeps == ASSUME IInv, NEW u \in Users, cmdbquit(u) PROVE IInv'
<1> DEFINE f == user[u].outsock
           q == [user[u] EXCEPT !.quitted = TRUE]
           quit == [user EXCEPT ![u] = q]
<1>1. user \in [Users -> User] /\ user[u] \in User /\ f \in Fds \cup {0}
  BY DEF IInv, TypeOK, User
<1>2. q \in User /\ q.outstate = user[u].outstate /\ q.outsock = f
  BY <1>1 DEF User
<1>3. quit \in [Users -> User] /\ \A v \in Users : v # u => quit[v] = user[v]
  BY <1>1, <1>2
<1>4. CASE user[u].outstate = "CONN"
  <2> DEFINE K == UserAfterKill(quit, f)
             r == [K[u] EXCEPT !.outstate = "NOCON"]
             z == [r EXCEPT !.outsock = 0]
  <2>1. TypeOK /\ SocketOwned
    BY DEF IInv
  <2>2. sock' = SockAfterKill(f) /\ UNCHANGED Rest
    BY <1>4 DEF cmdbquit
  <2>3. K \in [Users -> User] /\ \A v \in Users : /\ K[v].quitted = quit[v].quitted
                                                  /\ K[v].outstate \in {quit[v].outstate, "NOCON"}
    BY <1>1, <1>3, <2>1, KillFacts
  <2>4. r \in User /\ r.outstate = "NOCON"
    <3> HIDE DEF K
    <3> QED
      BY <2>3 DEF User
  <2>5. z \in User /\ z.outstate = "NOCON"
    <3> HIDE DEF r
    <3> QED
      BY <2>4 DEF User
  <2>6. user' = [K EXCEPT ![u] = z]
    <3>1. user' = [K EXCEPT ![u].outstate = "NOCON", ![u].outsock = 0]
      BY <1>4 DEF cmdbquit
    <3> HIDE DEF K
    <3> QED
      BY <2>3, <3>1
  <2>7. user' \in [Users -> User] /\ sock' \in [Fds -> Sock \cup {NoSock}]
    <3>1. sock' \in [Fds -> Sock \cup {NoSock}]
      BY <1>1, <1>3, <2>1, <2>2, KillFacts
    <3> HIDE DEF K, z
    <3> QED
      BY <2>3, <2>5, <2>6, <3>1
  <2>8. \A v \in Users : user'[v].quitted => user'[v].outstate = "NOCON"
    <3> TAKE v \in Users
    <3>1. CASE v = u
      <4> HIDE DEF K, z
      <4> QED
        BY <2>3, <2>5, <2>6, <3>1
    <3>2. CASE v # u
      <4>1. user'[v] = K[v] /\ quit[v] = user[v]
        <5> HIDE DEF K, z
        <5> QED
          BY <1>1, <2>3, <2>6, <3>2
      <4> QED
        BY <2>3, <4>1 DEF IInv, QuitNotConnected
    <3> QED
      BY <3>1, <3>2
  <2>9. \A g \in Fds : SockAfterKill(f)[g] # NoSock =>
            g # f /\ sock[g] = SockAfterKill(f)[g] /\ K[sock[g].owner] = quit[sock[g].owner]
    <3>1. \A us \in [Users -> User] : \A g \in Fds : SockAfterKill(f)[g] # NoSock =>
            g # f /\ sock[g] = SockAfterKill(f)[g]
              /\ UserAfterKill(us, f)[sock[g].owner] = us[sock[g].owner]
      BY <1>1, <2>1, KillFacts
    <3> HIDE DEF f, quit
    <3> QED
      BY <1>3, <3>1
  <2>10. ASSUME NEW g \in Fds, sock'[g] # NoSock
        PROVE  user'[sock'[g].owner].outsock = g /\ user'[sock'[g].owner].outstate = "CONN"
    <3>1. g # f /\ sock'[g] = sock[g] /\ K[sock[g].owner] = quit[sock[g].owner]
      BY <2>2, <2>10, <2>9
    <3>2. /\ sock[g].owner \in Users /\ sock[g].owner # u
          /\ user[sock[g].owner].outsock = g /\ user[sock[g].owner].outstate = "CONN"
      BY <2>1, <2>10, <3>1 DEF TypeOK, SocketOwned, Sock
    <3>3. user'[sock[g].owner] = user[sock[g].owner]
      <4> HIDE DEF K, z
      <4> QED
        BY <1>3, <2>3, <2>6, <3>1, <3>2
    <3> QED
      BY <3>1, <3>2, <3>3
  <2> QED
    BY <2>2, <2>7, <2>8, <2>10, RestUnchanged
<1>5. CASE user[u].outstate # "CONN"
  <2>1. user' = quit /\ sock' = sock /\ UNCHANGED Rest
    BY <1>5 DEF cmdbquit
  <2>2. \A v \in Users : quit[v].outstate = user[v].outstate /\ quit[v].outsock = user[v].outsock
    BY <1>1, <1>2
  <2>3. user[u].outstate = "NOCON"
    BY <1>1, <1>5 DEF User
  <2>4. \A v \in Users : user'[v].quitted => user'[v].outstate = "NOCON"
    BY <1>1, <1>2, <2>1, <2>3 DEF IInv, QuitNotConnected
  <2>5. ASSUME NEW g \in Fds, sock'[g] # NoSock
        PROVE  user'[sock'[g].owner].outsock = g /\ user'[sock'[g].owner].outstate = "CONN"
    <3>1. sock[g].owner \in Users
      BY <2>1, <2>5 DEF IInv, TypeOK, Sock
    <3> QED
      BY <2>1, <2>2, <2>5, <3>1 DEF IInv, SocketOwned
  <2>6. sock' \in [Fds -> Sock \cup {NoSock}]
    BY <2>1 DEF IInv, TypeOK
  <2> QED
    BY <1>3, <2>1, <2>4, <2>5, <2>6, RestUnchanged
<1> QED
  BY <1>4, <1>5

(* BCONNECT only takes back quitted. *)
LEMMA cmdbconnectKeeps == ASSUME IInv, NEW u \in Users, cmdbconnect(u) PROVE IInv'
<1> DEFINE r == [user[u] EXCEPT !.quitted = FALSE]
           z == [r EXCEPT !.delayed = 0]
<1>1. user \in [Users -> User] /\ user[u] \in User
  BY DEF IInv, TypeOK
<1>2. r \in User /\ ~r.quitted /\ r.outstate = user[u].outstate /\ r.outsock = user[u].outsock
  BY <1>1 DEF User
<1>3. z \in User /\ z.quitted = r.quitted /\ z.outstate = r.outstate /\ z.outsock = r.outsock
  <2> HIDE DEF r
  <2> QED
    BY <1>2 DEF User
<1>4. user' = [user EXCEPT ![u] = z] /\ UNCHANGED <<sock, Rest>>
  BY <1>1 DEF cmdbconnect
<1>5. \A v \in Users : /\ user'[v].quitted => user[v].quitted
                       /\ user'[v].outstate = user[v].outstate
                       /\ user'[v].outsock = user[v].outsock
  <2> HIDE DEF z
  <2> QED
    BY <1>1, <1>2, <1>3, <1>4
<1> QED
  BY <1>1, <1>3, <1>4, <1>5, Harmless

(* JUMP kills outsock after moving currentserver. *)
LEMMA cmdjumpKeeps ==
    ASSUME IInv, NEW u \in Users, NEW n \in 0 .. MaxServer, cmdjump(u, n)
    PROVE  IInv'
<1> DEFINE c == IF n = 0 THEN user[u].currentserver ELSE n - 1
           r == [user[u] EXCEPT !.currentserver = c]
           us == [user EXCEPT ![u] = r]
<1>1. user \in [Users -> User] /\ user[u] \in User /\ user[u].outsock \in Fds \cup {0}
  BY DEF IInv, TypeOK, User
<1>2. c \in 0 .. MaxServer
  BY <1>1, ServerLinkAssumption DEF User
<1>3. r \in User /\ r.quitted = user[u].quitted /\ r.outstate = user[u].outstate
        /\ r.outsock = user[u].outsock
  <2> HIDE DEF c
  <2> QED
    BY <1>1, <1>2 DEF User
<1>4. us \in [Users -> User] /\ \A v \in Users : /\ us[v].quitted => user[v].quitted
                                                 /\ us[v].outstate = user[v].outstate
                                                 /\ us[v].outsock = user[v].outsock
  <2> HIDE DEF r
  <2> QED
    BY <1>1, <1>3
<1>5. sock' = SockAfterKill(user[u].outsock)
        /\ user' = UserAfterKill(us, user[u].outsock) /\ UNCHANGED Rest
  BY DEF cmdjump
<1> HIDE DEF us
<1> QED
  BY <1>1, <1>4, <1>5, KillKeeps

(* ADDSERVER fills the first free slot. *)
LEMMA cmdaddserverKeeps ==
    ASSUME IInv, NEW u \in Users, NEW kind \in {"ok", "port0"}, cmdaddserver(u, kind)
    PROVE  IInv'
<1> DEFINE free == {n \in Slots : n < 10 /\ servers[u][n] = "none"}
           r == [user[u] EXCEPT !.delayed = 0]
<1>1. user \in [Users -> User] /\ user[u] \in User
  BY DEF IInv, TypeOK
<1>2. r \in User /\ r.quitted = user[u].quitted /\ r.outstate = user[u].outstate
        /\ r.outsock = user[u].outsock
  BY <1>1 DEF User
<1>3. Min(free) \in Slots
  <2>1. free \subseteq Nat /\ free # {}
    BY DEF cmdaddserver, Slots
  <2> QED
    BY <2>1, MinMember
<1>4. servers' \in [Users -> [Slots -> {"none", "ok", "port0"}]]
  <2>1. servers' = [servers EXCEPT ![u][Min(free)] = kind]
    BY DEF cmdaddserver
  <2> HIDE DEF free
  <2> QED
    BY <1>3, <2>1 DEF IInv, TypeOK
<1>5. user' = [user EXCEPT ![u] = r]
        /\ UNCHANGED <<sock, connectdelay, lastusern, lastconnect, quiet>>
  BY DEF cmdaddserver
<1>6. user' \in [Users -> User]
        /\ \A v \in Users : /\ user'[v].quitted = user[v].quitted
                            /\ user'[v].outstate = user[v].outstate
                            /\ user'[v].outsock = user[v].outsock
  BY <1>1, <1>2, <1>5
<1>7. \A g \in Fds : sock[g] # NoSock => sock[g].owner \in Users
  BY DEF IInv, TypeOK, Sock
<1> QED
  BY <1>4, <1>5, <1>6, <1>7 DEF IInv, TypeOK, SocketOwned, QuitNotConnected

(* DELSERVER empties a slot, the current one too. *)
LEMMA cmddelserverKeeps ==
    ASSUME IInv, NEW u \in Users, NEW n \in Slots, cmddelserver(u, n)
    PROVE  IInv'
BY DEF cmddelserver, IInv, TypeOK, SocketOwned, QuitNotConnected

(* SETCONNECTDELAY changes no connection. *)
LEMMA cmdsetconnectdelayKeeps ==
    ASSUME IInv, NEW d \in Delays, cmdsetconnectdelay(d)
    PROVE  IInv'
BY DEF cmdsetconnectdelay, IInv, TypeOK, SocketOwned, QuitNotConnected

(* BREHASH closes every outgoing socket and disconnects the owners. *)
LEMMA cmdrehashKeeps == ASSUME IInv, cmdrehash PROVE IInv'
<1>1. user' \in [Users -> User]
        /\ \A v \in Users : user'[v].quitted => user'[v].outstate = "NOCON"
  BY DisconnectedType DEF cmdrehash, IInv, TypeOK, QuitNotConnected
<1>2. sock' \in [Fds -> Sock \cup {NoSock}] /\ \A g \in Fds : sock'[g] = NoSock
  BY DEF cmdrehash
<1> QED
  BY <1>1, <1>2, RestUnchanged DEF cmdrehash

(* lastconnect and quiet age together. *)
LEMMA TickKeeps == ASSUME IInv, Tick PROVE IInv'
<1>1. lastconnect' \in Nat /\ quiet' = lastconnect'
  BY MaxAgeNat DEF Tick, IInv, TypeOK, Older
<1>2. ASSUME NEW v \in Users
      PROVE  user'[v] \in User /\ user'[v].quitted = user[v].quitted
               /\ user'[v].outstate = user[v].outstate /\ user'[v].outsock = user[v].outsock
  <2> DEFINE t == Older(user[v].pingtime, MaxPing)
  <2>1. user[v] \in User
    BY <1>2 DEF IInv, TypeOK
  <2>2. t \in Int
    BY <2>1, ServerLinkAssumption DEF Older, User, MaxPing
  <2>3. user'[v] \in {user[v], [user[v] EXCEPT !.pingtime = t]}
    BY <1>2 DEF Tick
  <2> HIDE DEF t
  <2> QED
    BY <2>1, <2>2, <2>3 DEF User
<1>3. ASSUME NEW g \in Fds
      PROVE  /\ sock'[g] \in Sock \cup {NoSock}
             /\ sock'[g] # NoSock => sock[g] # NoSock
             /\ sock'[g].owner = sock[g].owner
  <2> DEFINE t == Older(sock[g].delay, SocTimeout + 1)
  <2>1. CASE sock[g].flag = "SYN"
    <3>1. sock[g] \in Sock
      BY <1>3, <2>1 DEF IInv, TypeOK, NoSock
    <3>2. t \in Nat
      BY <3>1, ServerLinkAssumption DEF Older, Sock
    <3>3. sock'[g] = [sock[g] EXCEPT !.delay = t]
      BY <1>3, <2>1 DEF Tick
    <3>4. sock[g] # NoSock
      BY <2>1 DEF NoSock
    <3> HIDE DEF t
    <3> QED
      BY <3>1, <3>2, <3>3, <3>4 DEF Sock
  <2>2. CASE sock[g].flag # "SYN"
    <3>1. sock'[g] = sock[g]
      BY <1>3, <2>2 DEF Tick
    <3> QED
      BY <1>3, <3>1 DEF IInv, TypeOK
  <2> QED
    BY <2>1, <2>2
<1>4. user' \in [Users -> User] /\ sock' \in [Fds -> Sock \cup {NoSock}]
  BY <1>2, <1>3 DEF Tick
<1>5. SocketOwned'
  <2> SUFFICES ASSUME NEW g \in Fds, sock'[g] # NoSock
               PROVE  user'[sock'[g].owner].outsock = g /\ user'[sock'[g].owner].outstate = "CONN"
    BY DEF SocketOwned
  <2>1. sock[g] # NoSock /\ sock'[g].owner = sock[g].owner
    BY <1>3
  <2>2. sock[g].owner \in Users
    BY <2>1 DEF IInv, TypeOK, Sock
  <2> QED
    BY <1>2, <2>1, <2>2 DEF IInv, SocketOwned
<1> QED
  BY <1>1, <1>2, <1>4, <1>5 DEF Tick, IInv, TypeOK, QuitNotConnected

-----------------------------------------------------------------------------
(* checkclients *)

(* The records of the users the loop passed over. *)
LEMMA checkclientsIdleKeeps ==
    ASSUME IInv, NEW inc \in {0, 1}, checkclientsIdle(inc)
    PROVE  IInv'
<1>1. ASSUME NEW v \in Users
      PROVE  /\ user'[v] \in User
             /\ user'[v].quitted = user[v].quitted
             /\ user'[v].outstate = user[v].outstate
             /\ user[v].outstate = "CONN" => user'[v] = user[v]
  <2>1. user'[v] = user[v] \/ user'[v] = Skipped(v, inc)
    BY DEF checkclientsIdle
  <2> QED
    BY <2>1, SkippedType DEF IInv, TypeOK
<1>2. user' \in [Users -> User]
  BY <1>1 DEF checkclientsIdle
<1>3. SocketOwned'
  <2> SUFFICES ASSUME NEW g \in Fds, sock[g] # NoSock
               PROVE  user'[sock[g].owner].outsock = g /\ user'[sock[g].owner].outstate = "CONN"
    BY DEF SocketOwned, checkclientsIdle
  <2>1. sock[g].owner \in Users
    BY DEF IInv, TypeOK, Sock
  <2> QED
    BY <1>1, <2>1 DEF IInv, SocketOwned
<1> QED
  BY <1>1, <1>2, <1>3 DEF checkclientsIdle, IInv, TypeOK, QuitNotConnected

(* A connection attempt for u, pending or already failed. *)
LEMMA AttemptedType ==
    ASSUME TypeOK, NEW u \in Users, Connects(u)
    PROVE  /\ Attempted(u) \in User
           /\ ~Attempted(u).quitted
           /\ Attempted(u).outsock = NewFd
           /\ Attempted(u).outstate = "CONN"
<1> DEFINE a == [user[u] EXCEPT !.currentserver = getnextserver(u)]
           b == [a EXCEPT !.outsock = NewFd]
           c == [b EXCEPT !.outstate = "CONN"]
           d == [c EXCEPT !.welcome = FALSE]
<1>1. user[u] \in User /\ ~user[u].quitted
  BY DEF TypeOK, Connects, Picks, Due
<1>2. getnextserver(u) \in 0 .. MaxServer
  BY NextServerConfigured, ServerLinkAssumption DEF Connects, Picks, Slots
<1>3. NewFd \in Fds
  BY NewFdFree DEF Connects
<1>4. a \in User /\ ~a.quitted
  BY <1>1, <1>2 DEF User
<1>5. b \in User /\ ~b.quitted /\ b.outsock = NewFd
  <2> HIDE DEF a
  <2> QED
    BY <1>3, <1>4 DEF User
<1>6. c \in User /\ ~c.quitted /\ c.outsock = NewFd /\ c.outstate = "CONN"
  <2> HIDE DEF b
  <2> QED
    BY <1>5 DEF User
<1>7. d \in User /\ ~d.quitted /\ d.outsock = NewFd /\ d.outstate = "CONN"
  <2> HIDE DEF c
  <2> QED
    BY <1>6 DEF User
<1>8. Attempted(u) = d
  BY DEF Attempted
<1> QED
  BY <1>7, <1>8

(* An attempt takes a free descriptor for a user that owns none. *)
LEMMA checkclientsConnectsKeeps ==
    ASSUME IInv, NEW inc \in {0, 1}, NEW u \in Users, checkclientsConnects(u, inc)
    PROVE  IInv'
<1> DEFINE r == user'[u]
<1>1. TypeOK /\ Connects(u)
  BY DEF IInv, checkclientsConnects
<1>2. NewFd \in Fds /\ sock[NewFd] = NoSock
  BY <1>1, NewFdFree DEF Connects
<1>3. r \in User /\ ~r.quitted /\ r.outsock = NewFd /\ r.outstate = "CONN"
  <2>1. CASE AttemptPending(u, inc)
    <3>1. r = Attempted(u)
      BY <2>1 DEF AttemptPending, LoopUntil
    <3> QED
      BY <1>1, <3>1, AttemptedType
  <2>2. CASE AttemptFailed(u, inc)
    <3> DEFINE a == Attempted(u)
               b == [a EXCEPT !.pinged = FALSE]
               c == [b EXCEPT !.pingtime = Never]
    <3>1. r = c
      BY <2>2 DEF AttemptFailed, LoopUntil
    <3>2. a \in User /\ ~a.quitted /\ a.outsock = NewFd /\ a.outstate = "CONN"
      BY <1>1, AttemptedType
    <3>3. b \in User /\ ~b.quitted /\ b.outsock = NewFd /\ b.outstate = "CONN"
      <4> HIDE DEF a
      <4> QED
        BY <3>2 DEF User
    <3>4. c \in User /\ ~c.quitted /\ c.outsock = NewFd /\ c.outstate = "CONN"
      <4> HIDE DEF b
      <4> QED
        BY <3>3 DEF User, Never
    <3> HIDE DEF c
    <3> QED
      BY <3>1, <3>4
  <2> QED
    BY <2>1, <2>2 DEF checkclientsConnects
<1>4. ASSUME NEW v \in Users, v # u
      PROVE  /\ user'[v] \in User
             /\ user'[v].quitted = user[v].quitted
             /\ user'[v].outstate = user[v].outstate
             /\ user[v].outstate = "CONN" => user'[v] = user[v]
  <2>1. user'[v] = user[v] \/ user'[v] = Skipped(v, inc)
    BY <1>4 DEF checkclientsConnects, AttemptPending, AttemptFailed, LoopUntil
  <2> QED
    BY <1>1, <1>4, <2>1, SkippedType DEF TypeOK
<1>5. user' \in [Users -> User]
  <2>1. \A v \in Users : user'[v] \in User
    BY <1>3, <1>4
  <2>2. user' = [v \in Users |-> user'[v]]
    BY DEF checkclientsConnects, AttemptPending, AttemptFailed, LoopUntil
  <2> QED
    BY <2>1, <2>2
<1>6. \/ sock' = sock
      \/ sock' = [sock EXCEPT ![NewFd] = [owner |-> u, flag |-> "SYN", delay |-> 0]]
  BY DEF checkclientsConnects, AttemptPending, AttemptFailed
<1>7. sock' \in [Fds -> Sock \cup {NoSock}]
  BY <1>1, <1>6 DEF TypeOK, Sock
<1>8. SocketOwned'
  <2> SUFFICES ASSUME NEW g \in Fds, sock'[g] # NoSock
               PROVE  user'[sock'[g].owner].outsock = g /\ user'[sock'[g].owner].outstate = "CONN"
    BY DEF SocketOwned
  <2>1. CASE sock'[g] = sock[g]
    <3>1. /\ sock[g].owner \in Users /\ user[sock[g].owner].outsock = g
          /\ user[sock[g].owner].outstate = "CONN"
      BY <2>1 DEF IInv, TypeOK, Sock, SocketOwned
    <3>2. user[u].outstate = "NOCON"
      BY <1>1 DEF Connects, Picks, Due
    <3>3. sock[g].owner # u
      BY <3>1, <3>2
    <3>4. user'[sock[g].owner] = user[sock[g].owner]
      BY <1>4, <3>1, <3>3
    <3> QED
      BY <2>1, <3>1, <3>4
  <2>2. CASE sock'[g] # sock[g]
    <3>1. g = NewFd /\ sock'[g].owner = u
      BY <1>1, <1>2, <1>6, <2>2 DEF TypeOK
    <3> QED
      BY <1>3, <3>1
  <2> QED
    BY <2>1, <2>2
<1>9. QuitNotConnected'
  <2> SUFFICES ASSUME NEW v \in Users, user'[v].quitted PROVE user'[v].outstate = "NOCON"
    BY DEF QuitNotConnected
  <2>1. v # u
    BY <1>3
  <2> QED
    BY <1>4, <2>1 DEF IInv, QuitNotConnected
<1> QED
  BY <1>5, <1>7, <1>8, <1>9 DEF checkclientsConnects, IInv, TypeOK

-----------------------------------------------------------------------------
(* The invariant *)

(* The program starts without connections. *)
LEMMA InitIInv == Init => IInv
<1> SUFFICES ASSUME Init PROVE IInv
  OBVIOUS
<1>1. TypeOK
  <2>1. user \in [Users -> User]
    BY ServerLinkAssumption DEF Init, User, Never
  <2>2. sock \in [Fds -> Sock \cup {NoSock}]
    BY DEF Init
  <2> QED
    BY <2>1, <2>2, MaxAgeNat DEF Init, TypeOK
<1>2. SocketOwned
  BY DEF Init, SocketOwned
<1>3. QuitNotConnected
  BY DEF Init, QuitNotConnected
<1> QED
  BY <1>1, <1>2, <1>3 DEF IInv, Init

(* One case per action of Next. *)
LEMMA NextIInv == IInv /\ [Next]_vars => IInv'
<1> SUFFICES ASSUME IInv, [Next]_vars PROVE IInv'
  OBVIOUS
<1>1. ASSUME NEW inc \in {0, 1}, checkclients(inc) PROVE IInv'
  BY <1>1, checkclientsConnectsKeeps, checkclientsIdleKeeps DEF checkclients
<1>2. CASE Tick
  BY <1>2, TickKeeps
<1>3. ASSUME NEW f \in Fds, SocketEvent(f) PROVE IInv'
  <2>1. CASE userconnected(f)
    BY <2>1, userconnectedKeeps
  <2>2. CASE Refused(f) \/ Timeout(f)
    BY <2>2, usererrorKeeps DEF Refused, Timeout
  <2>3. CASE RemoteClose(f)
    BY <2>3, RemoteCloseKeeps
  <2>4. CASE msg001(f) \/ msgERROR(f) \/ msgPONG(f)
    BY <2>4, msg001Keeps, msgERRORKeeps, msgPONGKeeps
  <2> QED
    BY <1>3, <2>1, <2>2, <2>3, <2>4 DEF SocketEvent
<1>4. ASSUME NEW u \in Users, checkstonednick(u) PROVE IInv'
  BY <1>4, checkstonednickKeeps
<1>5. ASSUME NEW u \in Users, Command(u) PROVE IInv'
  BY <1>5, cmdbquitKeeps, cmdbconnectKeeps, cmdjumpKeeps, cmdaddserverKeeps,
     cmddelserverKeeps DEF Command
<1>6. ASSUME NEW d \in Delays, cmdsetconnectdelay(d) PROVE IInv'
  BY <1>6, cmdsetconnectdelayKeeps
<1>7. CASE cmdrehash
  BY <1>7, cmdrehashKeeps
<1>8. CASE UNCHANGED vars
  BY <1>8 DEF vars, IInv, TypeOK, SocketOwned, QuitNotConnected
<1> QED
  BY <1>1, <1>2, <1>3, <1>4, <1>5, <1>6, <1>7, <1>8 DEF Next

(* The inductive invariant holds in every reachable state. *)
THEOREM Invariance == Spec => []IInv
BY InitIInv, NextIInv, PTL DEF Spec

(* The tables agree: types are kept, and every outgoing socket has one owner  *)
(* that counts as connected, whatever callbacks kill on the way.             *)
THEOREM TablesConsistent == Spec => []Consistent
<1>1. IInv => Consistent
  BY DEF IInv, Consistent
<1> QED
  BY <1>1, Invariance, PTL

(* Type correctness: the user table, the socket table and the configuration  *)
(* of the connection loop keep their types under every step.                 *)
THEOREM TypeCorrect == Spec => []TypeOK
<1>1. IInv => TypeOK
  BY DEF IInv
<1> QED
  BY <1>1, Invariance, PTL

(* No orphan connection, and no user with two: every outgoing socket is the  *)
(* outsock of the connected user that connectuser() created it for, although *)
(* failed attempts leave stale outsock values behind that other users'       *)
(* connections may reuse.                                                    *)
THEOREM SocketsOwned == Spec => []SocketOwned
<1>1. IInv => SocketOwned
  BY DEF IInv
<1> QED
  BY <1>1, Invariance, PTL

(* BQUIT is final: a user that has quit is not connected and owns no socket  *)
(* until BCONNECT.                                                           *)
THEOREM QuitUsersStayOff == Spec => []QuitStaysOff
<1>1. IInv => QuitStaysOff
  <2> SUFFICES ASSUME IInv, NEW u \in Users, user[u].quitted
               PROVE  user[u].outstate = "NOCON" /\ ~HasSocket(u)
    BY DEF QuitStaysOff
  <2>1. user[u].outstate = "NOCON"
    BY DEF IInv, QuitNotConnected
  <2>2. ASSUME NEW f \in Fds, sock[f].owner = u PROVE FALSE
    <3>1. sock[f] # NoSock
      BY <2>2 DEF NoSock, Users
    <3> QED
      BY <2>1, <2>2, <3>1 DEF IInv, SocketOwned
  <2> QED
    BY <2>1, <2>2 DEF HasSocket
<1> QED
  BY <1>1, Invariance, PTL

(* A descriptor leaves the state NoSock in no step but that of checkclients  *)
(* in which connectuser() passed its throttle.                               *)
LEMMA NewSocketStep ==
    ASSUME IInv, [Next]_vars, NEW f \in Fds, sock[f] = NoSock, sock'[f] # NoSock
    PROVE  \E u \in Users, inc \in {0, 1} : checkclientsConnects(u, inc)
<1>1. \A h : SockAfterKill(h)[f] = NoSock
  BY DEF SockAfterKill, Closed
<1>2. \A F : Closed(F)[f] = NoSock
  BY DEF Closed
<1>3. ~Tick
  BY DEF Tick, NoSock
<1>4. ASSUME NEW g \in Fds, SocketEvent(g) PROVE FALSE
  <2>1. CASE userconnected(g)
    <3>1. g # f
      BY <2>1 DEF userconnected, Live
    <3> QED
      BY <2>1, <3>1 DEF userconnected, IInv, TypeOK
  <2>2. CASE ~userconnected(g)
    BY <1>1, <1>2, <1>4, <2>2
       DEF SocketEvent, Refused, Timeout, usererror, RemoteClose, msg001, msgERROR, msgPONG
  <2> QED
    BY <2>1, <2>2
<1>5. ASSUME NEW u \in Users, checkstonednick(u) \/ Command(u) PROVE FALSE
  BY <1>1, <1>5 DEF checkstonednick, Command, cmdbquit, cmdbconnect, cmdjump,
     cmdaddserver, cmddelserver
<1>6. ~cmdrehash /\ \A d \in Delays : ~cmdsetconnectdelay(d)
  BY DEF cmdrehash, cmdsetconnectdelay
<1>7. ASSUME NEW inc \in {0, 1} PROVE ~checkclientsIdle(inc)
  BY DEF checkclientsIdle
<1> QED
  BY <1>3, <1>4, <1>5, <1>6, <1>7 DEF Next, checkclients, vars

(* The throttle works for all users together: whichever user a new outgoing  *)
(* socket is for, connecting is switched on and no other socket was created  *)
(* within the connect delay.                                                 *)
THEOREM AttemptsAreSpaced == Spec => AttemptsSpaced
<1> DEFINE Spaced == \A f \in Fds : (sock[f] = NoSock /\ sock'[f] # NoSock) =>
                        connectdelay > 0 /\ quiet >= connectdelay
<1>1. IInv /\ [Next]_vars => [Spaced]_vars
  <2> SUFFICES ASSUME IInv, [Next]_vars, NEW f \in Fds, sock[f] = NoSock, sock'[f] # NoSock
               PROVE  connectdelay > 0 /\ quiet >= connectdelay
    OBVIOUS
  <2>1. PICK u \in Users, inc \in {0, 1} : checkclientsConnects(u, inc)
    BY NewSocketStep
  <2>2. ~Throttled
    BY <2>1 DEF checkclientsConnects, Connects, Picks, Due
  <2>3. connectdelay \in Nat /\ lastconnect \in Nat /\ quiet = lastconnect
    BY ServerLinkAssumption DEF IInv, TypeOK
  <2> QED
    BY <2>2, <2>3 DEF Throttled
<1> QED
  BY <1>1, Invariance, PTL DEF Spec, AttemptsSpaced
=============================================================================
