----------------------------- MODULE Dcc_proof -----------------------------
(***************************************************************************)
(* Proofs about Dcc, for any bots, peers, descriptors, delays and sizes of  *)
(* files: a connected bot and a pending DCC hold an open socket of their    *)
(* own, the blocks of a transfer are sent once and acknowledged, and a file *)
(* that is reported is complete and comes from one sender.                  *)
(***************************************************************************)
EXTENDS Dcc, FiniteSetsExt, SequencesExt, SequenceTheorems, WellFoundedInduction, FiniteSetTheorems, TLAPS

-----------------------------------------------------------------------------
(* Numbers and lists *)

(* A nonempty set of naturals has a least element. *)
LEMMA LeastNatural ==
    ASSUME NEW T, T \subseteq Nat, T # {}
    PROVE  \E x \in T : \A y \in T : x <= y
<1>1. PICK R : R = OpToRel(<, Nat)
  BY Zenon
<1>2. IsWellFoundedOn(R, Nat)
  BY <1>1, NatLessThanWellFounded, Zenon
<1>3. \A x, y \in Nat : x < y => <<x, y>> \in R
  BY <1>1 DEF OpToRel
<1>4. PICK x \in T : \A y \in T : ~ (<<y, x>> \in R)
  BY <1>2, WFMin, Zenon
<1>5. \A y \in T : x <= y
  <2> TAKE y \in T
  <2>1. x \in Nat /\ y \in Nat
    BY <1>4
  <2>2. ~ (y < x)
    BY <1>3, <1>4, <2>1
  <2> QED
    BY <2>1, <2>2
<1> QED
  BY <1>4, <1>5

(* Min picks an element of a nonempty set of naturals, so a descriptor or   *)
(* slot chosen with it is a free one.                                       *)
LEMMA MinMember ==
    ASSUME NEW T, T \subseteq Nat, T # {}
    PROVE  Min(T) \in T /\ \A y \in T : Min(T) <= y
BY LeastNatural DEF Min

(* Max picks an element of a set that has a greatest one. *)
LEMMA MaxMember ==
    ASSUME NEW T, \E x \in T : \A y \in T : x >= y
    PROVE  Max(T) \in T /\ \A y \in T : Max(T) >= y
BY DEF Max

(* Every natural number has a property that 0 has and that passes from each  *)
(* number to the next: stated for the set of the numbers that have it.       *)
LEMMA NatSetInduction ==
    ASSUME NEW T, 0 \in T, \A n \in Nat : n \in T => n + 1 \in T
    PROVE  \A n \in Nat : n \in T
<1> DEFINE U == {n \in Nat : n \notin T}
<1>1. SUFFICES ASSUME U # {} PROVE FALSE
  OBVIOUS
<1>2. PICK u \in U : \A v \in U : u <= v
  BY <1>1, LeastNatural
<1>3. u \in Nat /\ u # 0 /\ u \notin T
  BY <1>2
<1>4. u - 1 \in Nat /\ u - 1 \in T
  BY <1>2, <1>3
<1> QED
  BY <1>3, <1>4

(* Taking an element out of a list moves the ones behind it up. *)
LEMMA RemoveAtFacts ==
    ASSUME NEW S, NEW s \in Seq(S), NEW p \in 1 .. Len(s)
    PROVE  /\ RemoveAt(s, p) \in Seq(S)
           /\ Len(RemoveAt(s, p)) = Len(s) - 1
           /\ \A i \in 1 .. Len(s) - 1 :
                RemoveAt(s, p)[i] = IF i < p THEN s[i] ELSE s[i + 1]
<1>1. PICK a, b : a = SubSeq(s, 1, p - 1) /\ b = SubSeq(s, p + 1, Len(s))
  OBVIOUS
<1>2. /\ a \in Seq(S) /\ Len(a) = p - 1 /\ \A i \in 1 .. p - 1 : a[i] = s[i]
      /\ b \in Seq(S) /\ Len(b) = Len(s) - p /\ \A i \in 1 .. Len(s) - p : b[i] = s[p + i]
  BY <1>1
<1>3. /\ a \o b \in Seq(S) /\ Len(a \o b) = Len(s) - 1
      /\ \A i \in 1 .. Len(s) - 1 :
           (a \o b)[i] = IF i <= p - 1 THEN a[i] ELSE b[i - (p - 1)]
  <2>1. /\ a \o b \in Seq(S) /\ Len(a \o b) = Len(a) + Len(b)
        /\ \A i \in 1 .. Len(a) + Len(b) :
             (a \o b)[i] = IF i <= Len(a) THEN a[i] ELSE b[i - Len(a)]
    BY <1>2, ConcatProperties, Zenon
  <2>2. Len(a) + Len(b) = Len(s) - 1
    BY <1>2
  <2> QED
    BY <1>2, <2>1, <2>2
<1>4. RemoveAt(s, p) = a \o b
  BY <1>1 DEF RemoveAt
<1>5. ASSUME NEW i \in 1 .. Len(s) - 1
      PROVE  (a \o b)[i] = IF i < p THEN s[i] ELSE s[i + 1]
  <2>1. CASE i < p
    BY <1>2, <1>3, <2>1
  <2>2. CASE i >= p
    <3>1. i - (p - 1) \in 1 .. Len(s) - p /\ p + (i - (p - 1)) = i + 1
      BY <2>2
    <3>2. (a \o b)[i] = b[i - (p - 1)]
      BY <1>3, <2>2
    <3> QED
      BY <1>2, <2>2, <3>1, <3>2
  <2>3. i < p \/ i >= p
    OBVIOUS
  <2> QED
    BY <2>1, <2>2, <2>3, Zenon
<1> QED
  BY <1>3, <1>4, <1>5

-----------------------------------------------------------------------------
(* Types *)

Socket == [kind : Kinds, flag : {"syn", "conn"}, who : Bots \cup Nicks]
Link == [name : Bots, outstate : {"off", "new", "conn"}, outsock : Fds \cup {0},
         delayed : 0 .. 1]
Pdcc == [type : Types, nick : Nicks, sock : Fds \cup {0}, delay : 0 .. DELAY,
         filesize : Nat, transferred : Nat, eof : BOOLEAN, fhandle : Nat]
Wire == [wire : Nat, has : Nat, acks : Seq(Nat)]

SockTable(sk) == sk \in [DOMAIN sk -> Socket] /\ DOMAIN sk \subseteq Fds
WireTable(rm, sk) ==
    /\ rm \in [DOMAIN rm -> Wire]
    /\ DOMAIN rm = {fd \in DOMAIN sk : sk[fd].kind \in {"send", "recv"}}

-----------------------------------------------------------------------------
(* Bot connections *)

(* The socket is open, belongs to a bot connection and is connected. *)
LinkUp(sk, fd) == fd \in DOMAIN sk /\ sk[fd].kind = "link" /\ sk[fd].flag = "conn"

(* A connected bot has such a socket, and no entry before it has the number: *)
(* its handlers find it.                                                     *)
LinksOK(d, sk) ==
    \A j \in DOMAIN d : d[j].outstate = "conn" =>
      /\ LinkUp(sk, d[j].outsock)
      /\ \A k \in DOMAIN d : k < j => d[k].outsock # d[j].outsock

-----------------------------------------------------------------------------
(* Pending DCCs *)

(* A request has not expired, and nothing of its file was read. *)
RequestOK(p) == p.type \in Requests => p.delay > 0 /\ p.transferred = 0

(* The entry holds a socket with the handlers of its type. *)
HoldsOK(p, sk) ==
    IF Holds[p.type] = {} THEN p.sock = 0
    ELSE p.sock \in DOMAIN sk /\ sk[p.sock].kind \in Holds[p.type]

(* An outgoing file: what the peer has and what is under way is what was     *)
(* read, no acknowledgement says more than the peer has, and the end of the  *)
(* file is seen at its end.                                                  *)
SendOK(p, sk, rm) ==
    p.type = "SENDTO" =>
      /\ rm[p.sock].wire <= BLOCK
      /\ rm[p.sock].has + rm[p.sock].wire = p.transferred
      /\ \A i \in DOMAIN rm[p.sock].acks : rm[p.sock].acks[i] <= rm[p.sock].has
      /\ p.eof => p.transferred = p.filesize

(* An incoming file: no more comes than the peer announced, all that was     *)
(* read is acknowledged, and the file is open once the connection is.        *)
RecvOK(p, sk, rm) ==
    p.type = "RECVFROM" =>
      /\ p.transferred + rm[p.sock].wire <= p.filesize
      /\ rm[p.sock].wire = 0 => rm[p.sock].has = p.transferred
      /\ sk[p.sock].flag = "syn" => p.transferred = 0 /\ rm[p.sock].wire = 0
      /\ p.fhandle = 0 <=> sk[p.sock].flag = "syn"

EntryOK(p, sk, rm) ==
    /\ RequestOK(p) /\ HoldsOK(p, sk) /\ SendOK(p, sk, rm) /\ RecvOK(p, sk, rm)
    /\ p.transferred <= p.filesize
    /\ p.type # "RECVFROM" => p.fhandle = 0

(* The open file of a transfer holds what was read so far, of its sender. *)
FileOK(p, fl) ==
    p.fhandle # 0 =>
      /\ \A w \in fl : w[1] = p.fhandle => w[2] \in 1 .. p.transferred /\ w[3] = p.nick
      /\ \A o \in 1 .. p.transferred : <<p.fhandle, o, p.nick>> \in fl

(* No two entries have the same socket or the same open file. *)
OwnSockets(c) ==
    \A i, j \in DOMAIN c : c[i].sock = c[j].sock /\ c[i].sock # 0 => i = j
OwnFiles(c) ==
    \A i, j \in DOMAIN c : c[i].fhandle = c[j].fhandle /\ c[i].fhandle # 0 => i = j

(* Every socket that is not of a bot belongs to an entry. *)
Covered(c, sk) ==
    \A fd \in DOMAIN sk : sk[fd].kind # "link" => \E i \in DOMAIN c : c[i].sock = fd

FileSet(fl) == fl \subseteq (Nat \ {0}) \X Nat \X Nicks
OneSender(fl) == \A v, w \in fl : v[1] = w[1] => v[3] = w[3]

EntriesOK(c, sk, rm) == \A i \in DOMAIN c : EntryOK(c[i], sk, rm)
FilesOK(c, fl) == (\A i \in DOMAIN c : FileOK(c[i], fl)) /\ FileSet(fl) /\ OneSender(fl)
ChainOK(c, sk) == c \in Seq(Pdcc) /\ OwnSockets(c) /\ OwnFiles(c) /\ Covered(c, sk)

(* The inductive invariant. *)
DccInv ==
    /\ SockTable(sock)
    /\ WireTable(remote, sock)
    /\ dccs \in Seq(Link) /\ saved \in Seq(Bots)
    /\ LinksOK(dccs, sock)
    /\ ChainOK(pdcc, sock) /\ Len(pdcc) <= MaxDccs
    /\ EntriesOK(pdcc, sock, remote)
    /\ FilesOK(pdcc, files)
    /\ missing = 0

-----------------------------------------------------------------------------
(* Lists and tables *)

(* The first of a set of positions, 0 if there is none. *)
FirstIn(i, T) ==
    \/ i = 0 /\ T = {}
    \/ i \in T /\ \A j \in T : i <= j

(* getpsocketpdcc() finds the first entry with the socket. *)
LEMMA PdccOfFirst ==
    ASSUME NEW fd, pdcc \in Seq(Pdcc)
    PROVE  FirstIn(PdccOf(fd), {i \in 1 .. Len(pdcc) : pdcc[i].sock = fd})
<1> DEFINE T == {i \in 1 .. Len(pdcc) : pdcc[i].sock = fd}
<1>1. PdccOf(fd) = IF T # {} THEN Min(T) ELSE 0
  BY Zenon DEF PdccOf, SelectInSeq
<1>2. T \subseteq Nat
  OBVIOUS
<1> SUFFICES FirstIn(PdccOf(fd), T)
  OBVIOUS
<1> HIDE DEF T
<1>3. CASE T = {}
  BY <1>1, <1>3 DEF FirstIn
<1>4. CASE T # {}
  BY <1>1, <1>2, <1>4, MinMember DEF FirstIn
<1> QED
  BY <1>3, <1>4

(* The handlers of a bot connection find the first entry with the socket. *)
LEMMA LinkOfFirst ==
    ASSUME NEW fd, dccs \in Seq(Link)
    PROVE  FirstIn(LinkOf(fd), {i \in 1 .. Len(dccs) : dccs[i].outsock = fd})
<1> DEFINE T == {i \in 1 .. Len(dccs) : dccs[i].outsock = fd}
<1>1. LinkOf(fd) = IF T # {} THEN Min(T) ELSE 0
  BY Zenon DEF LinkOf, SelectInSeq
<1>2. T \subseteq Nat
  OBVIOUS
<1> SUFFICES FirstIn(LinkOf(fd), T)
  OBVIOUS
<1> HIDE DEF T
<1>3. CASE T = {}
  BY <1>1, <1>3 DEF FirstIn
<1>4. CASE T # {}
  BY <1>1, <1>2, <1>4, MinMember DEF FirstIn
<1> QED
  BY <1>3, <1>4

(* In a chain without double sockets the entry of a socket is the one that   *)
(* holds it.                                                                 *)
LEMMA EntryOfSocket ==
    ASSUME NEW i \in DOMAIN pdcc, pdcc \in Seq(Pdcc), OwnSockets(pdcc), pdcc[i].sock # 0
    PROVE  PdccOf(pdcc[i].sock) = i
<1>1. PICK fd : fd = pdcc[i].sock
  OBVIOUS
<1>2. FirstIn(PdccOf(fd), {j \in 1 .. Len(pdcc) : pdcc[j].sock = fd})
  BY PdccOfFirst
<1>3. DOMAIN pdcc = 1 .. Len(pdcc)
  OBVIOUS
<1> QED
  BY <1>1, <1>2, <1>3 DEF FirstIn, OwnSockets

(* The types and what they hold. *)
LEMMA HoldsFacts ==
    /\ \A t \in {"CHATFROMRQ", "RECVFROMRQ"} : Holds[t] = {}
    /\ Holds["CHATTORQ"] = {"chatlisten"} /\ Holds["SENDTORQ"] = {"sendlisten"}
    /\ Holds["CHATTO"] = {"chat"} /\ Holds["CHATFROM"] = {"chat"}
    /\ Holds["SENDTO"] = {"send"} /\ Holds["RECVFROM"] = {"recv"}
BY DEF Holds

(* A socket that is not of a bot belongs to an entry, whose type it tells. *)
TypeOfKind(kind, type) ==
    \/ kind = "chatlisten" /\ type = "CHATTORQ"
    \/ kind = "sendlisten" /\ type = "SENDTORQ"
    \/ kind = "chat" /\ type \in {"CHATTO", "CHATFROM"}
    \/ kind = "send" /\ type = "SENDTO"
    \/ kind = "recv" /\ type = "RECVFROM"

LEMMA HeldKind ==
    ASSUME NEW sk, SockTable(sk), NEW p \in Pdcc, HoldsOK(p, sk), p.sock # 0
    PROVE  /\ p.sock \in DOMAIN sk /\ p.sock \in Fds
           /\ TypeOfKind(sk[p.sock].kind, p.type)
           /\ sk[p.sock].kind # "link"
<1>1. p.type \in Types
  BY DEF Pdcc
<1>2. Holds[p.type] # {}
  BY DEF HoldsOK
<1>3. p.sock \in DOMAIN sk /\ sk[p.sock].kind \in Holds[p.type]
  BY <1>2 DEF HoldsOK
<1>4. TypeOfKind(sk[p.sock].kind, p.type)
  BY <1>1, <1>2, <1>3, HoldsFacts DEF Types, Requests, TypeOfKind
<1> QED
  BY <1>3, <1>4 DEF SockTable, TypeOfKind

LEMMA EntryOfKind ==
    ASSUME DccInv, NEW fd \in DOMAIN sock, sock[fd].kind # "link"
    PROVE  /\ PdccOf(fd) \in DOMAIN pdcc /\ pdcc[PdccOf(fd)].sock = fd /\ fd # 0
           /\ pdcc[PdccOf(fd)] \in Pdcc
           /\ TypeOfKind(sock[fd].kind, pdcc[PdccOf(fd)].type)
           /\ EntryOK(pdcc[PdccOf(fd)], sock, remote)
<1>1. PICK i \in DOMAIN pdcc : pdcc[i].sock = fd
  BY DEF DccInv, ChainOK, Covered
<1>2. fd # 0
  BY FdsPositive DEF DccInv, SockTable
<1>3. PdccOf(fd) = i
  BY <1>1, <1>2, EntryOfSocket DEF DccInv, ChainOK
<1>4. pdcc[i] \in Pdcc /\ EntryOK(pdcc[i], sock, remote)
  BY DEF DccInv, ChainOK, EntriesOK
<1>5. HoldsOK(pdcc[i], sock) /\ SockTable(sock)
  BY <1>4 DEF EntryOK, DccInv
<1>6. TypeOfKind(sock[fd].kind, pdcc[i].type)
  BY <1>1, <1>2, <1>4, <1>5, HeldKind
<1> QED
  BY <1>1, <1>2, <1>3, <1>4, <1>6

-----------------------------------------------------------------------------
(* Steps of the tables: the socket "old" closes or changes, "new" opens *)

SameAt(sk, tk, rm, rn, fd) ==
    /\ fd \in DOMAIN tk /\ tk[fd] = sk[fd]
    /\ sk[fd].kind \in {"send", "recv"} => rn[fd] = rm[fd]

SameBut(sk, tk, rm, rn, old, new) ==
    /\ \A fd \in DOMAIN sk : fd # old => SameAt(sk, tk, rm, rn, fd)
    /\ \A fd \in DOMAIN tk : fd # new => fd \in DOMAIN sk /\ fd # old

(* What holds of an entry depends on its own socket only. *)
LEMMA EntryFrame ==
    ASSUME NEW sk, NEW tk, NEW rm, NEW rn, SockTable(sk), NEW p \in Pdcc,
           EntryOK(p, sk, rm), p.sock # 0 => SameAt(sk, tk, rm, rn, p.sock)
    PROVE  EntryOK(p, tk, rn)
<1>1. CASE p.sock = 0
  <2>1. 0 \notin DOMAIN sk
    BY FdsPositive DEF SockTable
  <2>2. Holds[p.type] = {}
    BY <1>1, <2>1 DEF EntryOK, HoldsOK
  <2>3. p.type # "SENDTO" /\ p.type # "RECVFROM"
    BY <2>2, HoldsFacts
  <2> QED
    BY <2>2, <2>3 DEF EntryOK, HoldsOK, SendOK, RecvOK
<1>2. CASE p.sock # 0
  <2>1. TypeOfKind(sk[p.sock].kind, p.type)
    BY <1>2, HeldKind DEF EntryOK
  <2>2. HoldsOK(p, tk)
    BY <1>2 DEF EntryOK, HoldsOK, SameAt
  <2>3. SendOK(p, tk, rn) /\ RecvOK(p, tk, rn)
    BY <1>2, <2>1 DEF EntryOK, SendOK, RecvOK, TypeOfKind, SameAt
  <2> QED
    BY <2>2, <2>3 DEF EntryOK
<1> QED
  BY <1>1, <1>2

(* Bot connections are not disturbed by a socket that is not of a bot. *)
LEMMA LinksFrame ==
    ASSUME NEW d, NEW sk, NEW tk, LinksOK(d, sk),
           \A fd \in DOMAIN sk : sk[fd].kind = "link" => fd \in DOMAIN tk /\ tk[fd] = sk[fd]
    PROVE  LinksOK(d, tk)
BY DEF LinksOK, LinkUp

-----------------------------------------------------------------------------
(* Steps of the chain of pending DCCs *)

(* One entry is replaced. *)
Replaced(c, d, i, x) ==
    /\ Len(d) = Len(c) /\ d[i] = x
    /\ \A j \in DOMAIN c : j # i => d[j] = c[j]

(* It keeps its socket and its file, or takes new ones. *)
OwnAgain(c, sk, i, x) ==
    /\ x.sock = c[i].sock \/ x.sock \notin DOMAIN sk
    /\ x.fhandle = c[i].fhandle \/ \A j \in DOMAIN c : c[j].fhandle # x.fhandle

LEMMA ReplaceEntry ==
    ASSUME NEW c, NEW sk, NEW rm, NEW tk, NEW rn, NEW i \in DOMAIN c, NEW x \in Pdcc,
           SockTable(sk), ChainOK(c, sk), EntriesOK(c, sk, rm),
           SameBut(sk, tk, rm, rn, c[i].sock, x.sock),
           EntryOK(x, tk, rn), OwnAgain(c, sk, i, x),
           NEW d \in Seq(Pdcc), Replaced(c, d, i, x)
    PROVE  ChainOK(d, tk) /\ EntriesOK(d, tk, rn)
<1>1. /\ c \in Seq(Pdcc) /\ DOMAIN d = DOMAIN c /\ d[i] = x
      /\ \A j \in DOMAIN c : j # i => d[j] = c[j]
      /\ \A j \in DOMAIN c : c[j] \in Pdcc /\ EntryOK(c[j], sk, rm)
  BY DEF Replaced, ChainOK, EntriesOK
<1>2. \A j \in DOMAIN c : c[j].sock # 0 => c[j].sock \in DOMAIN sk
  <2> TAKE j \in DOMAIN c
  <2> QED
    BY <1>1, HeldKind DEF EntryOK
<1>3. OwnSockets(d)
  <2> SUFFICES ASSUME NEW j \in DOMAIN d, NEW k \in DOMAIN d,
                      d[j].sock = d[k].sock, d[j].sock # 0
               PROVE  j = k
    BY DEF OwnSockets
  <2>1. \A a, b \in DOMAIN c : c[a].sock = c[b].sock /\ c[a].sock # 0 => a = b
    BY DEF ChainOK, OwnSockets
  <2>2. CASE x.sock = c[i].sock
    <3>1. d[j].sock = c[j].sock /\ d[k].sock = c[k].sock
      BY <1>1, <2>2
    <3> QED
      BY <1>1, <2>1, <3>1
  <2>3. CASE x.sock \notin DOMAIN sk
    <3>1. CASE j = i
      BY <1>1, <1>2, <2>3, <3>1
    <3>2. CASE k = i
      BY <1>1, <1>2, <2>3, <3>2
    <3>3. CASE j # i /\ k # i
      BY <1>1, <2>1, <3>3
    <3> QED
      BY <3>1, <3>2, <3>3
  <2> QED
    BY <2>2, <2>3 DEF OwnAgain
<1>4. OwnFiles(d)
  <2> SUFFICES ASSUME NEW j \in DOMAIN d, NEW k \in DOMAIN d,
                      d[j].fhandle = d[k].fhandle, d[j].fhandle # 0
               PROVE  j = k
    BY DEF OwnFiles
  <2>1. \A a, b \in DOMAIN c : c[a].fhandle = c[b].fhandle /\ c[a].fhandle # 0 => a = b
    BY DEF ChainOK, OwnFiles
  <2>2. CASE x.fhandle = c[i].fhandle
    <3>1. d[j].fhandle = c[j].fhandle /\ d[k].fhandle = c[k].fhandle
      BY <1>1, <2>2
    <3> QED
      BY <1>1, <2>1, <3>1
  <2>3. CASE \A a \in DOMAIN c : c[a].fhandle # x.fhandle
    <3>1. CASE j = i
      BY <1>1, <2>3, <3>1
    <3>2. CASE k = i
      BY <1>1, <2>3, <3>2
    <3>3. CASE j # i /\ k # i
      BY <1>1, <2>1, <3>3
    <3> QED
      BY <3>1, <3>2, <3>3
  <2> QED
    BY <2>2, <2>3 DEF OwnAgain
<1>5. Covered(d, tk)
  <2> SUFFICES ASSUME NEW fd \in DOMAIN tk, tk[fd].kind # "link"
               PROVE  \E j \in DOMAIN d : d[j].sock = fd
    BY DEF Covered
  <2>1. CASE fd = x.sock
    BY <1>1, <2>1
  <2>2. CASE fd # x.sock
    <3>1. fd \in DOMAIN sk /\ fd # c[i].sock /\ tk[fd] = sk[fd]
      BY <2>2 DEF SameBut, SameAt
    <3>2. PICK j \in DOMAIN c : c[j].sock = fd
      BY <3>1 DEF ChainOK, Covered
    <3> QED
      BY <1>1, <3>1, <3>2
  <2> QED
    BY <2>1, <2>2
<1>6. ASSUME NEW j \in DOMAIN d PROVE EntryOK(d[j], tk, rn)
  <2>1. CASE j = i
    BY <1>1, <2>1
  <2>2. CASE j # i
    <3>1. c[j].sock # 0 => c[j].sock \in DOMAIN sk /\ c[j].sock # c[i].sock
      BY <1>1, <1>2, <2>2 DEF ChainOK, OwnSockets
    <3>2. c[j].sock # 0 => SameAt(sk, tk, rm, rn, c[j].sock)
      BY <3>1 DEF SameBut
    <3>3. c[j] \in Pdcc /\ EntryOK(c[j], sk, rm)
      BY <1>1
    <3>4. EntryOK(c[j], tk, rn)
      BY <3>2, <3>3, EntryFrame
    <3> QED
      BY <1>1, <2>2, <3>4
  <2> QED
    BY <2>1, <2>2
<1> QED
  BY <1>3, <1>4, <1>5, <1>6 DEF ChainOK, EntriesOK

(* An entry is added, with no socket or with a new one. *)
LEMMA AppendEntry ==
    ASSUME NEW c, NEW sk, NEW rm, NEW tk, NEW rn, NEW x \in Pdcc,
           SockTable(sk), ChainOK(c, sk), EntriesOK(c, sk, rm),
           SameBut(sk, tk, rm, rn, 0, x.sock),
           EntryOK(x, tk, rn), x.sock \notin DOMAIN sk, x.fhandle = 0
    PROVE  ChainOK(Append(c, x), tk) /\ EntriesOK(Append(c, x), tk, rn)
<1>0. PICK d, n : d = Append(c, x) /\ n = Len(c) + 1
  OBVIOUS
<1>1. /\ c \in Seq(Pdcc) /\ d \in Seq(Pdcc) /\ DOMAIN d = 1 .. n /\ d[n] = x
      /\ DOMAIN c = 1 .. (n - 1) /\ n \in Nat /\ n \in DOMAIN d
      /\ \A j \in DOMAIN c : d[j] = c[j]
  BY <1>0 DEF ChainOK
<1>2. \A j \in DOMAIN c : /\ c[j] \in Pdcc /\ EntryOK(c[j], sk, rm)
                          /\ c[j].sock # 0 => c[j].sock \in DOMAIN sk
  <2> TAKE j \in DOMAIN c
  <2>1. c[j] \in Pdcc /\ EntryOK(c[j], sk, rm)
    BY <1>1 DEF EntriesOK
  <2> QED
    BY <2>1, HeldKind DEF EntryOK
<1>3. \A j \in DOMAIN d : j = n \/ j \in DOMAIN c
  BY <1>1
<1>4. OwnSockets(d)
  <2>1. \A a, b \in DOMAIN c : c[a].sock = c[b].sock /\ c[a].sock # 0 => a = b
    BY DEF ChainOK, OwnSockets
  <2> QED
    BY <1>1, <1>2, <1>3, <2>1 DEF OwnSockets
<1>5. OwnFiles(d)
  <2>1. \A a, b \in DOMAIN c : c[a].fhandle = c[b].fhandle /\ c[a].fhandle # 0 => a = b
    BY DEF ChainOK, OwnFiles
  <2> QED
    BY <1>1, <1>3, <2>1 DEF OwnFiles
<1>6. Covered(d, tk)
  <2> SUFFICES ASSUME NEW fd \in DOMAIN tk, tk[fd].kind # "link"
               PROVE  \E j \in DOMAIN d : d[j].sock = fd
    BY DEF Covered
  <2>1. CASE fd = x.sock
    BY <1>1, <2>1
  <2>2. CASE fd # x.sock
    <3>1. fd \in DOMAIN sk /\ fd # 0 /\ tk[fd] = sk[fd]
      BY <2>2 DEF SameBut, SameAt
    <3>2. PICK j \in DOMAIN c : c[j].sock = fd
      BY <3>1 DEF ChainOK, Covered
    <3> QED
      BY <1>1, <3>1, <3>2
  <2> QED
    BY <2>1, <2>2
<1>7. ASSUME NEW j \in DOMAIN d PROVE EntryOK(d[j], tk, rn)
  <2>1. CASE j = n
    BY <1>1, <2>1
  <2>2. CASE j \in DOMAIN c
    <3>1. c[j].sock # 0 => SameAt(sk, tk, rm, rn, c[j].sock)
      BY <1>2, <2>2 DEF SameBut
    <3>2. EntryOK(c[j], tk, rn)
      BY <1>2, <2>2, <3>1, EntryFrame
    <3> QED
      BY <1>1, <2>2, <3>2
  <2> QED
    BY <1>3, <2>1, <2>2
<1> QED
  BY <1>0, <1>1, <1>4, <1>5, <1>6, <1>7 DEF ChainOK, EntriesOK

(* Entries leave the chain, the others stay in their order. *)
SameEntry(x, y) ==
    /\ x.type = y.type /\ x.nick = y.nick /\ x.sock = y.sock
    /\ x.filesize = y.filesize /\ x.transferred = y.transferred
    /\ x.eof = y.eof /\ x.fhandle = y.fhandle

ThinnedBy(e, c, d, gone) ==
    /\ e \in [DOMAIN d -> DOMAIN c]
    /\ \A j, k \in DOMAIN d : e[j] = e[k] => j = k
    /\ \A j \in DOMAIN d : e[j] \notin gone /\ SameEntry(d[j], c[e[j]]) /\ RequestOK(d[j])
    /\ \A i \in DOMAIN c : i \notin gone => \E j \in DOMAIN d : e[j] = i

Thinned(c, d, gone) == /\ d \in Seq(Pdcc) /\ Len(d) <= Len(c)
                       /\ \E e : ThinnedBy(e, c, d, gone)

LEMMA SameEntryOK ==
    ASSUME NEW x, NEW y, NEW sk, NEW rm, SameEntry(x, y), RequestOK(x), EntryOK(y, sk, rm)
    PROVE  EntryOK(x, sk, rm)
BY DEF SameEntry, EntryOK, HoldsOK, SendOK, RecvOK

(* What is needed of the sockets when the entries at "gone" leave. *)
ThinnedSockets(c, sk, tk, rm, rn, gone) ==
    /\ \A i \in DOMAIN c : i \notin gone /\ c[i].sock # 0 =>
         SameAt(sk, tk, rm, rn, c[i].sock)
    /\ \A fd \in DOMAIN tk : tk[fd].kind # "link" =>
         /\ fd \in DOMAIN sk /\ sk[fd].kind # "link"
         /\ \A i \in gone : c[i].sock # fd

LEMMA ThinChain ==
    ASSUME NEW c, NEW sk, NEW rm, NEW tk, NEW rn, NEW d, NEW gone,
           SockTable(sk), ChainOK(c, sk), EntriesOK(c, sk, rm),
           Thinned(c, d, gone), ThinnedSockets(c, sk, tk, rm, rn, gone)
    PROVE  ChainOK(d, tk) /\ EntriesOK(d, tk, rn)
<1>1. PICK e : ThinnedBy(e, c, d, gone)
  BY DEF Thinned
<1>2. ASSUME NEW j \in DOMAIN d
      PROVE  /\ e[j] \in DOMAIN c /\ e[j] \notin gone
             /\ SameEntry(d[j], c[e[j]]) /\ RequestOK(d[j])
  BY <1>1 DEF ThinnedBy
<1>3. \A j, k \in DOMAIN d : e[j] = e[k] => j = k
  BY <1>1 DEF ThinnedBy
<1>4. OwnSockets(d)
  <2>1. \A a, b \in DOMAIN c : c[a].sock = c[b].sock /\ c[a].sock # 0 => a = b
    BY DEF ChainOK, OwnSockets
  <2>2. \A j \in DOMAIN d : e[j] \in DOMAIN c /\ d[j].sock = c[e[j]].sock
    BY <1>2 DEF SameEntry
  <2> QED
    BY <1>3, <2>1, <2>2 DEF OwnSockets
<1>5. OwnFiles(d)
  <2>1. \A a, b \in DOMAIN c : c[a].fhandle = c[b].fhandle /\ c[a].fhandle # 0 => a = b
    BY DEF ChainOK, OwnFiles
  <2>2. \A j \in DOMAIN d : e[j] \in DOMAIN c /\ d[j].fhandle = c[e[j]].fhandle
    BY <1>2 DEF SameEntry
  <2> QED
    BY <1>3, <2>1, <2>2 DEF OwnFiles
<1>6. Covered(d, tk)
  <2> SUFFICES ASSUME NEW fd \in DOMAIN tk, tk[fd].kind # "link"
               PROVE  \E j \in DOMAIN d : d[j].sock = fd
    BY DEF Covered
  <2>1. PICK i \in DOMAIN c : c[i].sock = fd
    BY DEF ThinnedSockets, ChainOK, Covered
  <2>2. i \notin gone
    BY <2>1 DEF ThinnedSockets
  <2>3. PICK j \in DOMAIN d : e[j] = i
    BY <1>1, <2>2 DEF ThinnedBy
  <2> QED
    BY <1>2, <2>1, <2>3 DEF SameEntry
<1>7. ASSUME NEW j \in DOMAIN d PROVE EntryOK(d[j], tk, rn)
  <2>1. c[e[j]] \in Pdcc /\ EntryOK(c[e[j]], sk, rm)
    BY <1>2 DEF ChainOK, EntriesOK
  <2>2. c[e[j]].sock # 0 => SameAt(sk, tk, rm, rn, c[e[j]].sock)
    BY <1>2 DEF ThinnedSockets
  <2>3. EntryOK(c[e[j]], tk, rn)
    BY <2>1, <2>2, EntryFrame
  <2> QED
    BY <1>2, <2>3, SameEntryOK
<1> QED
  BY <1>4, <1>5, <1>6, <1>7 DEF ChainOK, EntriesOK, Thinned

(* The files of the entries that stay are kept. *)
Remaining(fl, d, named) ==
    {w \in fl : w[1] = named \/ \E i \in DOMAIN d : d[i].fhandle = w[1]}

LEMMA ThinFiles ==
    ASSUME NEW c, NEW d, NEW gone, NEW fl, NEW named, FilesOK(c, fl), Thinned(c, d, gone)
    PROVE  FilesOK(d, fl) /\ FilesOK(d, Remaining(fl, d, named))
<1>1. PICK e : ThinnedBy(e, c, d, gone)
  BY DEF Thinned
<1>2. ASSUME NEW j \in DOMAIN d PROVE FileOK(d[j], fl)
  <2>1. e[j] \in DOMAIN c /\ SameEntry(d[j], c[e[j]])
    BY <1>1 DEF ThinnedBy
  <2>2. FileOK(c[e[j]], fl)
    BY <2>1 DEF FilesOK
  <2> QED
    BY <2>1, <2>2 DEF FileOK, SameEntry
<1>3. ASSUME NEW j \in DOMAIN d PROVE FileOK(d[j], Remaining(fl, d, named))
  <2> SUFFICES ASSUME d[j].fhandle # 0
               PROVE  /\ \A w \in Remaining(fl, d, named) : w[1] = d[j].fhandle =>
                           w[2] \in 1 .. d[j].transferred /\ w[3] = d[j].nick
                      /\ \A o \in 1 .. d[j].transferred :
                           <<d[j].fhandle, o, d[j].nick>> \in Remaining(fl, d, named)
    BY DEF FileOK
  <2>1. \A w \in Remaining(fl, d, named) : w \in fl
    BY DEF Remaining
  <2>2. ASSUME NEW o \in 1 .. d[j].transferred
        PROVE  <<d[j].fhandle, o, d[j].nick>> \in Remaining(fl, d, named)
    <3>1. PICK w : w = <<d[j].fhandle, o, d[j].nick>>
      OBVIOUS
    <3>2. w \in fl /\ w[1] = d[j].fhandle
      BY <1>2, <3>1 DEF FileOK
    <3> QED
      BY <3>1, <3>2 DEF Remaining
  <2> QED
    BY <1>2, <2>1, <2>2 DEF FileOK
<1> QED
  BY <1>2, <1>3 DEF FilesOK, FileSet, OneSender, Remaining

(* The files are what they were, and so is what the entries have open. *)
LEMMA FilesFrame ==
    ASSUME NEW c, NEW d, NEW fl, FilesOK(c, fl),
           \A j \in DOMAIN d : d[j].fhandle = 0 \/ (j \in DOMAIN c /\ d[j] = c[j])
    PROVE  FilesOK(d, fl)
BY DEF FilesOK, FileOK

-----------------------------------------------------------------------------
(* removepdcc() and checkdcctimeouts() thin the chain *)

LEMMA RemoveThins ==
    ASSUME NEW c \in Seq(Pdcc), NEW p \in DOMAIN c, \A i \in DOMAIN c : RequestOK(c[i])
    PROVE  Thinned(c, RemoveAt(c, p), {p})
<1>1. PICK d, n : d = RemoveAt(c, p) /\ n = Len(c)
  OBVIOUS
<1>2. n \in Nat /\ DOMAIN c = 1 .. n /\ p \in 1 .. n
  BY <1>1
<1>3. /\ d \in Seq(Pdcc) /\ Len(d) = n - 1 /\ DOMAIN d = 1 .. n - 1
      /\ \A i \in 1 .. n - 1 : d[i] = IF i < p THEN c[i] ELSE c[i + 1]
  <2>1. p \in 1 .. Len(c)
    BY <1>1, <1>2
  <2>2. /\ d \in Seq(Pdcc) /\ Len(d) = Len(c) - 1
        /\ \A i \in 1 .. Len(c) - 1 : d[i] = IF i < p THEN c[i] ELSE c[i + 1]
    BY <1>1, <2>1, RemoveAtFacts, Zenon
  <2> QED
    BY <1>1, <1>2, <2>2
<1>4. PICK e : e = [j \in 1 .. n - 1 |-> IF j < p THEN j ELSE j + 1]
  OBVIOUS
<1>5. \A j \in 1 .. n - 1 : e[j] = (IF j < p THEN j ELSE j + 1) /\ e[j] \in 1 .. n
  BY <1>2, <1>4
<1>6. e \in [1 .. n - 1 -> 1 .. n]
  BY <1>4, <1>5
<1>7. \A j, k \in 1 .. n - 1 : e[j] = e[k] => j = k
  BY <1>2, <1>5
<1>8. \A j \in 1 .. n - 1 : e[j] # p /\ d[j] = c[e[j]]
  BY <1>2, <1>3, <1>5
<1>9. ASSUME NEW i \in 1 .. n, i # p PROVE \E j \in 1 .. n - 1 : e[j] = i
  <2>1. CASE i < p
    <3>1. i \in 1 .. n - 1 /\ e[i] = i
      BY <1>2, <1>5, <2>1
    <3> QED
      BY <3>1
  <2>2. CASE i > p
    <3>1. PICK j : j = i - 1
      OBVIOUS
    <3>2. j \in 1 .. n - 1 /\ e[j] = i
      BY <1>2, <1>5, <2>2, <3>1
    <3> QED
      BY <3>2
  <2> QED
    BY <1>2, <1>9, <2>1, <2>2
<1>10. ThinnedBy(e, c, d, {p})
  BY <1>2, <1>3, <1>5, <1>6, <1>7, <1>8, <1>9 DEF ThinnedBy, SameEntry
<1> QED
  BY <1>1, <1>2, <1>3, <1>10 DEF Thinned

(* The recursion of checkdcctimeouts() has a solution, and TickedPdcc is its *)
(* last value.                                                               *)
LEMMA TickedFunction ==
    ASSUME pdcc \in Seq(Pdcc)
    PROVE  \E h : /\ h[0] = <<>>
                  /\ \A i \in 1 .. Len(pdcc) :
                       h[i] = IF i \in Expired THEN h[i - 1]
                              ELSE Append(h[i - 1], Ticked(pdcc[i]))
                  /\ TickedPdcc = h[Len(pdcc)]
<1> DEFINE Body(h, i) == IF i = 0 THEN <<>>
                         ELSE IF i \in Expired THEN h[i - 1]
                              ELSE Append(h[i - 1], Ticked(pdcc[i]))
           Solves(h, n) == h = [i \in 0 .. n |-> Body(h, i)]
           T == {n \in Nat : \E h : Solves(h, n)}
<1>1. 0 \in T
  <2> DEFINE g == [i \in 0 .. 0 |-> <<>>]
  <2>1. Solves(g, 0)
    OBVIOUS
  <2> QED
    BY <2>1
<1>2. ASSUME NEW n \in Nat, n \in T PROVE n + 1 \in T
  <2>0. PICK h : Solves(h, n)
    BY <1>2
  <2>1. \A i \in 0 .. n : h[i] = Body(h, i)
    BY <2>0, Zenon
  <2> DEFINE g == [i \in 0 .. n + 1 |-> IF i <= n THEN h[i] ELSE Body(h, n + 1)]
  <2>2. ASSUME NEW i \in 0 .. n + 1 PROVE g[i] = Body(g, i)
    <3>1. CASE i = 0
      BY <2>1, <3>1
    <3>2. CASE i \in 1 .. n
      <4>1. g[i] = h[i] /\ g[i - 1] = h[i - 1] /\ h[i] = Body(h, i)
        <5>1. i <= n /\ i - 1 <= n /\ i - 1 \in 0 .. n + 1 /\ i \in 0 .. n
          BY <3>2
        <5> HIDE DEF Body
        <5> QED
          BY <2>1, <5>1
      <4> QED
        BY <3>2, <4>1
    <3>3. CASE i = n + 1
      <4>1. g[i] = Body(h, i) /\ g[i - 1] = h[i - 1]
        BY <3>3
      <4> QED
        BY <3>3, <4>1
    <3> QED
      BY <3>1, <3>2, <3>3
  <2>3. Solves(g, n + 1)
    BY <2>2
  <2> HIDE DEF g, Solves
  <2> QED
    BY <2>3
<1>3. Len(pdcc) \in T
  <2> HIDE DEF T
  <2>1. \A n \in Nat : n \in T
    BY <1>1, <1>2, NatSetInduction
  <2> QED
    BY <2>1
<1>4. PICK h : h = CHOOSE g : Solves(g, Len(pdcc))
  OBVIOUS
<1>5. Solves(h, Len(pdcc))
  BY <1>3, <1>4
<1>6. TickedPdcc = h[Len(pdcc)]
  BY <1>4 DEF TickedPdcc
<1>7. \A i \in 0 .. Len(pdcc) : h[i] = Body(h, i)
  BY <1>5, Zenon
<1>8. Len(pdcc) \in Nat
  OBVIOUS
<1> QED
  BY <1>6, <1>7, <1>8

LEMMA TickedEntry ==
    ASSUME NEW p \in Pdcc, RequestOK(p), ~(p.type \in Requests /\ p.delay = 1)
    PROVE  Ticked(p) \in Pdcc /\ SameEntry(Ticked(p), p) /\ RequestOK(Ticked(p))
<1>1. CASE p.type \in Requests
  <2>1. p.delay \in 0 .. DELAY /\ p.delay > 1
    BY <1>1 DEF Pdcc, RequestOK
  <2>2. PICK x : x = [p EXCEPT !.delay = p.delay - 1]
    OBVIOUS
  <2>3. x \in Pdcc /\ SameEntry(x, p) /\ RequestOK(x)
    BY <2>1, <2>2, DelayPositive DEF Pdcc, SameEntry, RequestOK
  <2>4. Ticked(p) = x
    BY <1>1, <2>1, <2>2 DEF Ticked
  <2> QED
    BY <2>3, <2>4
<1>2. CASE p.type \notin Requests
  BY <1>2 DEF Ticked, SameEntry
<1> QED
  BY <1>1, <1>2

(* The part of the chain up to an entry, thinned. *)
LEMMA TickedThins ==
    ASSUME pdcc \in Seq(Pdcc), \A i \in DOMAIN pdcc : RequestOK(pdcc[i])
    PROVE  Thinned(pdcc, TickedPdcc, Expired)
<1>1. PICK h : /\ h[0] = <<>>
               /\ \A i \in 1 .. Len(pdcc) :
                    h[i] = IF i \in Expired THEN h[i - 1]
                           ELSE Append(h[i - 1], Ticked(pdcc[i]))
               /\ TickedPdcc = h[Len(pdcc)]
  BY TickedFunction
<1>2. Len(pdcc) \in Nat /\ DOMAIN pdcc = 1 .. Len(pdcc)
  OBVIOUS
<1> DEFINE By(e, n, d) ==
             /\ d \in Seq(Pdcc) /\ Len(d) <= n
             /\ e \in [1 .. Len(d) -> 1 .. n]
             /\ \A j, k \in 1 .. Len(d) : e[j] = e[k] => j = k
             /\ \A j \in 1 .. Len(d) : /\ e[j] \notin Expired
                                       /\ SameEntry(d[j], pdcc[e[j]]) /\ RequestOK(d[j])
             /\ \A i \in 1 .. n : i \notin Expired => \E j \in 1 .. Len(d) : e[j] = i
           T == {n \in Nat : n <= Len(pdcc) => \E e : By(e, n, h[n])}
<1> HIDE DEF By
<1>3. 0 \in T
  <2>1. PICK d, e : d = h[0] /\ e = [j \in 1 .. 0 |-> j]
    OBVIOUS
  <2>2. d \in Seq(Pdcc) /\ Len(d) = 0
    BY <1>1, <2>1
  <2>3. 1 .. 0 = {}
    OBVIOUS
  <2>4. By(e, 0, d)
    BY <2>1, <2>2, <2>3 DEF By
  <2> QED
    BY <2>1, <2>4
<1>4. ASSUME NEW n \in Nat, n \in T PROVE n + 1 \in T
  <2> SUFFICES ASSUME n + 1 <= Len(pdcc) PROVE \E e : By(e, n + 1, h[n + 1])
    BY DEF T
  <2>1. PICK e, d : d = h[n] /\ By(e, n, d)
    <3>1. n <= Len(pdcc)
      BY <1>2
    <3> QED
      BY <1>4, <3>1
  <2>2. n + 1 \in 1 .. Len(pdcc) /\ (n + 1) - 1 = n
    BY <1>2
  <2>3. h[n + 1] = IF n + 1 \in Expired THEN d ELSE Append(d, Ticked(pdcc[n + 1]))
    BY <1>1, <2>1, <2>2, Zenon
  <2>4. CASE n + 1 \in Expired
    <3>1. d \in Seq(Pdcc) /\ Len(d) \in Nat
      BY <2>1 DEF By
    <3>2. Len(d) <= n + 1 /\ e \in [1 .. Len(d) -> 1 .. n + 1]
      BY <2>1, <3>1 DEF By
    <3>3. \A i \in 1 .. n + 1 : i \notin Expired => i \in 1 .. n
      BY <2>4
    <3>4. By(e, n + 1, d)
      BY <2>1, <3>1, <3>2, <3>3 DEF By
    <3> QED
      BY <2>3, <2>4, <3>4, Zenon
  <2>5. CASE n + 1 \notin Expired
    <3>1. PICK x, g, m : /\ x = Ticked(pdcc[n + 1]) /\ g = Append(d, x)
                         /\ m = Len(d) + 1
      OBVIOUS
    <3>2. x \in Pdcc /\ SameEntry(x, pdcc[n + 1]) /\ RequestOK(x)
      BY <1>2, <2>2, <2>5, <3>1, TickedEntry DEF Expired
    <3>3. /\ d \in Seq(Pdcc) /\ Len(d) \in Nat /\ m \in 1 .. m /\ Len(d) = m - 1
          /\ m <= n + 1 /\ m \in Nat
      BY <2>1, <3>1 DEF By
    <3>4. /\ g \in Seq(Pdcc) /\ Len(g) = m /\ g[m] = x
          /\ \A j \in 1 .. m - 1 : g[j] = d[j]
      BY <3>1, <3>2, <3>3
    <3>5. PICK f : f = [j \in 1 .. m |-> IF j = m THEN n + 1 ELSE e[j]]
      OBVIOUS
    <3>6. /\ \A j \in 1 .. m - 1 : e[j] \in 1 .. n
          /\ \A j, k \in 1 .. m - 1 : e[j] = e[k] => j = k
          /\ \A j \in 1 .. m - 1 : /\ e[j] \notin Expired
                                   /\ SameEntry(d[j], pdcc[e[j]]) /\ RequestOK(d[j])
          /\ \A i \in 1 .. n : i \notin Expired => \E j \in 1 .. m - 1 : e[j] = i
      BY <2>1, <3>3 DEF By
    <3>7. \A j \in 1 .. m : j = m \/ (j \in 1 .. m - 1 /\ j # m)
      BY <3>3
    <3>8. f[m] = n + 1 /\ \A j \in 1 .. m - 1 : f[j] = e[j]
      BY <3>3, <3>5
    <3>9. f \in [1 .. m -> 1 .. n + 1]
      BY <3>5, <3>6, <3>7
    <3>10. \A j, k \in 1 .. m : f[j] = f[k] => j = k
      BY <3>6, <3>7, <3>8
    <3>11. \A j \in 1 .. m : /\ f[j] \notin Expired
                             /\ SameEntry(g[j], pdcc[f[j]]) /\ RequestOK(g[j])
      BY <2>5, <3>2, <3>4, <3>6, <3>7, <3>8
    <3>12. ASSUME NEW i \in 1 .. n + 1, i \notin Expired
           PROVE  \E j \in 1 .. m : f[j] = i
      <4>1. CASE i = n + 1
        BY <3>3, <3>8, <4>1
      <4>2. CASE i \in 1 .. n
        <5>1. PICK j \in 1 .. m - 1 : e[j] = i
          BY <3>6, <3>12, <4>2
        <5>2. j \in 1 .. m /\ f[j] = i
          BY <3>3, <3>8, <5>1
        <5> QED
          BY <5>2
      <4> QED
        BY <4>1, <4>2
    <3>13. By(f, n + 1, g)
      BY <3>3, <3>4, <3>9, <3>10, <3>11, <3>12 DEF By
    <3> QED
      BY <2>3, <2>5, <3>1, <3>13, Zenon
  <2> QED
    BY <2>4, <2>5
<1>5. Len(pdcc) \in T
  <2> HIDE DEF T
  <2>1. \A n \in Nat : n \in T
    BY <1>3, <1>4, NatSetInduction
  <2> QED
    BY <1>2, <2>1
<1>6. PICK e, d : d = TickedPdcc /\ By(e, Len(pdcc), d)
  BY <1>1, <1>2, <1>5
<1>7. DOMAIN d = 1 .. Len(d)
  BY <1>6 DEF By
<1>8. ThinnedBy(e, pdcc, d, Expired)
  BY <1>2, <1>6, <1>7 DEF ThinnedBy, By
<1> QED
  BY <1>6, <1>8 DEF Thinned, By

-----------------------------------------------------------------------------
(* Sockets open and close *)

LEMMA ClosedTable ==
    ASSUME SockTable(sock), NEW fds
    PROVE  SockTable(Closed(fds))
BY DEF SockTable, Closed

LEMMA WithTable ==
    ASSUME NEW sk, SockTable(sk), NEW fd \in Fds, NEW k \in Kinds,
           NEW g \in {"syn", "conn"}, NEW who \in Bots \cup Nicks
    PROVE  SockTable(With(sk, fd, Open(k, g, who)))
<1>1. PICK v : v = Open(k, g, who)
  OBVIOUS
<1>2. v \in Socket
  BY <1>1 DEF Open, Socket
<1> QED
  BY <1>1, <1>2 DEF SockTable, With

(* A step of the pending DCCs that leaves the sockets of bots alone. *)
LEMMA PendingStep ==
    ASSUME DccInv, dccs' = dccs, saved' = saved,
           \A fd \in DOMAIN sock : sock[fd].kind = "link" =>
             fd \in DOMAIN sock' /\ sock'[fd] = sock[fd],
           SockTable(sock'), WireTable(remote', sock'),
           ChainOK(pdcc', sock'), Len(pdcc') <= MaxDccs,
           EntriesOK(pdcc', sock', remote'), FilesOK(pdcc', files'), missing' = 0
    PROVE  DccInv'
<1>1. LinksOK(dccs, sock)
  BY DEF DccInv
<1>2. PICK tk : tk = sock'
  OBVIOUS
<1>3. LinksOK(dccs, tk)
  BY <1>1, <1>2, LinksFrame
<1> QED
  BY <1>2, <1>3 DEF DccInv

(* removepdcc(). *)
LEMMA GoneStep ==
    ASSUME DccInv, NEW fd \in DOMAIN sock, sock[fd].kind # "link", Gone(fd),
           dccs' = dccs, saved' = saved, missing' = 0
    PROVE  DccInv'
<1>1. PICK i : i = PdccOf(fd)
  OBVIOUS
<1>2. i \in DOMAIN pdcc /\ pdcc[i].sock = fd /\ fd # 0 /\ i # 0
  BY <1>1, EntryOfKind DEF DccInv, ChainOK
<1>3. PICK d, tk, rn : d = RemoveAt(pdcc, i) /\ tk = Closed({fd}) /\ rn = Quiet(fd)
  OBVIOUS
<1>4. /\ pdcc' = d /\ sock' = tk /\ remote' = rn
      /\ files' = Remaining(files, d, disk')
  BY <1>1, <1>2, <1>3, Zenon DEF Gone, Removed, Kept, Remaining
<1>5. /\ pdcc \in Seq(Pdcc) /\ SockTable(sock) /\ ChainOK(pdcc, sock)
      /\ EntriesOK(pdcc, sock, remote) /\ FilesOK(pdcc, files)
      /\ WireTable(remote, sock) /\ Len(pdcc) <= MaxDccs
      /\ \A j \in DOMAIN pdcc : RequestOK(pdcc[j])
  BY DEF DccInv, ChainOK, EntriesOK, EntryOK
<1>6. Thinned(pdcc, d, {i})
  BY <1>2, <1>3, <1>5, RemoveThins
<1>7. /\ DOMAIN tk = DOMAIN sock \ {fd} /\ \A f \in DOMAIN tk : tk[f] = sock[f]
      /\ DOMAIN rn = DOMAIN remote \ {fd} /\ \A f \in DOMAIN rn : rn[f] = remote[f]
  BY <1>3 DEF Closed, Quiet
<1>8. SockTable(tk)
  BY <1>3, <1>5, ClosedTable
<1>9. WireTable(rn, tk)
  <2>1. rn \in [DOMAIN rn -> Wire]
    BY <1>3, <1>5 DEF Quiet, WireTable
  <2> QED
    BY <1>5, <1>7, <2>1 DEF WireTable
<1>10. ThinnedSockets(pdcc, sock, tk, remote, rn, {i})
  <2>1. ASSUME NEW j \in DOMAIN pdcc, j # i, pdcc[j].sock # 0
        PROVE  SameAt(sock, tk, remote, rn, pdcc[j].sock)
    <3>1. pdcc[j] \in Pdcc /\ HoldsOK(pdcc[j], sock)
      BY <1>5 DEF EntriesOK, EntryOK
    <3>2. pdcc[j].sock \in DOMAIN sock
      BY <1>5, <2>1, <3>1, HeldKind
    <3>3. pdcc[j].sock # fd
      BY <1>2, <1>5, <2>1 DEF ChainOK, OwnSockets
    <3> QED
      BY <1>5, <1>7, <3>2, <3>3 DEF SameAt, WireTable
  <2> QED
    BY <1>2, <1>7, <2>1 DEF ThinnedSockets
<1>11. ChainOK(d, tk) /\ EntriesOK(d, tk, rn)
  BY <1>5, <1>6, <1>10, ThinChain
<1>12. FilesOK(d, Remaining(files, d, disk'))
  <2>1. PICK named : named = disk'
    OBVIOUS
  <2> QED
    BY <1>5, <1>6, <2>1, ThinFiles
<1>13. Len(d) <= MaxDccs
  <2>1. d \in Seq(Pdcc) /\ Len(d) <= Len(pdcc)
    BY <1>6 DEF Thinned
  <2> QED
    BY <1>5, <2>1, BoundNatural
<1>14. \A f \in DOMAIN sock : sock[f].kind = "link" => f \in DOMAIN tk /\ tk[f] = sock[f]
  BY <1>7
<1> QED
  BY <1>4, <1>8, <1>9, <1>11, <1>12, <1>13, <1>14, PendingStep

-----------------------------------------------------------------------------
(* A session ends *)

LEMMA SessionOverStep ==
    ASSUME DccInv, NEW fd \in Fds, SessionOver(fd)
    PROVE  DccInv'
<1>1. missing' = 0
  BY DEF SessionOver, DccInv
<1>2. fd \in DOMAIN sock /\ sock[fd].kind # "link" /\ Gone(fd)
  BY DEF SessionOver
<1>3. dccs' = dccs /\ saved' = saved
  BY DEF SessionOver, linkVars
<1> QED
  BY <1>1, <1>2, <1>3, GoneStep

LEMMA CancelStep ==
    ASSUME DccInv, NEW n \in Nicks, NEW file \in BOOLEAN, canceldcc(n, file)
    PROVE  DccInv'
<1> DEFINE open == IF file THEN {"RECVFROM", "SENDTO"} ELSE {"CHATTO", "CHATFROM"}
           T == {j \in 1 .. Len(pdcc) : pdcc[j].type \in open /\ pdcc[j].nick = n}
<1>1. PICK i : /\ i = IF T # {} THEN Min(T) ELSE 0
               /\ i # 0 /\ Gone(pdcc[i].sock)
               /\ dccs' = dccs /\ saved' = saved /\ missing' = missing
  BY Zenon DEF canceldcc, linkVars, SelectInSeq
<1>2. T \subseteq Nat
  OBVIOUS
<1>3. i \in T
  <2> HIDE DEF T
  <2> QED
    BY <1>1, <1>2, MinMember
<1>4. i \in DOMAIN pdcc /\ pdcc[i].type \in {"RECVFROM", "SENDTO", "CHATTO", "CHATFROM"}
  BY <1>3 DEF DccInv, ChainOK
<1>5. pdcc[i] \in Pdcc /\ HoldsOK(pdcc[i], sock) /\ SockTable(sock)
  BY <1>4 DEF DccInv, ChainOK, EntriesOK, EntryOK
<1>6. Holds[pdcc[i].type] # {}
  BY <1>4, HoldsFacts
<1>7. pdcc[i].sock # 0
  BY <1>5, <1>6, FdsPositive DEF HoldsOK, SockTable
<1>8. pdcc[i].sock \in DOMAIN sock /\ sock[pdcc[i].sock].kind # "link"
  BY <1>5, <1>7, HeldKind
<1>9. missing' = 0
  BY <1>1 DEF DccInv
<1> QED
  BY <1>1, <1>8, <1>9, GoneStep

-----------------------------------------------------------------------------
(* Requests *)

LEMMA NewPdccFacts ==
    ASSUME NEW t \in Requests, NEW n \in Nicks, NEW fd \in Fds \cup {0}, NEW size \in Nat
    PROVE  /\ NewPdcc(t, n, fd, size) \in Pdcc
           /\ NewPdcc(t, n, fd, size).type = t /\ NewPdcc(t, n, fd, size).sock = fd
           /\ NewPdcc(t, n, fd, size).fhandle = 0
           /\ RequestOK(NewPdcc(t, n, fd, size))
           /\ NewPdcc(t, n, fd, size).transferred <= NewPdcc(t, n, fd, size).filesize
BY DelayPositive DEF NewPdcc, Pdcc, Types, RequestOK

(* A new request is consistent if it holds what its type says. *)
LEMMA RequestEntry ==
    ASSUME NEW p \in Pdcc, NEW sk, NEW rm, RequestOK(p), HoldsOK(p, sk),
           p.type \in Requests, p.fhandle = 0, p.transferred <= p.filesize
    PROVE  EntryOK(p, sk, rm)
BY DEF EntryOK, SendOK, RecvOK, Requests

LEMMA FilesAppend ==
    ASSUME NEW c \in Seq(Pdcc), NEW x \in Pdcc, NEW fl, FilesOK(c, fl), x.fhandle = 0
    PROVE  FilesOK(Append(c, x), fl)
<1>1. PICK d : d = Append(c, x)
  OBVIOUS
<1>2. DOMAIN d = 1 .. Len(c) + 1 /\ DOMAIN c = 1 .. Len(c) /\ Len(c) \in Nat
  BY <1>1
<1>3. d[Len(c) + 1] = x /\ \A j \in DOMAIN c : d[j] = c[j]
  BY <1>1
<1>4. \A j \in DOMAIN d : j = Len(c) + 1 \/ j \in DOMAIN c
  BY <1>2
<1>5. FilesOK(d, fl)
  BY <1>3, <1>4, FilesFrame
<1> QED
  BY <1>1, <1>5

(* The chain with a request that has no socket yet. *)
LEMMA RequestedChain ==
    ASSUME DccInv, Room, NEW n \in Nicks, NEW size \in Nat,
           NEW t \in {"CHATFROMRQ", "RECVFROMRQ"}
    PROVE  /\ ChainOK(Requested(t, n, size), sock)
           /\ EntriesOK(Requested(t, n, size), sock, remote)
           /\ FilesOK(Requested(t, n, size), files)
           /\ Len(Requested(t, n, size)) <= MaxDccs
<1>1. PICK x : x = NewPdcc(t, n, 0, size)
  OBVIOUS
<1>2. /\ x \in Pdcc /\ x.type = t /\ x.sock = 0 /\ x.fhandle = 0 /\ RequestOK(x)
      /\ t \in Requests /\ x.transferred <= x.filesize
  BY <1>1, NewPdccFacts DEF Requests
<1>3. HoldsOK(x, sock)
  BY <1>2, HoldsFacts DEF HoldsOK
<1>4. EntryOK(x, sock, remote)
  BY <1>2, <1>3, RequestEntry
<1>5. SockTable(sock) /\ ChainOK(pdcc, sock) /\ EntriesOK(pdcc, sock, remote)
  BY DEF DccInv
<1>6. 0 \notin DOMAIN sock
  BY <1>5, FdsPositive DEF SockTable
<1>7. SameBut(sock, sock, remote, remote, 0, x.sock)
  BY <1>6 DEF SameBut, SameAt
<1>8. ChainOK(Append(pdcc, x), sock) /\ EntriesOK(Append(pdcc, x), sock, remote)
  BY <1>2, <1>4, <1>5, <1>6, <1>7, AppendEntry
<1>9. FilesOK(Append(pdcc, x), files)
  BY <1>2, FilesAppend DEF DccInv, ChainOK
<1>10. Len(Append(pdcc, x)) <= MaxDccs
  BY BoundNatural DEF DccInv, ChainOK, Room
<1> QED
  BY <1>1, <1>8, <1>9, <1>10 DEF Requested

LEMMA GotChatRequestStep ==
    ASSUME DccInv, NEW n \in Nicks, GotChatRequest(n)
    PROVE  DccInv'
<1>1. PICK d : d = Requested("CHATFROMRQ", n, 0)
  OBVIOUS
<1>2. /\ pdcc' = d /\ sock' = sock /\ remote' = remote /\ files' = files
      /\ dccs' = dccs /\ saved' = saved /\ missing' = missing /\ Room
  BY <1>1 DEF GotChatRequest, linkVars
<1>3. /\ ChainOK(d, sock) /\ EntriesOK(d, sock, remote) /\ FilesOK(d, files)
      /\ Len(d) <= MaxDccs
  BY <1>1, <1>2, RequestedChain
<1> QED
  BY <1>2, <1>3 DEF DccInv

LEMMA OfferStep ==
    ASSUME DccInv, NEW n \in Nicks, NEW size \in Nat, NEW t, NEW k, Offer(t, k, n, size),
           (t = "CHATTORQ" /\ k = "chatlisten") \/ (t = "SENDTORQ" /\ k = "sendlisten")
    PROVE  DccInv'
<1>1. PICK fd \in Free : /\ sock' = With(sock, fd, Open(k, "syn", n))
                         /\ pdcc' = Append(pdcc, NewPdcc(t, n, fd, size))
  BY DEF Offer
<1>2. /\ Room /\ remote' = remote /\ files' = files
      /\ dccs' = dccs /\ saved' = saved /\ missing' = missing
  BY DEF Offer, linkVars
<1>3. PICK x, tk : x = NewPdcc(t, n, fd, size) /\ tk = With(sock, fd, Open(k, "syn", n))
  OBVIOUS
<1>4. fd \in Fds /\ fd \notin DOMAIN sock /\ fd # 0
  BY FdsPositive DEF Free
<1>5. /\ x \in Pdcc /\ x.type = t /\ x.sock = fd /\ x.fhandle = 0 /\ RequestOK(x)
      /\ t \in Requests /\ x.transferred <= x.filesize
  BY <1>3, <1>4, NewPdccFacts DEF Requests
<1>6. SockTable(sock) /\ ChainOK(pdcc, sock) /\ EntriesOK(pdcc, sock, remote)
  BY DEF DccInv
<1>7. /\ DOMAIN tk = DOMAIN sock \cup {fd} /\ tk[fd] = Open(k, "syn", n)
      /\ \A f \in DOMAIN sock : tk[f] = sock[f]
  BY <1>3, <1>4 DEF With
<1>8. tk[fd].kind = k
  BY <1>7 DEF Open
<1>9. SockTable(tk)
  BY <1>3, <1>4, <1>6, WithTable DEF Kinds
<1>10. WireTable(remote, tk)
  BY <1>4, <1>7, <1>8 DEF WireTable, DccInv
<1>11. HoldsOK(x, tk)
  BY <1>5, <1>7, <1>8, HoldsFacts DEF HoldsOK
<1>12. EntryOK(x, tk, remote)
  BY <1>5, <1>11, RequestEntry
<1>13. SameBut(sock, tk, remote, remote, 0, x.sock)
  <2>1. 0 \notin DOMAIN sock
    BY <1>6, FdsPositive DEF SockTable
  <2> QED
    BY <1>5, <1>7, <2>1 DEF SameBut, SameAt
<1>14. ChainOK(Append(pdcc, x), tk) /\ EntriesOK(Append(pdcc, x), tk, remote)
  BY <1>4, <1>5, <1>6, <1>12, <1>13, AppendEntry
<1>15. FilesOK(Append(pdcc, x), files)
  BY <1>5, FilesAppend DEF DccInv, ChainOK
<1>16. Len(Append(pdcc, x)) <= MaxDccs
  BY <1>2, BoundNatural DEF DccInv, ChainOK, Room
<1>17. \A f \in DOMAIN sock : sock[f].kind = "link" => f \in DOMAIN tk /\ tk[f] = sock[f]
  BY <1>7
<1>18. /\ pdcc' = Append(pdcc, x) /\ sock' = tk /\ missing' = 0
  BY <1>1, <1>2, <1>3 DEF DccInv
<1> QED
  BY <1>2, <1>9, <1>10, <1>14, <1>15, <1>16, <1>17, <1>18, PendingStep

(* A request of the chain gets a connecting socket, or goes with a failed one. *)
LEMMA AnswerStep ==
    ASSUME DccInv, NEW n \in Nicks, NEW c, NEW rq, NEW t, NEW k,
           (rq = "CHATFROMRQ" /\ t = "CHATFROM" /\ k = "chat") \/
             (rq = "RECVFROMRQ" /\ t = "RECVFROM" /\ k = "recv"),
           ChainOK(c, sock), EntriesOK(c, sock, remote), FilesOK(c, files),
           Len(c) <= MaxDccs, Answer(c, rq, t, k, n),
           files' = files, dccs' = dccs, saved' = saved, missing' = missing
    PROVE  DccInv'
<1> DEFINE T == {j \in 1 .. Len(c) : c[j].type = rq /\ c[j].nick = n}
<1>0. PICK i : i = IF T # {} THEN Min(T) ELSE 0
  OBVIOUS
<1>1. \/ pdcc' = c /\ sock' = sock /\ remote' = remote
      \/ i # 0 /\ pdcc' = RemoveAt(c, i) /\ sock' = sock /\ remote' = remote
      \/ /\ i # 0
         /\ \E fd \in Free :
              /\ sock' = With(sock, fd, Open(k, "syn", n))
              /\ pdcc' = [c EXCEPT ![i].sock = fd, ![i].delay = 0, ![i].type = t]
              /\ remote' = IF k = "recv"
                           THEN With(remote, fd, [wire |-> 0, has |-> 0, acks |-> <<>>])
                           ELSE remote
  BY <1>0, Zenon DEF Answer, SelectInSeq
<1>2. i # 0 => i \in DOMAIN c /\ c[i].type = rq
  <2>1. T \subseteq Nat
    OBVIOUS
  <2>2. i # 0 => i \in T
    <3> HIDE DEF T
    <3> QED
      BY <1>0, <2>1, MinMember
  <2> QED
    BY <2>2 DEF ChainOK
<1>3. /\ SockTable(sock) /\ c \in Seq(Pdcc) /\ WireTable(remote, sock)
      /\ \A j \in DOMAIN c : RequestOK(c[j]) /\ HoldsOK(c[j], sock) /\ c[j] \in Pdcc
  BY DEF DccInv, ChainOK, EntriesOK, EntryOK
<1>4. CASE pdcc' = c /\ sock' = sock /\ remote' = remote
  BY <1>4 DEF DccInv
<1>5. CASE i # 0 /\ pdcc' = RemoveAt(c, i) /\ sock' = sock /\ remote' = remote
  <2>1. PICK d : d = RemoveAt(c, i)
    OBVIOUS
  <2>2. Thinned(c, d, {i})
    BY <1>2, <1>3, <1>5, <2>1, RemoveThins
  <2>3. c[i].sock = 0
    BY <1>2, <1>3, <1>5, HoldsFacts DEF HoldsOK
  <2>4. ThinnedSockets(c, sock, sock, remote, remote, {i})
    <3>1. 0 \notin DOMAIN sock
      BY <1>3, FdsPositive DEF SockTable
    <3>2. \A j \in DOMAIN c : c[j].sock # 0 => c[j].sock \in DOMAIN sock
      BY <1>3, HeldKind
    <3> QED
      BY <2>3, <3>1, <3>2 DEF ThinnedSockets, SameAt
  <2>5. ChainOK(d, sock) /\ EntriesOK(d, sock, remote)
    BY <1>3, <2>2, <2>4, ThinChain
  <2>6. FilesOK(d, files)
    BY <2>2, ThinFiles
  <2>7. Len(d) <= MaxDccs
    BY <1>3, <2>2, BoundNatural DEF Thinned
  <2> QED
    BY <1>5, <2>1, <2>5, <2>6, <2>7 DEF DccInv
<1>6. CASE /\ i # 0
           /\ \E fd \in Free :
                /\ sock' = With(sock, fd, Open(k, "syn", n))
                /\ pdcc' = [c EXCEPT ![i].sock = fd, ![i].delay = 0, ![i].type = t]
                /\ remote' = IF k = "recv"
                             THEN With(remote, fd, [wire |-> 0, has |-> 0, acks |-> <<>>])
                             ELSE remote
  <2>1. PICK fd \in Free :
               /\ sock' = With(sock, fd, Open(k, "syn", n))
               /\ pdcc' = [c EXCEPT ![i].sock = fd, ![i].delay = 0, ![i].type = t]
               /\ remote' = IF k = "recv"
                            THEN With(remote, fd, [wire |-> 0, has |-> 0, acks |-> <<>>])
                            ELSE remote
    BY <1>6
  <2>2. i \in DOMAIN c /\ c[i].type = rq /\ c[i] \in Pdcc
    BY <1>2, <1>3, <1>6
  <2>3. PICK x, tk, w, rn, d :
          /\ x = [c[i] EXCEPT !.sock = fd, !.delay = 0, !.type = t]
          /\ tk = With(sock, fd, Open(k, "syn", n))
          /\ w = [wire |-> 0, has |-> 0, acks |-> <<>>]
          /\ rn = IF k = "recv" THEN With(remote, fd, w) ELSE remote
          /\ d = [c EXCEPT ![i] = x]
    OBVIOUS
  <2>4. pdcc' = d /\ sock' = tk /\ remote' = rn
    BY <2>1, <2>2, <2>3
  <2>5. fd \in Fds /\ fd \notin DOMAIN sock /\ fd # 0
    BY FdsPositive DEF Free
  <2>6. /\ x \in Pdcc /\ x.type = t /\ x.sock = fd /\ x.delay = 0
        /\ x.filesize = c[i].filesize /\ x.transferred = c[i].transferred
        /\ x.fhandle = c[i].fhandle
    <3>1. t \in Types /\ 0 \in 0 .. DELAY /\ fd \in Fds \cup {0}
      BY <2>5, DelayPositive DEF Types
    <3> QED
      BY <2>2, <2>3, <3>1 DEF Pdcc
  <2>7. c[i].transferred = 0 /\ c[i].fhandle = 0 /\ c[i].filesize \in Nat
    <3>1. RequestOK(c[i]) /\ c[i].type \in Requests
      BY <1>3, <2>2 DEF Requests
    <3>2. EntryOK(c[i], sock, remote)
      BY <2>2 DEF EntriesOK
    <3> QED
      BY <2>2, <3>1, <3>2 DEF RequestOK, EntryOK, Pdcc
  <2>8. c[i].sock = 0
    BY <1>3, <2>2, HoldsFacts DEF HoldsOK
  <2>9. /\ DOMAIN tk = DOMAIN sock \cup {fd} /\ tk[fd] = Open(k, "syn", n)
        /\ \A f \in DOMAIN sock : tk[f] = sock[f]
    BY <2>3, <2>5 DEF With
  <2>10. tk[fd].kind = k /\ tk[fd].flag = "syn"
    BY <2>9 DEF Open
  <2>11. w \in Wire /\ w.wire = 0 /\ w.has = 0
    BY <2>3 DEF Wire
  <2>12. /\ k = "recv" => rn = With(remote, fd, w)
         /\ k # "recv" => rn = remote
    BY <2>3
  <2>13. k = "recv" => /\ DOMAIN rn = DOMAIN remote \cup {fd} /\ rn[fd] = w
                       /\ \A f \in DOMAIN remote : f # fd => rn[f] = remote[f]
    BY <2>12 DEF With
  <2>14. /\ DOMAIN remote \subseteq DOMAIN sock
         /\ \A f \in DOMAIN remote : rn[f] = remote[f]
    BY <1>3, <2>5, <2>12, <2>13 DEF WireTable
  <2>15. WireTable(rn, tk)
    <3>1. CASE k = "recv"
      <4>1. \A f \in DOMAIN rn : rn[f] \in Wire
        BY <1>3, <2>11, <2>13, <2>14, <3>1 DEF WireTable
      <4>2. rn \in [DOMAIN rn -> Wire]
        BY <2>12, <3>1, <4>1 DEF With
      <4> QED
        BY <1>3, <2>5, <2>9, <2>10, <2>13, <3>1, <4>2 DEF WireTable
    <3>2. CASE k # "recv"
      BY <1>3, <2>5, <2>9, <2>10, <2>12, <3>2 DEF WireTable
    <3> QED
      BY <3>1, <3>2
  <2>16. SockTable(tk)
    BY <1>3, <2>3, <2>5, WithTable DEF Kinds
  <2>17. HoldsOK(x, tk)
    BY <2>6, <2>9, <2>10, HoldsFacts DEF HoldsOK
  <2>18. EntryOK(x, tk, rn)
    BY <2>6, <2>7, <2>10, <2>11, <2>13, <2>17
    DEF EntryOK, RequestOK, SendOK, RecvOK, Requests
  <2>19. SameBut(sock, tk, remote, rn, c[i].sock, x.sock)
    <3>1. 0 \notin DOMAIN sock
      BY <1>3, FdsPositive DEF SockTable
    <3> QED
      BY <1>3, <2>6, <2>8, <2>9, <2>14, <3>1 DEF SameBut, SameAt, WireTable
  <2>20. d \in Seq(Pdcc) /\ Replaced(c, d, i, x) /\ Len(d) = Len(c)
    BY <1>3, <2>2, <2>3, <2>6 DEF Replaced
  <2>21. OwnAgain(c, sock, i, x)
    BY <2>5, <2>6 DEF OwnAgain
  <2>22. ChainOK(d, tk) /\ EntriesOK(d, tk, rn)
    BY <1>3, <2>2, <2>6, <2>18, <2>19, <2>20, <2>21, ReplaceEntry
  <2>23. FilesOK(d, files)
    <3>1. DOMAIN d = DOMAIN c
      BY <2>3
    <3>2. \A j \in DOMAIN d : d[j].fhandle = 0 \/ (j \in DOMAIN c /\ d[j] = c[j])
      BY <2>6, <2>7, <2>20, <3>1 DEF Replaced
    <3> QED
      BY <3>2, FilesFrame
  <2>24. \A f \in DOMAIN sock : sock[f].kind = "link" => f \in DOMAIN tk /\ tk[f] = sock[f]
    BY <2>9
  <2>25. missing' = 0
    BY DEF DccInv
  <2> QED
    BY <2>4, <2>15, <2>16, <2>20, <2>22, <2>23, <2>24, <2>25, PendingStep
<1> QED
  BY <1>1, <1>4, <1>5, <1>6

LEMMA GotFileRequestStep ==
    ASSUME DccInv, NEW n \in Nicks, GotFileRequest(n)
    PROVE  DccInv'
<1>1. PICK c : c = Requested("RECVFROMRQ", n, Size[n])
  OBVIOUS
<1>2. /\ Room /\ files' = files /\ dccs' = dccs /\ saved' = saved /\ missing' = missing
      /\ \/ Answer(c, "RECVFROMRQ", "RECVFROM", "recv", n)
         \/ pdcc' = c /\ sock' = sock /\ remote' = remote
  BY <1>1, Zenon DEF GotFileRequest, linkVars
<1>3. Size[n] \in Nat
  BY SizeNatural
<1>4. /\ ChainOK(c, sock) /\ EntriesOK(c, sock, remote) /\ FilesOK(c, files)
      /\ Len(c) <= MaxDccs
  BY <1>1, <1>2, <1>3, RequestedChain
<1>5. CASE Answer(c, "RECVFROMRQ", "RECVFROM", "recv", n)
  BY <1>2, <1>4, <1>5, AnswerStep
<1>6. CASE pdcc' = c /\ sock' = sock /\ remote' = remote
  BY <1>2, <1>4, <1>6 DEF DccInv
<1> QED
  BY <1>2, <1>5, <1>6

-----------------------------------------------------------------------------
(* An entry of the chain goes on *)

LEMMA EntryStep ==
    ASSUME DccInv, NEW i \in DOMAIN pdcc, NEW x \in Pdcc, NEW tk, NEW rn,
           pdcc' = [pdcc EXCEPT ![i] = x], sock' = tk, remote' = rn,
           dccs' = dccs, saved' = saved, missing' = 0,
           SockTable(tk), WireTable(rn, tk),
           SameBut(sock, tk, remote, rn, pdcc[i].sock, x.sock),
           EntryOK(x, tk, rn), OwnAgain(pdcc, sock, i, x),
           FilesOK(pdcc', files')
    PROVE  DccInv'
<1>1. PICK d : d = [pdcc EXCEPT ![i] = x]
  OBVIOUS
<1>2. /\ SockTable(sock) /\ ChainOK(pdcc, sock) /\ EntriesOK(pdcc, sock, remote)
      /\ pdcc \in Seq(Pdcc) /\ Len(pdcc) <= MaxDccs
  BY DEF DccInv, ChainOK
<1>3. d \in Seq(Pdcc) /\ Replaced(pdcc, d, i, x) /\ Len(d) = Len(pdcc)
  BY <1>1, <1>2 DEF Replaced
<1>4. ChainOK(d, tk) /\ EntriesOK(d, tk, rn)
  BY <1>2, <1>3, ReplaceEntry
<1>5. pdcc[i] \in Pdcc /\ HoldsOK(pdcc[i], sock)
  BY <1>2 DEF EntriesOK, EntryOK
<1>6. \A f \in DOMAIN sock : sock[f].kind = "link" => f # pdcc[i].sock
  <2>1. 0 \notin DOMAIN sock
    BY <1>2, FdsPositive DEF SockTable
  <2> QED
    BY <1>2, <1>5, <2>1, HeldKind
<1>7. \A f \in DOMAIN sock : sock[f].kind = "link" => f \in DOMAIN tk /\ tk[f] = sock[f]
  BY <1>6 DEF SameBut, SameAt
<1> QED
  BY <1>1, <1>2, <1>3, <1>4, <1>7, PendingStep

(* The files when the entry's own file is what it was. *)
LEMMA SameFiles ==
    ASSUME DccInv, NEW i \in DOMAIN pdcc, NEW x \in Pdcc, x.fhandle = pdcc[i].fhandle,
           x.fhandle # 0 => x.nick = pdcc[i].nick /\ x.transferred = pdcc[i].transferred
    PROVE  FilesOK([pdcc EXCEPT ![i] = x], files)
<1>1. PICK d : d = [pdcc EXCEPT ![i] = x]
  OBVIOUS
<1>2. DOMAIN d = DOMAIN pdcc /\ d[i] = x /\ \A j \in DOMAIN pdcc : j # i => d[j] = pdcc[j]
  BY <1>1
<1>3. FilesOK(pdcc, files)
  BY DEF DccInv
<1>4. FileOK(x, files)
  BY <1>3 DEF FilesOK, FileOK
<1> QED
  BY <1>1, <1>2, <1>3, <1>4 DEF FilesOK

(* The listener closes and the accepted socket is in the table. *)
Moved(tk, fd, new, k) ==
    /\ new \in Fds /\ new # 0 /\ new \notin DOMAIN sock
    /\ SockTable(tk) /\ new \in DOMAIN tk
    /\ DOMAIN tk = (DOMAIN sock \ {fd}) \cup {new}
    /\ tk[new].kind = k /\ tk[new].flag = "conn"
    /\ \A f \in DOMAIN sock \ {fd} : tk[f] = sock[f]

LEMMA MoveToAccepted ==
    ASSUME DccInv, NEW fd \in DOMAIN sock, NEW new \in Free, NEW k \in Kinds, NEW tk,
           tk = With(Closed({fd}), new, Open(k, "conn", sock[fd].who))
    PROVE  Moved(tk, fd, new, k)
<1>1. new \in Fds /\ new \notin DOMAIN sock /\ new # 0
  BY FdsPositive DEF Free
<1>2. PICK cl, v : cl = Closed({fd}) /\ v = Open(k, "conn", sock[fd].who)
  OBVIOUS
<1>3. /\ DOMAIN cl = DOMAIN sock \ {fd} /\ \A f \in DOMAIN sock \ {fd} : cl[f] = sock[f]
  BY <1>2 DEF Closed
<1>4. SockTable(sock)
  BY DEF DccInv
<1>5. SockTable(cl) /\ sock[fd].who \in Bots \cup Nicks
  BY <1>2, <1>4, ClosedTable DEF SockTable, Socket
<1>6. SockTable(tk)
  BY <1>1, <1>2, <1>5, WithTable
<1>7. tk = With(cl, new, v) /\ v.kind = k /\ v.flag = "conn"
  BY <1>2 DEF Open
<1>8. DOMAIN tk = DOMAIN cl \cup {new} /\ tk[new] = v
      /\ \A f \in DOMAIN cl : f # new => tk[f] = cl[f]
  BY <1>7 DEF With
<1> QED
  BY <1>1, <1>3, <1>6, <1>7, <1>8 DEF Moved

LEMMA AcceptChatStep ==
    ASSUME DccInv, NEW fd \in Fds, acceptpdccchat(fd)
    PROVE  DccInv'
<1>1. PICK i : i = PdccOf(fd)
  OBVIOUS
<1>2. PICK new \in Free :
         /\ sock' = With(Closed({fd}), new, Open("chat", "conn", sock[fd].who))
         /\ pdcc' = [pdcc EXCEPT ![i].sock = new, ![i].delay = 0, ![i].type = "CHATTO"]
  BY <1>1 DEF acceptpdccchat
<1>3. /\ fd \in DOMAIN sock /\ sock[fd].kind = "chatlisten"
      /\ remote' = remote /\ files' = files /\ dccs' = dccs /\ saved' = saved
      /\ missing' = missing
  BY DEF acceptpdccchat, Is, linkVars
<1>4. /\ i \in DOMAIN pdcc /\ pdcc[i].sock = fd /\ pdcc[i] \in Pdcc
      /\ TypeOfKind(sock[fd].kind, pdcc[i].type) /\ EntryOK(pdcc[i], sock, remote)
  BY <1>1, <1>3, EntryOfKind
<1>5. PICK x, tk : /\ x = [pdcc[i] EXCEPT !.sock = new, !.delay = 0, !.type = "CHATTO"]
                   /\ tk = With(Closed({fd}), new, Open("chat", "conn", sock[fd].who))
  OBVIOUS
<1>6. /\ new \in Fds /\ new # 0 /\ new \notin DOMAIN sock
      /\ SockTable(tk) /\ new \in DOMAIN tk
      /\ DOMAIN tk = (DOMAIN sock \ {fd}) \cup {new}
      /\ tk[new].kind = "chat" /\ tk[new].flag = "conn"
      /\ \A f \in DOMAIN sock \ {fd} : tk[f] = sock[f]
  <2>1. PICK k \in Kinds : k = "chat"
    BY DEF Kinds
  <2>2. Moved(tk, fd, new, k)
    BY <1>3, <1>5, <2>1, MoveToAccepted
  <2> QED
    BY <2>1, <2>2 DEF Moved
<1>7. pdcc' = [pdcc EXCEPT ![i] = x] /\ sock' = tk
  BY <1>2, <1>4, <1>5
<1>8. /\ x \in Pdcc /\ x.type = "CHATTO" /\ x.sock = new
      /\ x.filesize = pdcc[i].filesize /\ x.transferred = pdcc[i].transferred
      /\ x.fhandle = pdcc[i].fhandle /\ x.nick = pdcc[i].nick
  <2>1. "CHATTO" \in Types /\ 0 \in 0 .. DELAY /\ new \in Fds \cup {0}
    BY <1>6, DelayPositive DEF Types
  <2> QED
    BY <1>4, <1>5, <2>1 DEF Pdcc
<1>9. pdcc[i].fhandle = 0
  BY <1>3, <1>4 DEF TypeOfKind, EntryOK
<1>10. EntryOK(x, tk, remote)
  BY <1>4, <1>6, <1>8, <1>9, HoldsFacts
  DEF EntryOK, HoldsOK, RequestOK, SendOK, RecvOK, Requests
<1>11. WireTable(remote, sock)
  BY DEF DccInv
<1>12. WireTable(remote, tk)
  BY <1>3, <1>6, <1>11 DEF WireTable
<1>13. SameBut(sock, tk, remote, remote, pdcc[i].sock, x.sock)
  BY <1>4, <1>6, <1>8 DEF SameBut, SameAt
<1>14. OwnAgain(pdcc, sock, i, x)
  BY <1>6, <1>8 DEF OwnAgain
<1>15. FilesOK(pdcc', files')
  BY <1>3, <1>4, <1>7, <1>8, SameFiles
<1>16. missing' = 0
  BY <1>3 DEF DccInv
<1> QED
  BY <1>3, <1>4, <1>6, <1>7, <1>8, <1>10, <1>12, <1>13, <1>14, <1>15, <1>16, EntryStep

-----------------------------------------------------------------------------
(* Outgoing files *)

(* One read: at most a block, and a short one at the end of the file only. *)
LEMMA ReadFacts ==
    ASSUME NEW p \in Pdcc, p.transferred <= p.filesize
    PROVE  /\ Read(p) \in Pdcc /\ Read(p).transferred <= p.filesize
           /\ Read(p).transferred - p.transferred \in 0 .. BLOCK
           /\ Read(p).eof => Read(p).transferred = p.filesize
           /\ Read(p).type = p.type /\ Read(p).nick = p.nick /\ Read(p).sock = p.sock
           /\ Read(p).filesize = p.filesize /\ Read(p).fhandle = p.fhandle
           /\ Read(p).delay = p.delay
<1>1. PICK rest, rc : rest = p.filesize - p.transferred /\ rc = Min({BLOCK, rest})
  OBVIOUS
<1>2. p.filesize \in Nat /\ p.transferred \in Nat
  BY DEF Pdcc
<1>3. rest \in Nat /\ {BLOCK, rest} \subseteq Nat
  BY <1>1, <1>2 DEF BLOCK
<1>4. rc \in {BLOCK, rest} /\ rc <= BLOCK /\ rc <= rest
  BY <1>1, <1>3, MinMember
<1>5. PICK x : x = [p EXCEPT !.transferred = p.transferred + rc, !.eof = rc < BLOCK]
  OBVIOUS
<1>6. Read(p) = x
  BY <1>1, <1>5, Zenon DEF Read
<1>7. rc \in Nat /\ p.transferred + rc \in Nat /\ (rc < BLOCK) \in BOOLEAN
  BY <1>2, <1>3, <1>4 DEF BLOCK
<1>8. /\ x \in Pdcc /\ x.transferred = p.transferred + rc /\ x.eof = (rc < BLOCK)
      /\ x.type = p.type /\ x.nick = p.nick /\ x.sock = p.sock
      /\ x.filesize = p.filesize /\ x.fhandle = p.fhandle /\ x.delay = p.delay
  BY <1>5, <1>7 DEF Pdcc
<1>9. /\ x.transferred <= p.filesize /\ x.transferred - p.transferred \in 0 .. BLOCK
      /\ x.eof => x.transferred = p.filesize
  <2>1. x.eof => rc < BLOCK
    BY <1>8, Zenon
  <2>2. x.transferred = p.transferred + rc
    BY <1>8
  <2> QED
    BY <1>1, <1>2, <1>3, <1>4, <1>7, <2>1, <2>2 DEF BLOCK
<1> QED
  BY <1>6, <1>8, <1>9

LEMMA AcceptFileStep ==
    ASSUME DccInv, NEW fd \in Fds, acceptpdccfile(fd)
    PROVE  DccInv'
<1>0. PICK i, p : i = PdccOf(fd) /\ p = Read(pdcc[i])
  OBVIOUS
<1>1. /\ fd \in DOMAIN sock /\ sock[fd].kind = "sendlisten"
      /\ files' = files /\ dccs' = dccs /\ saved' = saved /\ missing' = missing
  BY DEF acceptpdccfile, Is, linkVars
<1>2. \/ sock' = sock /\ pdcc' = pdcc /\ remote' = remote
      \/ \E new \in Free :
           /\ sock' = With(Closed({fd}), new, Open("send", "conn", sock[fd].who))
           /\ pdcc' = [pdcc EXCEPT ![i] =
                         [p EXCEPT !.sock = new, !.delay = 0, !.type = "SENDTO"]]
           /\ remote' = With(remote, new,
                             [wire |-> p.transferred, has |-> 0, acks |-> <<>>])
  BY <1>0, Zenon DEF acceptpdccfile
<1>3. CASE sock' = sock /\ pdcc' = pdcc /\ remote' = remote
  BY <1>1, <1>3 DEF DccInv
<1>4. CASE \E new \in Free :
           /\ sock' = With(Closed({fd}), new, Open("send", "conn", sock[fd].who))
           /\ pdcc' = [pdcc EXCEPT ![i] =
                         [p EXCEPT !.sock = new, !.delay = 0, !.type = "SENDTO"]]
           /\ remote' = With(remote, new,
                             [wire |-> p.transferred, has |-> 0, acks |-> <<>>])
  <2>1. PICK new \in Free :
           /\ sock' = With(Closed({fd}), new, Open("send", "conn", sock[fd].who))
           /\ pdcc' = [pdcc EXCEPT ![i] =
                         [p EXCEPT !.sock = new, !.delay = 0, !.type = "SENDTO"]]
           /\ remote' = With(remote, new,
                             [wire |-> p.transferred, has |-> 0, acks |-> <<>>])
    BY <1>4
  <2>2. /\ i \in DOMAIN pdcc /\ pdcc[i].sock = fd /\ pdcc[i] \in Pdcc
        /\ TypeOfKind(sock[fd].kind, pdcc[i].type) /\ EntryOK(pdcc[i], sock, remote)
    BY <1>0, <1>1, EntryOfKind
  <2>3. /\ pdcc[i].transferred = 0 /\ pdcc[i].fhandle = 0 /\ pdcc[i].transferred <= pdcc[i].filesize
    BY <1>1, <2>2 DEF TypeOfKind, EntryOK, RequestOK, Requests
  <2>4. /\ p \in Pdcc /\ p.transferred <= p.filesize /\ p.transferred \in 0 .. BLOCK
        /\ p.eof => p.transferred = p.filesize
        /\ p.fhandle = 0
    <3>1. p.transferred - pdcc[i].transferred \in 0 .. BLOCK
      BY <1>0, <2>2, <2>3, ReadFacts
    <3>2. p \in Pdcc /\ p.transferred \in Nat
      BY <1>0, <2>2, <2>3, ReadFacts DEF Pdcc
    <3>3. p.transferred \in 0 .. BLOCK
      BY <2>3, <3>1, <3>2
    <3> QED
      BY <1>0, <2>2, <2>3, <3>2, <3>3, ReadFacts
  <2>5. PICK x, tk, w, rn :
          /\ x = [p EXCEPT !.sock = new, !.delay = 0, !.type = "SENDTO"]
          /\ tk = With(Closed({fd}), new, Open("send", "conn", sock[fd].who))
          /\ w = [wire |-> p.transferred, has |-> 0, acks |-> <<>>]
          /\ rn = With(remote, new, w)
    OBVIOUS
  <2>6. pdcc' = [pdcc EXCEPT ![i] = x] /\ sock' = tk /\ remote' = rn
    BY <2>1, <2>5
  <2>7. /\ new \in Fds /\ new # 0 /\ new \notin DOMAIN sock
        /\ SockTable(tk) /\ new \in DOMAIN tk
        /\ DOMAIN tk = (DOMAIN sock \ {fd}) \cup {new}
        /\ tk[new].kind = "send" /\ tk[new].flag = "conn"
        /\ \A f \in DOMAIN sock \ {fd} : tk[f] = sock[f]
    <3>1. PICK k \in Kinds : k = "send"
      BY DEF Kinds
    <3>2. Moved(tk, fd, new, k)
      BY <1>1, <2>5, <3>1, MoveToAccepted
    <3> QED
      BY <3>1, <3>2 DEF Moved
  <2>8. /\ x \in Pdcc /\ x.type = "SENDTO" /\ x.sock = new
        /\ x.filesize = p.filesize /\ x.transferred = p.transferred
        /\ x.fhandle = 0 /\ x.nick = p.nick /\ x.eof = p.eof
    <3>1. "SENDTO" \in Types /\ 0 \in 0 .. DELAY /\ new \in Fds \cup {0}
      BY <2>7, DelayPositive DEF Types
    <3> QED
      BY <2>4, <2>5, <3>1 DEF Pdcc
  <2>9. /\ w \in Wire /\ w.wire = p.transferred /\ w.has = 0 /\ DOMAIN w.acks = {}
    BY <2>4, <2>5 DEF Wire
  <2>10. WireTable(remote, sock) /\ new \notin DOMAIN remote /\ fd \notin DOMAIN remote
    BY <1>1, <2>7 DEF DccInv, WireTable
  <2>11. /\ DOMAIN rn = DOMAIN remote \cup {new} /\ rn[new] = w
         /\ \A f \in DOMAIN remote : rn[f] = remote[f]
    BY <2>5, <2>10 DEF With
  <2>12. WireTable(rn, tk)
    <3>1. \A f \in DOMAIN rn : rn[f] \in Wire
      BY <2>9, <2>10, <2>11 DEF WireTable
    <3>2. rn \in [DOMAIN rn -> Wire]
      BY <2>5, <3>1 DEF With
    <3> QED
      BY <1>1, <2>7, <2>10, <2>11, <3>2 DEF WireTable
  <2>13. EntryOK(x, tk, rn)
    <3>1. HoldsOK(x, tk)
      BY <2>7, <2>8, HoldsFacts DEF HoldsOK
    <3>2. SendOK(x, tk, rn)
      BY <2>4, <2>8, <2>9, <2>11 DEF SendOK, BLOCK
    <3> QED
      BY <2>4, <2>8, <3>1, <3>2 DEF EntryOK, RequestOK, RecvOK, Requests
  <2>14. SameBut(sock, tk, remote, rn, pdcc[i].sock, x.sock)
    BY <2>2, <2>7, <2>8, <2>10, <2>11 DEF SameBut, SameAt, WireTable
  <2>15. OwnAgain(pdcc, sock, i, x)
    BY <2>3, <2>7, <2>8 DEF OwnAgain
  <2>16. FilesOK(pdcc', files')
    BY <1>1, <2>2, <2>3, <2>6, <2>8, SameFiles
  <2>17. missing' = 0
    BY <1>1 DEF DccInv
  <2> QED
    BY <1>1, <2>2, <2>6, <2>7, <2>8, <2>12, <2>13, <2>14, <2>15, <2>16, <2>17, EntryStep
<1> QED
  BY <1>2, <1>3, <1>4

(* What is under way on one socket changes. *)
LEMMA WireUpdate ==
    ASSUME DccInv, NEW fd \in DOMAIN remote, NEW w \in Wire, NEW rn,
           rn = [remote EXCEPT ![fd] = w]
    PROVE  WireTable(rn, sock) /\ rn[fd] = w /\ SameBut(sock, sock, remote, rn, fd, fd)
<1>1. WireTable(remote, sock)
  BY DEF DccInv
<1>2. DOMAIN rn = DOMAIN remote /\ rn[fd] = w /\ rn \in [DOMAIN rn -> Wire]
  BY <1>1 DEF WireTable
<1>3. \A f \in DOMAIN remote : f # fd => rn[f] = remote[f]
  OBVIOUS
<1> QED
  BY <1>1, <1>2, <1>3 DEF WireTable, SameBut, SameAt

(* A step of one transfer that leaves the sockets and the files alone. *)
LEMMA TransferStep ==
    ASSUME DccInv, NEW i \in DOMAIN pdcc, NEW x \in Pdcc, NEW w \in Wire, NEW rn,
           NEW fd \in DOMAIN remote, pdcc[i].sock = fd, x.sock = fd,
           x.fhandle = pdcc[i].fhandle, rn = [remote EXCEPT ![fd] = w],
           pdcc' = [pdcc EXCEPT ![i] = x], sock' = sock, remote' = rn,
           dccs' = dccs, saved' = saved, missing' = missing,
           EntryOK(x, sock, rn), FilesOK(pdcc', files')
    PROVE  DccInv'
<1>1. WireTable(rn, sock) /\ rn[fd] = w /\ SameBut(sock, sock, remote, rn, fd, fd)
  BY WireUpdate
<1>2. OwnAgain(pdcc, sock, i, x)
  BY DEF OwnAgain
<1>3. SockTable(sock) /\ missing' = 0
  BY DEF DccInv
<1> QED
  BY <1>1, <1>2, <1>3, EntryStep

LEMMA PeerTakesStep ==
    ASSUME DccInv, NEW fd \in Fds, NEW k, PeerTakes(fd, k)
    PROVE  DccInv'
<1>1. PICK i, r : i = PdccOf(fd) /\ r = remote[fd]
  OBVIOUS
<1>2. /\ fd \in DOMAIN sock /\ sock[fd].kind = "send" /\ k \in 1 .. r.wire
      /\ sock' = sock /\ pdcc' = pdcc /\ dccs' = dccs /\ saved' = saved
      /\ missing' = missing /\ files' = files
  BY <1>1 DEF PeerTakes, Is, linkVars
<1>3. /\ i \in DOMAIN pdcc /\ pdcc[i].sock = fd /\ pdcc[i] \in Pdcc
      /\ pdcc[i].type = "SENDTO" /\ EntryOK(pdcc[i], sock, remote)
  BY <1>1, <1>2, EntryOfKind DEF TypeOfKind
<1>4. fd \in DOMAIN remote /\ r \in Wire
  BY <1>1, <1>2 DEF DccInv, WireTable
<1>5. r.wire \in Nat /\ r.has \in Nat /\ r.acks \in Seq(Nat) /\ k \in Nat
  BY <1>2, <1>4 DEF Wire
<1>6. PICK w, rn : /\ w = [wire |-> r.wire - k, has |-> r.has + k,
                           acks |-> Append(r.acks, r.has + k)]
                   /\ rn = [remote EXCEPT ![fd] = w]
  OBVIOUS
<1>7. remote' = rn
  BY <1>1, <1>4, <1>6 DEF PeerTakes
<1>8. /\ w \in Wire /\ w.wire = r.wire - k /\ w.has = r.has + k
      /\ w.acks = Append(r.acks, r.has + k)
  <2>1. Append(r.acks, r.has + k) \in Seq(Nat) /\ r.wire - k \in Nat /\ r.has + k \in Nat
    BY <1>2, <1>5
  <2> QED
    BY <1>6, <2>1 DEF Wire
<1>9. SendOK(pdcc[i], sock, remote)
  BY <1>3 DEF EntryOK
<1>10. /\ r.wire <= BLOCK /\ r.has + r.wire = pdcc[i].transferred
       /\ \A j \in DOMAIN r.acks : r.acks[j] <= r.has
       /\ pdcc[i].eof => pdcc[i].transferred = pdcc[i].filesize
  BY <1>1, <1>3, <1>9 DEF SendOK
<1>11. w.wire <= BLOCK /\ w.has + w.wire = pdcc[i].transferred
  BY <1>2, <1>5, <1>8, <1>10 DEF BLOCK
<1>12. ASSUME NEW j \in DOMAIN w.acks PROVE w.acks[j] <= w.has
  <2>1. PICK a : a = r.acks
    OBVIOUS
  <2>2. a \in Seq(Nat) /\ \A m \in 1 .. Len(a) : a[m] <= r.has /\ a[m] \in Nat
    BY <1>5, <1>10, <2>1
  <2>3. /\ DOMAIN w.acks = 1 .. Len(a) + 1 /\ w.acks[Len(a) + 1] = r.has + k
        /\ \A m \in 1 .. Len(a) : w.acks[m] = a[m]
    BY <1>5, <1>8, <2>1, <2>2
  <2>4. CASE j = Len(a) + 1
    BY <1>5, <1>8, <2>3, <2>4
  <2>5. CASE j \in 1 .. Len(a)
    <3>1. w.acks[j] = a[j] /\ a[j] <= r.has /\ a[j] \in Nat
      BY <2>2, <2>3, <2>5
    <3>2. w.has = r.has + k /\ r.has \in Nat /\ k \in Nat
      BY <1>2, <1>5, <1>8
    <3> QED
      BY <3>1, <3>2
  <2> QED
    BY <2>2, <2>3, <2>4, <2>5
<1>13. rn[fd] = w
  BY <1>4, <1>6
<1>14. SendOK(pdcc[i], sock, rn)
  BY <1>3, <1>10, <1>11, <1>12, <1>13 DEF SendOK
<1>15. EntryOK(pdcc[i], sock, rn)
  BY <1>3, <1>14 DEF EntryOK, RecvOK
<1>16. pdcc' = [pdcc EXCEPT ![i] = pdcc[i]]
  BY <1>2, <1>3 DEF DccInv, ChainOK
<1>17. FilesOK(pdcc', files')
  BY <1>2 DEF DccInv
<1> QED
  BY <1>2, <1>3, <1>4, <1>6, <1>7, <1>8, <1>15, <1>16, <1>17, TransferStep

(* The acknowledgements that were read are gone, the others stay. *)
LEMMA RestFacts ==
    ASSUME NEW a \in Seq(Nat), NEW n \in 1 .. Len(a), NEW b \in Nat,
           \A j \in DOMAIN a : a[j] <= b
    PROVE  /\ SubSeq(a, n + 1, Len(a)) \in Seq(Nat)
           /\ \A j \in DOMAIN SubSeq(a, n + 1, Len(a)) : SubSeq(a, n + 1, Len(a))[j] <= b
           /\ Head(a) \in Nat /\ Head(a) <= b
<1>1. PICK s : s = SubSeq(a, n + 1, Len(a))
  OBVIOUS
<1>2. /\ s \in Seq(Nat) /\ Len(s) = Len(a) - n
      /\ \A j \in 1 .. Len(a) - n : s[j] = a[n + j]
      /\ DOMAIN s = 1 .. Len(s) /\ Len(a) \in Nat /\ n \in Nat
  BY <1>1
<1>3. ASSUME NEW j \in DOMAIN s PROVE s[j] <= b
  <2>1. PICK m : m = n + j
    OBVIOUS
  <2>2. j \in 1 .. Len(a) - n /\ m \in 1 .. Len(a)
    <3>1. PICK l : l = Len(a)
      OBVIOUS
    <3>2. j \in 1 .. l - n /\ l \in Nat /\ n \in Nat
      BY <1>2, <3>1, Zenon
    <3>3. n + j \in 1 .. l
      BY <3>2
    <3> QED
      BY <2>1, <3>1, <3>2, <3>3, Zenon
  <2>3. DOMAIN a = 1 .. Len(a)
    OBVIOUS
  <2>4. s[j] = a[m]
    <3>1. s[j] = a[n + j]
      BY <1>2, <2>2, Zenon
    <3> QED
      BY <2>1, <3>1, Zenon
  <2>5. m \in DOMAIN a
    BY <2>2, <2>3, Zenon
  <2>6. a[m] <= b
    BY <2>5, Zenon
  <2> QED
    BY <2>4, <2>6, Zenon
<1>4. Len(a) > 0 /\ 1 \in DOMAIN a
  OBVIOUS
<1>5. Head(a) = a[1]
  BY <1>4
<1> QED
  BY <1>1, <1>2, <1>3, <1>4, <1>5

(* The largest of 0 and a difference that is 0. *)
LEMMA NothingMissing ==
    ASSUME DccInv, NEW size \in Nat, Report(size, size)
    PROVE  missing' = 0
<1>1. missing = 0 /\ size - size = 0
  BY DEF DccInv
<1>2. missing' = Max({0})
  <2>1. {missing, size - size} = {0}
    BY <1>1
  <2> QED
    BY <2>1 DEF Report
<1>3. Max({0}) = 0
  <2>1. \E x \in {0} : \A y \in {0} : x >= y
    OBVIOUS
  <2> QED
    BY <2>1, MaxMember
<1> QED
  BY <1>2, <1>3

LEMMA SendAckStep ==
    ASSUME DccInv, NEW fd \in Fds, NEW n, pdccfilesendack(fd, n)
    PROVE  DccInv'
<1>1. PICK i, r, p, ack, rest :
        /\ i = PdccOf(fd) /\ r = remote[fd] /\ p = pdcc[i] /\ ack = Head(r.acks)
        /\ rest = SubSeq(r.acks, n + 1, Len(r.acks))
  OBVIOUS
<1>2. /\ fd \in DOMAIN sock /\ sock[fd].kind = "send" /\ n \in 1 .. Len(r.acks)
      /\ dccs' = dccs /\ saved' = saved
  BY <1>1 DEF pdccfilesendack, Is, linkVars
<1>3. /\ i \in DOMAIN pdcc /\ p.sock = fd /\ p \in Pdcc
      /\ p.type = "SENDTO" /\ EntryOK(p, sock, remote)
  BY <1>1, <1>2, EntryOfKind DEF TypeOfKind
<1>4. fd \in DOMAIN remote /\ r \in Wire
  BY <1>1, <1>2 DEF DccInv, WireTable
<1>5. r.wire \in Nat /\ r.has \in Nat /\ r.acks \in Seq(Nat)
  BY <1>4 DEF Wire
<1>6. /\ r.wire <= BLOCK /\ r.has + r.wire = p.transferred
      /\ \A j \in DOMAIN r.acks : r.acks[j] <= r.has
      /\ p.eof => p.transferred = p.filesize
  BY <1>1, <1>3 DEF EntryOK, SendOK
<1>7. /\ rest \in Seq(Nat) /\ \A j \in DOMAIN rest : rest[j] <= r.has
      /\ ack \in Nat /\ ack <= r.has
  BY <1>1, <1>2, <1>5, <1>6, RestFacts
<1>8. /\ p.transferred \in Nat /\ p.filesize \in Nat /\ p.transferred <= p.filesize
  BY <1>3 DEF EntryOK, Pdcc
<1>9. \/ /\ remote' = [remote EXCEPT ![fd].acks = rest]
         /\ sock' = sock /\ pdcc' = pdcc /\ files' = files /\ missing' = missing
      \/ p.transferred = ack /\ p.eof /\ Report(p.filesize, r.has) /\ Gone(fd)
      \/ /\ p.transferred = ack
         /\ pdcc' = [pdcc EXCEPT ![i] = Read(p)]
         /\ remote' = [remote EXCEPT
              ![fd].acks = rest,
              ![fd].wire = @ + Read(p).transferred - p.transferred]
         /\ sock' = sock /\ files' = files /\ missing' = missing
  BY <1>1, Zenon DEF pdccfilesendack, Covers
<1>10. CASE /\ remote' = [remote EXCEPT ![fd].acks = rest]
            /\ sock' = sock /\ pdcc' = pdcc /\ files' = files /\ missing' = missing
  <2>1. PICK w, rn : w = [r EXCEPT !.acks = rest] /\ rn = [remote EXCEPT ![fd] = w]
    OBVIOUS
  <2>2. w \in Wire /\ w.wire = r.wire /\ w.has = r.has /\ w.acks = rest
    BY <1>4, <1>7, <2>1 DEF Wire
  <2>3. remote' = rn /\ rn[fd] = w
    BY <1>1, <1>4, <1>10, <2>1
  <2>4. SendOK(p, sock, rn)
    BY <1>3, <1>6, <1>7, <2>2, <2>3 DEF SendOK
  <2>5. EntryOK(p, sock, rn)
    BY <1>3, <2>4 DEF EntryOK, RecvOK
  <2>6. pdcc' = [pdcc EXCEPT ![i] = p]
    BY <1>1, <1>3, <1>10 DEF DccInv, ChainOK
  <2>7. FilesOK(pdcc', files')
    BY <1>10 DEF DccInv
  <2> QED
    <3>1. pdcc[i].sock = fd /\ p.fhandle = pdcc[i].fhandle
      BY <1>1, <1>3
    <3> QED
      BY <1>2, <1>3, <1>4, <1>10, <2>1, <2>2, <2>3, <2>5, <2>6, <2>7, <3>1, TransferStep
<1>11. CASE p.transferred = ack /\ p.eof /\ Report(p.filesize, r.has) /\ Gone(fd)
  <2>1. r.has = p.filesize
    BY <1>5, <1>6, <1>7, <1>8, <1>11
  <2>2. missing' = 0
    BY <1>8, <1>11, <2>1, NothingMissing
  <2> QED
    BY <1>2, <1>11, <2>2, GoneStep
<1>12. CASE /\ p.transferred = ack
            /\ pdcc' = [pdcc EXCEPT ![i] = Read(p)]
            /\ remote' = [remote EXCEPT
                 ![fd].acks = rest,
                 ![fd].wire = @ + Read(p).transferred - p.transferred]
            /\ sock' = sock /\ files' = files /\ missing' = missing
  <2>1. r.wire = 0 /\ r.has = p.transferred
    BY <1>5, <1>6, <1>7, <1>8, <1>12
  <2>2. PICK x, w, rn : /\ x = Read(p)
                        /\ w = [r EXCEPT !.acks = rest,
                                         !.wire = r.wire + x.transferred - p.transferred]
                        /\ rn = [remote EXCEPT ![fd] = w]
    OBVIOUS
  <2>3. /\ x \in Pdcc /\ x.transferred <= x.filesize
        /\ x.transferred - p.transferred \in 0 .. BLOCK
        /\ x.eof => x.transferred = x.filesize
        /\ x.type = "SENDTO" /\ x.sock = fd /\ x.fhandle = p.fhandle /\ x.nick = p.nick
    BY <1>3, <1>8, <2>2, ReadFacts
  <2>4. x.transferred \in Nat
    BY <2>3 DEF Pdcc
  <2>5. PICK m : m = r.wire + x.transferred - p.transferred
    OBVIOUS
  <2>6. m \in Nat /\ m <= BLOCK /\ r.has + m = x.transferred
    BY <1>8, <2>1, <2>3, <2>4, <2>5 DEF BLOCK
  <2>7. w \in Wire /\ w.wire = m /\ w.has = r.has /\ w.acks = rest
    BY <1>4, <1>7, <2>2, <2>5, <2>6 DEF Wire
  <2>8. remote' = rn /\ rn[fd] = w
    <3>1. remote' = [remote EXCEPT ![fd].acks = rest, ![fd].wire = m]
      BY <1>1, <1>12, <2>2, <2>5, Zenon
    <3>2. remote' = rn
      BY <1>1, <1>4, <2>2, <2>5, <3>1
    <3> QED
      BY <1>4, <2>2, <3>2
  <2>9. SendOK(x, sock, rn)
    BY <1>7, <2>3, <2>6, <2>7, <2>8 DEF SendOK
  <2>10. EntryOK(x, sock, rn)
    <3>1. HoldsOK(x, sock)
      BY <1>3, <2>3 DEF EntryOK, HoldsOK
    <3>2. x.fhandle = 0
      BY <1>3, <2>3 DEF EntryOK
    <3> QED
      BY <2>3, <2>9, <3>1, <3>2 DEF EntryOK, RequestOK, RecvOK, Requests
  <2>11. pdcc' = [pdcc EXCEPT ![i] = x]
    BY <1>12, <2>2
  <2>12. p.fhandle = 0
    BY <1>3 DEF EntryOK
  <2>13. FilesOK(pdcc', files')
    <3>1. x.fhandle = pdcc[i].fhandle /\ x.fhandle = 0
      BY <1>1, <2>3, <2>12
    <3>2. FilesOK([pdcc EXCEPT ![i] = x], files)
      BY <1>3, <2>3, <3>1, SameFiles
    <3> QED
      BY <1>12, <2>11, <3>2
  <2> QED
    <3>1. pdcc[i].sock = fd /\ x.fhandle = pdcc[i].fhandle
      BY <1>1, <1>3, <2>3
    <3> QED
      BY <1>2, <1>3, <1>4, <1>12, <2>2, <2>3, <2>7, <2>8, <2>10, <2>11, <2>13, <3>1,
         TransferStep
<1> QED
  BY <1>9, <1>10, <1>11, <1>12

-----------------------------------------------------------------------------
(* Incoming files *)

LEMMA ConnectedFacts ==
    ASSUME DccInv, NEW fd \in DOMAIN sock, NEW tk, tk = Connected(fd)
    PROVE  /\ SockTable(tk) /\ DOMAIN tk = DOMAIN sock
           /\ tk[fd].kind = sock[fd].kind /\ tk[fd].flag = "conn"
           /\ \A f \in DOMAIN sock : f # fd => tk[f] = sock[f]
           /\ WireTable(remote, tk)
           /\ SameBut(sock, tk, remote, remote, fd, fd)
<1>1. SockTable(sock) /\ WireTable(remote, sock)
  BY DEF DccInv
<1>2. PICK v : v = [sock[fd] EXCEPT !.flag = "conn"]
  OBVIOUS
<1>3. v \in Socket /\ v.kind = sock[fd].kind /\ v.flag = "conn"
  BY <1>1, <1>2 DEF SockTable, Socket
<1>4. tk = [sock EXCEPT ![fd] = v]
  BY <1>1, <1>2 DEF Connected
<1>5. SockTable(tk)
  BY <1>1, <1>3, <1>4 DEF SockTable
<1>6. DOMAIN tk = DOMAIN sock /\ tk[fd] = v /\ \A f \in DOMAIN sock : f # fd => tk[f] = sock[f]
  BY <1>4
<1>7. \A f \in DOMAIN sock : tk[f].kind = sock[f].kind
  BY <1>3, <1>6
<1>8. WireTable(remote, tk)
  BY <1>1, <1>6, <1>7 DEF WireTable
<1> QED
  BY <1>3, <1>5, <1>6, <1>8 DEF SameBut, SameAt

LEMMA ChatConnectedStep ==
    ASSUME DccInv, NEW fd \in Fds, pdccconnected(fd)
    PROVE  DccInv'
<1>1. PICK i, tk : i = PdccOf(fd) /\ tk = Connected(fd)
  OBVIOUS
<1>2. /\ fd \in DOMAIN sock /\ sock[fd].kind = "chat" /\ sock' = tk
      /\ pdcc' = pdcc /\ remote' = remote /\ files' = files /\ missing' = missing
      /\ dccs' = dccs /\ saved' = saved
  BY <1>1 DEF pdccconnected, Is, linkVars, pendingVars
<1>3. /\ i \in DOMAIN pdcc /\ pdcc[i].sock = fd /\ pdcc[i] \in Pdcc
      /\ pdcc[i].type \in {"CHATTO", "CHATFROM"} /\ EntryOK(pdcc[i], sock, remote)
  BY <1>1, <1>2, EntryOfKind DEF TypeOfKind
<1>4. /\ SockTable(tk) /\ DOMAIN tk = DOMAIN sock /\ WireTable(remote, tk)
      /\ tk[fd].kind = "chat" /\ SameBut(sock, tk, remote, remote, fd, fd)
  BY <1>1, <1>2, ConnectedFacts
<1>5. EntryOK(pdcc[i], tk, remote)
  BY <1>2, <1>3, <1>4 DEF EntryOK, HoldsOK, SendOK, RecvOK
<1>6. pdcc' = [pdcc EXCEPT ![i] = pdcc[i]] /\ OwnAgain(pdcc, sock, i, pdcc[i])
  BY <1>2, <1>3 DEF DccInv, ChainOK, OwnAgain
<1>7. FilesOK(pdcc', files') /\ missing' = 0
  BY <1>2 DEF DccInv
<1> QED
  BY <1>2, <1>3, <1>4, <1>5, <1>6, <1>7, EntryStep

LEMMA PeerSendsStep ==
    ASSUME DccInv, NEW fd \in Fds, PeerSends(fd)
    PROVE  DccInv'
<1>1. PICK i, r, p : i = PdccOf(fd) /\ r = remote[fd] /\ p = pdcc[i]
  OBVIOUS
<1>2. /\ fd \in DOMAIN sock /\ sock[fd].kind = "recv" /\ sock[fd].flag = "conn"
      /\ p.transferred + r.wire < p.filesize
      /\ remote' = [remote EXCEPT ![fd].wire = @ + 1]
      /\ sock' = sock /\ pdcc' = pdcc /\ dccs' = dccs /\ saved' = saved
      /\ missing' = missing /\ files' = files
  BY <1>1 DEF PeerSends, Is, linkVars
<1>3. /\ i \in DOMAIN pdcc /\ pdcc[i].sock = fd /\ p \in Pdcc
      /\ p.type = "RECVFROM" /\ EntryOK(p, sock, remote)
  BY <1>1, <1>2, EntryOfKind DEF TypeOfKind
<1>4. fd \in DOMAIN remote /\ r \in Wire
  BY <1>1, <1>2 DEF DccInv, WireTable
<1>5. /\ r.wire \in Nat /\ p.transferred \in Nat /\ p.filesize \in Nat
  BY <1>3, <1>4 DEF Wire, Pdcc
<1>6. PICK w, rn : w = [r EXCEPT !.wire = r.wire + 1] /\ rn = [remote EXCEPT ![fd] = w]
  OBVIOUS
<1>7. w \in Wire /\ w.wire = r.wire + 1 /\ w.has = r.has
  BY <1>4, <1>5, <1>6 DEF Wire
<1>8. remote' = rn /\ rn[fd] = w
  BY <1>1, <1>2, <1>4, <1>6
<1>9. RecvOK(p, sock, remote) /\ p.sock = fd
  BY <1>1, <1>3 DEF EntryOK
<1>10. RecvOK(p, sock, rn)
  BY <1>2, <1>3, <1>5, <1>7, <1>8, <1>9 DEF RecvOK
<1>11. EntryOK(p, sock, rn)
  BY <1>3, <1>10 DEF EntryOK, SendOK
<1>12. pdcc' = [pdcc EXCEPT ![i] = p]
  BY <1>1, <1>2, <1>3 DEF DccInv, ChainOK
<1>13. FilesOK(pdcc', files')
  BY <1>2 DEF DccInv
<1>14. p.fhandle = pdcc[i].fhandle
  BY <1>1
<1> QED
  BY <1>2, <1>3, <1>4, <1>6, <1>7, <1>8, <1>9, <1>11, <1>12, <1>13, <1>14, TransferStep

(* What was read is in the file, at its place, of its sender. *)
LEMMA WrittenFiles ==
    ASSUME DccInv, NEW i \in DOMAIN pdcc, NEW k \in Nat, NEW x \in Pdcc,
           pdcc[i].fhandle # 0, x.fhandle = pdcc[i].fhandle, x.nick = pdcc[i].nick,
           x.transferred = pdcc[i].transferred + k
    PROVE  FilesOK([pdcc EXCEPT ![i] = x], Written(pdcc[i], k))
<1>1. PICK d, p, at, fl : /\ d = [pdcc EXCEPT ![i] = x] /\ p = pdcc[i]
                          /\ at = p.transferred + 1 .. p.transferred + k
                          /\ fl = Written(p, k)
  OBVIOUS
<1>2. DOMAIN d = DOMAIN pdcc /\ d[i] = x /\ \A j \in DOMAIN pdcc : j # i => d[j] = pdcc[j]
  BY <1>1
<1>3. /\ p \in Pdcc /\ FilesOK(pdcc, files) /\ p.transferred \in Nat /\ p.fhandle \in Nat
      /\ p.nick \in Nicks /\ p.fhandle # 0
  <2>1. p \in Pdcc
    BY <1>1 DEF DccInv, ChainOK
  <2> QED
    BY <1>1, <2>1 DEF DccInv, Pdcc
<1>4. /\ \A w \in files : w[1] = p.fhandle => w[2] \in 1 .. p.transferred /\ w[3] = p.nick
      /\ \A o \in 1 .. p.transferred : <<p.fhandle, o, p.nick>> \in files
  BY <1>1, <1>3 DEF FilesOK, FileOK
<1>5. \A w \in fl : \/ w \in files
                    \/ \E o \in at : w = <<p.fhandle, o, p.nick>>
  BY <1>1 DEF Written
<1>6. \A o \in at : <<p.fhandle, o, p.nick>> \in fl
  BY <1>1 DEF Written
<1>7. \A w \in files : (w[1] # p.fhandle \/ w[2] \notin at) => w \in fl
  BY <1>1, Zenon DEF Written
<1>8. \A w \in fl : \/ w \in files
                    \/ w[1] = p.fhandle /\ w[2] \in at /\ w[3] = p.nick
  BY <1>5
<1>9. at \subseteq 1 .. p.transferred + k /\ at \subseteq Nat
  BY <1>1, <1>3
<1>10. FileOK(x, fl)
  <2>1. \A w \in fl : w[1] = p.fhandle => w[2] \in 1 .. p.transferred + k /\ w[3] = p.nick
    <3>1. \A o \in 1 .. p.transferred : o \in 1 .. p.transferred + k
      BY <1>3
    <3> QED
      BY <1>4, <1>8, <1>9, <3>1
  <2>2. ASSUME NEW o \in 1 .. p.transferred + k PROVE <<p.fhandle, o, p.nick>> \in fl
    <3>1. CASE o \in at
      BY <1>6, <3>1
    <3>2. CASE o \notin at
      <4>1. o \in 1 .. p.transferred
        BY <1>1, <1>3, <3>2
      <4>2. PICK w : w = <<p.fhandle, o, p.nick>>
        OBVIOUS
      <4>3. w \in files /\ w[2] = o
        BY <1>4, <4>1, <4>2
      <4> QED
        BY <1>7, <3>2, <4>2, <4>3
    <3> QED
      BY <3>1, <3>2
  <2> QED
    BY <1>1, <2>1, <2>2 DEF FileOK
<1>11. ASSUME NEW j \in DOMAIN pdcc, j # i PROVE FileOK(pdcc[j], fl)
  <2>1. FileOK(pdcc[j], files)
    BY <1>3 DEF FilesOK
  <2>2. pdcc[j].fhandle # 0 => pdcc[j].fhandle # p.fhandle
    BY <1>1, <1>11 DEF DccInv, ChainOK, OwnFiles
  <2> SUFFICES ASSUME pdcc[j].fhandle # 0
               PROVE  /\ \A w \in fl : w[1] = pdcc[j].fhandle =>
                           w[2] \in 1 .. pdcc[j].transferred /\ w[3] = pdcc[j].nick
                      /\ \A o \in 1 .. pdcc[j].transferred :
                           <<pdcc[j].fhandle, o, pdcc[j].nick>> \in fl
    BY DEF FileOK
  <2>3. \A w \in fl : w[1] = pdcc[j].fhandle => w \in files
    BY <1>8, <2>2
  <2>4. ASSUME NEW o \in 1 .. pdcc[j].transferred
        PROVE  <<pdcc[j].fhandle, o, pdcc[j].nick>> \in fl
    <3>1. PICK w : w = <<pdcc[j].fhandle, o, pdcc[j].nick>>
      OBVIOUS
    <3>2. w \in files /\ w[1] # p.fhandle
      BY <2>1, <2>2, <3>1 DEF FileOK
    <3> QED
      BY <1>7, <3>1, <3>2
  <2> QED
    BY <2>1, <2>3, <2>4 DEF FileOK
<1>12. FileSet(fl)
  <2>1. \A o \in at : <<p.fhandle, o, p.nick>> \in (Nat \ {0}) \X Nat \X Nicks
    BY <1>3, <1>9
  <2> QED
    BY <1>3, <1>5, <2>1 DEF FilesOK, FileSet
<1>13. OneSender(fl)
  <2>1. \A v, w \in files : v[1] = w[1] => v[3] = w[3]
    BY <1>3 DEF FilesOK, OneSender
  <2> QED
    BY <1>4, <1>8, <2>1 DEF OneSender
<1>14. \A j \in DOMAIN d : FileOK(d[j], fl)
  BY <1>2, <1>10, <1>11
<1> QED
  BY <1>1, <1>12, <1>13, <1>14 DEF FilesOK

LEMMA FileGetStep ==
    ASSUME DccInv, NEW fd \in Fds, NEW k, pdccfget(fd, k)
    PROVE  DccInv'
<1>1. PICK i, r, p : i = PdccOf(fd) /\ r = remote[fd] /\ p = pdcc[i]
  OBVIOUS
<1>2. /\ fd \in DOMAIN sock /\ sock[fd].kind = "recv" /\ sock[fd].flag = "conn"
      /\ k \in 1 .. r.wire /\ dccs' = dccs /\ saved' = saved /\ missing' = missing
  BY <1>1 DEF pdccfget, Is, linkVars
<1>3. \/ Gone(fd)
      \/ /\ files' = Written(p, k) /\ sock' = sock
         /\ pdcc' = [pdcc EXCEPT ![i].transferred = @ + k]
         /\ remote' = [remote EXCEPT ![fd].wire = @ - k, ![fd].has = Acked(r, p, k)]
  BY <1>1, Zenon DEF pdccfget
<1>4. /\ i \in DOMAIN pdcc /\ pdcc[i].sock = fd /\ p \in Pdcc
      /\ p.type = "RECVFROM" /\ EntryOK(p, sock, remote)
  BY <1>1, <1>2, EntryOfKind DEF TypeOfKind
<1>5. fd \in DOMAIN remote /\ r \in Wire /\ missing = 0
  BY <1>1, <1>2 DEF DccInv, WireTable
<1>6. CASE Gone(fd)
  BY <1>2, <1>5, <1>6, GoneStep
<1>7. CASE /\ files' = Written(p, k) /\ sock' = sock
           /\ pdcc' = [pdcc EXCEPT ![i].transferred = @ + k]
           /\ remote' = [remote EXCEPT ![fd].wire = @ - k, ![fd].has = Acked(r, p, k)]
  <2>1. /\ r.wire \in Nat /\ p.transferred \in Nat /\ p.filesize \in Nat /\ k \in Nat
        /\ r.has \in Nat /\ k <= r.wire
    BY <1>2, <1>4, <1>5 DEF Wire, Pdcc
  <2>2. RecvOK(p, sock, remote) /\ p.sock = fd /\ HoldsOK(p, sock)
    BY <1>1, <1>4 DEF EntryOK
  <2>3. p.fhandle # 0 /\ p.transferred + r.wire <= p.filesize
    BY <1>1, <1>2, <1>4, <2>2 DEF RecvOK
  <2>4. PICK a : a = Acked(r, p, k)
    OBVIOUS
  <2>5. a \in Nat /\ (r.wire - k = 0 => a = p.transferred + k)
    BY <2>1, <2>4 DEF Acked
  <2>6. PICK x, w, rn : /\ x = [p EXCEPT !.transferred = p.transferred + k]
                        /\ w = [r EXCEPT !.wire = r.wire - k, !.has = a]
                        /\ rn = [remote EXCEPT ![fd] = w]
    OBVIOUS
  <2>7. /\ x \in Pdcc /\ x.transferred = p.transferred + k /\ x.type = p.type
        /\ x.sock = fd /\ x.fhandle = p.fhandle /\ x.nick = p.nick /\ x.filesize = p.filesize
    BY <1>4, <2>1, <2>2, <2>6 DEF Pdcc
  <2>8. w \in Wire /\ w.wire = r.wire - k /\ w.has = a
    <3>1. r.wire - k \in Nat
      BY <2>1
    <3> QED
      BY <1>5, <2>5, <2>6, <3>1 DEF Wire
  <2>9. pdcc' = [pdcc EXCEPT ![i] = x]
    BY <1>1, <1>4, <1>7, <2>6
  <2>10. remote' = rn /\ rn[fd] = w
    BY <1>1, <1>5, <1>7, <2>4, <2>6
  <2>11. RecvOK(x, sock, rn)
    BY <1>2, <2>1, <2>3, <2>5, <2>7, <2>8, <2>10 DEF RecvOK
  <2>12. EntryOK(x, sock, rn)
    <3>1. x.transferred <= x.filesize
      BY <2>1, <2>3, <2>7
    <3>2. HoldsOK(x, sock)
      BY <2>2, <2>7 DEF HoldsOK
    <3> QED
      BY <1>4, <2>7, <2>11, <3>1, <3>2 DEF EntryOK, RequestOK, SendOK, Requests
  <2>13. FilesOK([pdcc EXCEPT ![i] = x], Written(p, k))
    BY <1>1, <1>4, <2>1, <2>3, <2>7, WrittenFiles
  <2>14. FilesOK(pdcc', files')
    BY <1>7, <2>9, <2>13
  <2>15. x.fhandle = pdcc[i].fhandle
    BY <1>1, <2>7
  <2> QED
    BY <1>2, <1>4, <1>5, <1>7, <2>6, <2>7, <2>8, <2>9, <2>10, <2>12, <2>14, <2>15,
       TransferStep
<1> QED
  BY <1>3, <1>6, <1>7

(* There is always a number for a new file: the transfer that connects has   *)
(* none yet.                                                                 *)
LEMMA NewFileIsFree ==
    ASSUME DccInv, NEW i \in DOMAIN pdcc, pdcc[i].fhandle = 0
    PROVE  /\ NewFile \in 1 .. MaxDccs + 1
           /\ \A j \in DOMAIN pdcc : pdcc[j].fhandle # NewFile
<1>1. pdcc \in Seq(Pdcc) /\ Len(pdcc) <= MaxDccs /\ DOMAIN pdcc = 1 .. Len(pdcc)
      /\ Len(pdcc) \in Nat
  BY DEF DccInv, ChainOK
<1>2. PICK m, n : m = Len(pdcc) /\ n = MaxDccs + 1
  OBVIOUS
<1>3. m \in Nat /\ n \in Nat /\ m < n /\ DOMAIN pdcc = 1 .. m /\ 1 \in 1 .. n
  BY <1>1, <1>2, BoundNatural
<1>4. \E f \in 1 .. n : f # disk /\ \A j \in DOMAIN pdcc : pdcc[j].fhandle # f
  <2> SUFFICES ASSUME \A f \in 1 .. n : f = disk \/ \E j \in DOMAIN pdcc : pdcc[j].fhandle = f
               PROVE  FALSE
    OBVIOUS
  <2>1. PICK g : g = [j \in 1 .. m |->
                        IF j = i THEN (IF disk \in 1 .. n THEN disk ELSE 1)
                        ELSE IF pdcc[j].fhandle \in 1 .. n THEN pdcc[j].fhandle ELSE 1]
    OBVIOUS
  <2>2. g \in [1 .. m -> 1 .. n]
    BY <1>3, <2>1
  <2>3. ASSUME NEW f \in 1 .. n PROVE \E j \in 1 .. m : g[j] = f
    <3>1. CASE f = disk
      BY <1>3, <2>1, <3>1
    <3>2. CASE f # disk
      <4>1. PICK j \in DOMAIN pdcc : pdcc[j].fhandle = f
        BY <3>2
      <4>2. j # i
        BY <4>1
      <4> QED
        BY <1>3, <2>1, <4>1, <4>2
    <3> QED
      BY <3>1, <3>2
  <2>4. g \in Surjection(1 .. m, 1 .. n)
    BY <2>2, <2>3, Zenon DEF Surjection
  <2>5. IsFiniteSet(1 .. m) /\ Cardinality(1 .. m) = m
    BY <1>3, FS_Interval
  <2>6. Cardinality(1 .. n) = n
    BY <1>3, FS_Interval
  <2>7. Cardinality(1 .. n) <= Cardinality(1 .. m)
    BY <2>4, <2>5, FS_Surjection, Zenon
  <2> QED
    BY <1>3, <2>5, <2>6, <2>7
<1>5. /\ NewFile \in 1 .. n
      /\ \A j \in DOMAIN pdcc : pdcc[j].fhandle # NewFile
  BY <1>2, <1>4, Zenon DEF NewFile
<1> QED
  BY <1>2, <1>5

LEMMA FileConnectedStep ==
    ASSUME DccInv, NEW fd \in Fds, pdccfconnected(fd)
    PROVE  DccInv'
<1>1. PICK i, p, new : i = PdccOf(fd) /\ p = pdcc[i] /\ new = NewFile
  OBVIOUS
<1>2. /\ fd \in DOMAIN sock /\ sock[fd].kind = "recv" /\ sock[fd].flag = "syn"
      /\ dccs' = dccs /\ saved' = saved /\ missing' = missing
  BY <1>1 DEF pdccfconnected, Is, linkVars
<1>3. \/ Gone(fd)
      \/ /\ sock' = Connected(fd) /\ files' = {w \in files : w[1] # new}
         /\ pdcc' = [pdcc EXCEPT ![i].fhandle = new] /\ remote' = remote
  <2>1. Create.f = new /\ Create.kept = {w \in files : w[1] # new}
    BY <1>1 DEF Create
  <2> QED
    BY <1>1, <2>1, Zenon DEF pdccfconnected
<1>4. /\ i \in DOMAIN pdcc /\ pdcc[i].sock = fd /\ p \in Pdcc
      /\ p.type = "RECVFROM" /\ EntryOK(p, sock, remote)
  BY <1>1, <1>2, EntryOfKind DEF TypeOfKind
<1>5. missing' = 0
  BY <1>2 DEF DccInv
<1>6. CASE Gone(fd)
  BY <1>2, <1>5, <1>6, GoneStep
<1>7. CASE /\ sock' = Connected(fd) /\ files' = {w \in files : w[1] # new}
           /\ pdcc' = [pdcc EXCEPT ![i].fhandle = new] /\ remote' = remote
  <2>1. RecvOK(p, sock, remote) /\ p.sock = fd /\ HoldsOK(p, sock)
    BY <1>1, <1>4 DEF EntryOK
  <2>2. /\ p.fhandle = 0 /\ p.transferred = 0 /\ p.filesize \in Nat
        /\ p.transferred + remote[fd].wire <= p.filesize /\ remote[fd].wire = 0
        /\ remote[fd].has = p.transferred
    BY <1>2, <1>4, <2>1 DEF RecvOK, Pdcc
  <2>3. new \in Nat /\ new # 0 /\ \A j \in DOMAIN pdcc : pdcc[j].fhandle # new
    <3>1. pdcc[i].fhandle = 0
      BY <1>1, <2>2
    <3>2. /\ new \in 1 .. MaxDccs + 1 /\ \A j \in DOMAIN pdcc : pdcc[j].fhandle # new
      BY <1>1, <1>4, <3>1, NewFileIsFree
    <3> QED
      BY <3>2, BoundNatural
  <2>4. PICK x, tk, fl : /\ x = [p EXCEPT !.fhandle = new] /\ tk = Connected(fd)
                         /\ fl = {w \in files : w[1] # new}
    OBVIOUS
  <2>5. /\ x \in Pdcc /\ x.transferred = 0 /\ x.type = p.type /\ x.eof = p.eof
        /\ x.sock = fd /\ x.fhandle = new /\ x.nick = p.nick /\ x.filesize = p.filesize
    BY <1>4, <2>1, <2>2, <2>3, <2>4 DEF Pdcc
  <2>6. pdcc' = [pdcc EXCEPT ![i] = x] /\ sock' = tk /\ files' = fl
    BY <1>1, <1>4, <1>7, <2>4
  <2>7. /\ SockTable(tk) /\ DOMAIN tk = DOMAIN sock /\ WireTable(remote, tk)
        /\ tk[fd].kind = "recv" /\ tk[fd].flag = "conn"
        /\ SameBut(sock, tk, remote, remote, fd, fd)
    BY <1>2, <2>4, ConnectedFacts
  <2>8. HoldsOK(x, tk)
    BY <1>2, <1>4, <2>5, <2>7, HoldsFacts DEF HoldsOK
  <2>9. RecvOK(x, tk, remote)
    BY <2>2, <2>3, <2>5, <2>7 DEF RecvOK
  <2>10. EntryOK(x, tk, remote)
    BY <1>4, <2>2, <2>5, <2>8, <2>9 DEF EntryOK, RequestOK, SendOK, Requests
  <2>11. OwnAgain(pdcc, sock, i, x)
    BY <1>4, <2>3, <2>5 DEF OwnAgain
  <2>12. FilesOK([pdcc EXCEPT ![i] = x], fl)
    <3>1. FilesOK(pdcc, files) /\ pdcc \in Seq(Pdcc)
      BY DEF DccInv, ChainOK
    <3>2. PICK d : d = [pdcc EXCEPT ![i] = x]
      OBVIOUS
    <3>3. /\ DOMAIN d = DOMAIN pdcc /\ d[i] = x
          /\ \A j \in DOMAIN pdcc : j # i => d[j] = pdcc[j]
      BY <1>4, <3>2
    <3>4. 1 .. 0 = {}
      OBVIOUS
    <3>5. FileOK(x, fl)
      BY <2>4, <2>5, <3>4 DEF FileOK
    <3>6. ASSUME NEW j \in DOMAIN pdcc PROVE FileOK(pdcc[j], fl)
      <4>1. FileOK(pdcc[j], files) /\ pdcc[j].fhandle # new
        BY <2>3, <3>1 DEF FilesOK
      <4>2. ASSUME NEW o \in 1 .. pdcc[j].transferred, pdcc[j].fhandle # 0
            PROVE  <<pdcc[j].fhandle, o, pdcc[j].nick>> \in fl
        <5>1. PICK w : w = <<pdcc[j].fhandle, o, pdcc[j].nick>>
          OBVIOUS
        <5>2. w \in files /\ w[1] # new
          BY <4>1, <4>2, <5>1 DEF FileOK
        <5> QED
          BY <2>4, <5>1, <5>2
      <4>3. \A w \in fl : w \in files
        BY <2>4
      <4> QED
        BY <4>1, <4>2, <4>3 DEF FileOK
    <3>7. FileSet(fl) /\ OneSender(fl)
      BY <2>4, <3>1 DEF FilesOK, FileSet, OneSender
    <3>8. \A j \in DOMAIN d : FileOK(d[j], fl)
      BY <3>3, <3>5, <3>6
    <3> QED
      BY <3>2, <3>7, <3>8 DEF FilesOK
  <2>13. FilesOK(pdcc', files')
    BY <2>6, <2>12
  <2> QED
    BY <1>2, <1>4, <1>5, <1>7, <2>5, <2>6, <2>7, <2>10, <2>11, <2>13, EntryStep
<1> QED
  BY <1>3, <1>6, <1>7

(* What the file of a transfer holds is as much as was transferred. *)
LEMMA AllArrived ==
    ASSUME DccInv, NEW i \in DOMAIN pdcc, pdcc[i].fhandle # 0 \/ pdcc[i].transferred = 0
    PROVE  Cardinality({w \in files : w[1] = pdcc[i].fhandle /\ w[3] = pdcc[i].nick})
             = pdcc[i].transferred
<1>1. PICK p, n, W : /\ p = pdcc[i] /\ n = p.transferred
                     /\ W = {w \in files : w[1] = p.fhandle /\ w[3] = p.nick}
  OBVIOUS
<1>2. p \in Pdcc /\ FileOK(p, files) /\ FileSet(files)
  BY <1>1 DEF DccInv, ChainOK, FilesOK
<1>3. n \in Nat
  BY <1>1, <1>2 DEF Pdcc
<1>4. /\ IsFiniteSet(1 .. n) /\ Cardinality(1 .. n) = n
  BY <1>3, FS_Interval
<1>5. CASE p.fhandle # 0
  <2>1. PICK g : g = [o \in 1 .. n |-> <<p.fhandle, o, p.nick>>]
    OBVIOUS
  <2>2. \A o \in 1 .. n : g[o] = <<p.fhandle, o, p.nick>> /\ g[o] \in W
    BY <1>1, <1>2, <1>5, <2>1 DEF FileOK
  <2>3. g \in [1 .. n -> W]
    BY <2>1, <2>2
  <2>4. \A o, q \in 1 .. n : g[o] = g[q] => o = q
    BY <2>2
  <2>5. ASSUME NEW w \in W PROVE \E o \in 1 .. n : g[o] = w
    <3>1. w \in files /\ w[1] = p.fhandle /\ w[3] = p.nick
      BY <1>1
    <3>2. w[2] \in 1 .. n
      BY <1>1, <1>2, <1>5, <3>1 DEF FileOK
    <3>3. w = <<w[1], w[2], w[3]>>
      BY <1>2, <3>1 DEF FileSet
    <3> QED
      BY <2>2, <3>1, <3>2, <3>3
  <2>6. g \in Bijection(1 .. n, W)
    BY <2>3, <2>4, <2>5, Zenon DEF Bijection, Injection, Surjection, IsInjective
  <2>7. ExistsBijection(1 .. n, W)
    BY <2>6, Zenon DEF ExistsBijection
  <2>8. Cardinality(W) = Cardinality(1 .. n)
    BY <1>4, <2>7, FS_Bijection, Zenon
  <2> QED
    BY <1>1, <1>4, <2>8
<1>6. CASE p.fhandle = 0
  <2>1. W = {}
    BY <1>1, <1>2, <1>6 DEF FileSet
  <2>2. Cardinality({}) = 0
    BY FS_EmptySet
  <2> QED
    BY <1>1, <1>6, <2>1, <2>2
<1> QED
  BY <1>5, <1>6

LEMMA FileClosedStep ==
    ASSUME DccInv, NEW fd \in Fds, pdccfclosed(fd)
    PROVE  DccInv'
<1>1. PICK i : i = PdccOf(fd)
  OBVIOUS
<1>2. /\ fd \in DOMAIN sock /\ sock[fd].kind = "recv" /\ Gone(fd)
      /\ dccs' = dccs /\ saved' = saved
  BY DEF pdccfclosed, linkVars
<1>3. IF pdcc[i].filesize = pdcc[i].transferred
      THEN Report(pdcc[i].filesize,
                  Cardinality({w \in files : w[1] = pdcc[i].fhandle /\ w[3] = pdcc[i].nick}))
      ELSE missing' = missing
  BY <1>1, Zenon DEF pdccfclosed
<1>4. /\ i \in DOMAIN pdcc /\ pdcc[i].sock = fd /\ pdcc[i] \in Pdcc
      /\ pdcc[i].type = "RECVFROM" /\ EntryOK(pdcc[i], sock, remote)
  BY <1>1, <1>2, EntryOfKind DEF TypeOfKind
<1>5. pdcc[i].fhandle # 0 \/ pdcc[i].transferred = 0
  BY <1>4 DEF EntryOK, RecvOK
<1>6. Cardinality({w \in files : w[1] = pdcc[i].fhandle /\ w[3] = pdcc[i].nick})
        = pdcc[i].transferred
  BY <1>4, <1>5, AllArrived
<1>7. missing' = 0
  <2>1. CASE pdcc[i].filesize = pdcc[i].transferred
    <3>1. PICK size : size = pdcc[i].filesize
      OBVIOUS
    <3>2. size \in Nat
      BY <1>4, <3>1 DEF Pdcc
    <3>3. Report(size, size)
      BY <1>3, <1>6, <2>1, <3>1, Zenon
    <3> QED
      BY <3>2, <3>3, NothingMissing
  <2>2. CASE pdcc[i].filesize # pdcc[i].transferred
    BY <1>3, <2>2 DEF DccInv
  <2> QED
    BY <2>1, <2>2
<1> QED
  BY <1>2, <1>7, GoneStep

-----------------------------------------------------------------------------
(* Steps of the bot connections *)

SameOthers(sk, tk) ==
    /\ \A fd \in DOMAIN sk : sk[fd].kind # "link" => fd \in DOMAIN tk /\ tk[fd] = sk[fd]
    /\ \A fd \in DOMAIN tk : tk[fd].kind # "link" => fd \in DOMAIN sk /\ tk[fd] = sk[fd]

LEMMA LinkStep ==
    ASSUME DccInv, pdcc' = pdcc, remote' = remote, files' = files, missing' = missing,
           SockTable(sock'), SameOthers(sock, sock'),
           dccs' \in Seq(Link), saved' \in Seq(Bots), LinksOK(dccs', sock')
    PROVE  DccInv'
<1>1. PICK tk : tk = sock'
  OBVIOUS
<1>2. /\ SockTable(sock) /\ WireTable(remote, sock) /\ pdcc \in Seq(Pdcc)
      /\ ChainOK(pdcc, sock) /\ EntriesOK(pdcc, sock, remote)
  BY DEF DccInv, ChainOK
<1>3. WireTable(remote, tk)
  BY <1>1, <1>2 DEF WireTable, SameOthers
<1>4. Covered(pdcc, tk)
  BY <1>1, <1>2 DEF ChainOK, Covered, SameOthers
<1>5. ChainOK(pdcc, tk)
  BY <1>2, <1>4 DEF ChainOK
<1>6. ASSUME NEW i \in DOMAIN pdcc PROVE EntryOK(pdcc[i], tk, remote)
  <2>1. pdcc[i] \in Pdcc /\ EntryOK(pdcc[i], sock, remote)
    BY <1>2 DEF EntriesOK
  <2>2. pdcc[i].sock # 0 => /\ pdcc[i].sock \in DOMAIN sock
                            /\ sock[pdcc[i].sock].kind # "link"
    BY <1>2, <2>1, HeldKind DEF EntryOK
  <2>3. pdcc[i].sock # 0 => SameAt(sock, tk, remote, remote, pdcc[i].sock)
    BY <1>1, <2>2 DEF SameAt, SameOthers
  <2> QED
    BY <1>2, <2>1, <2>3, EntryFrame
<1>7. EntriesOK(pdcc, tk, remote)
  BY <1>6 DEF EntriesOK
<1> QED
  BY <1>1, <1>3, <1>5, <1>7 DEF DccInv

LEMMA AddDccStep ==
    ASSUME DccInv, NEW b \in Bots, cmdadddcc(b)
    PROVE  DccInv'
<1>1. PICK x, d : x = NewLink(b) /\ d = Append(dccs, x)
  OBVIOUS
<1>2. /\ dccs' = d /\ saved' = Append(saved, b) /\ sock' = sock
      /\ pdcc' = pdcc /\ remote' = remote /\ files' = files /\ missing' = missing
  BY <1>1 DEF cmdadddcc, pendingVars
<1>3. x \in Link /\ x.outstate = "off"
  BY <1>1 DEF NewLink, Link
<1>4. /\ dccs \in Seq(Link) /\ saved \in Seq(Bots) /\ LinksOK(dccs, sock)
      /\ SockTable(sock)
  BY DEF DccInv
<1>5. /\ d \in Seq(Link) /\ DOMAIN d = 1 .. Len(dccs) + 1 /\ d[Len(dccs) + 1] = x
      /\ DOMAIN dccs = 1 .. Len(dccs) /\ Len(dccs) \in Nat
      /\ \A j \in DOMAIN dccs : d[j] = dccs[j]
  BY <1>1, <1>3, <1>4
<1>6. ASSUME NEW j \in DOMAIN d, d[j].outstate = "conn"
      PROVE  /\ LinkUp(sock, d[j].outsock)
             /\ \A k \in DOMAIN d : k < j => d[k].outsock # d[j].outsock
  <2>1. j \in DOMAIN dccs
    BY <1>3, <1>5, <1>6
  <2>2. \A k \in DOMAIN d : k < j => k \in DOMAIN dccs
    BY <1>5, <2>1
  <2> QED
    BY <1>4, <1>5, <1>6, <2>1, <2>2 DEF LinksOK
<1>7. LinksOK(d, sock)
  BY <1>6 DEF LinksOK
<1>8. SameOthers(sock, sock) /\ Append(saved, b) \in Seq(Bots)
  BY <1>4 DEF SameOthers
<1> QED
  BY <1>2, <1>4, <1>5, <1>7, <1>8, LinkStep

LEMMA DelDccStep ==
    ASSUME DccInv, NEW n, cmddeldcc(n)
    PROVE  DccInv'
<1>1. PICK d, m, tk : /\ d = RemoveAt(dccs, n) /\ m = Len(dccs)
                      /\ tk = IF dccs[n].outstate = "conn" THEN Closed({dccs[n].outsock})
                              ELSE sock
  OBVIOUS
<1>2. /\ n \in DOMAIN dccs /\ dccs' = d /\ sock' = tk
      /\ saved' = IF n \in DOMAIN saved THEN RemoveAt(saved, n) ELSE saved
      /\ pdcc' = pdcc /\ remote' = remote /\ files' = files /\ missing' = missing
  BY <1>1, Zenon DEF cmddeldcc, pendingVars
<1>3. /\ dccs \in Seq(Link) /\ saved \in Seq(Bots) /\ LinksOK(dccs, sock)
      /\ SockTable(sock) /\ DOMAIN dccs = 1 .. m /\ m \in Nat /\ n \in 1 .. m
  BY <1>1, <1>2 DEF DccInv
<1>4. saved' \in Seq(Bots)
  <2>1. CASE n \in DOMAIN saved
    <3>1. n \in 1 .. Len(saved)
      BY <1>3, <2>1
    <3>2. RemoveAt(saved, n) \in Seq(Bots)
      BY <1>3, <3>1, RemoveAtFacts, Zenon
    <3> QED
      BY <1>2, <2>1, <3>2, Zenon
  <2>2. CASE n \notin DOMAIN saved
    BY <1>2, <1>3, <2>2
  <2> QED
    BY <2>1, <2>2
<1>5. /\ d \in Seq(Link) /\ Len(d) = m - 1
      /\ \A i \in 1 .. m - 1 : d[i] = IF i < n THEN dccs[i] ELSE dccs[i + 1]
  <2>1. n \in 1 .. Len(dccs)
    BY <1>1, <1>3
  <2>2. /\ RemoveAt(dccs, n) \in Seq(Link) /\ Len(RemoveAt(dccs, n)) = Len(dccs) - 1
        /\ \A i \in 1 .. Len(dccs) - 1 :
             RemoveAt(dccs, n)[i] = IF i < n THEN dccs[i] ELSE dccs[i + 1]
    BY <1>3, <2>1, RemoveAtFacts, Zenon
  <2> QED
    BY <1>1, <2>2, Zenon
<1>6. DOMAIN d = 1 .. m - 1
  BY <1>3, <1>5
<1>7. PICK e : e = [j \in 1 .. m - 1 |-> IF j < n THEN j ELSE j + 1]
  OBVIOUS
<1>8. \A j \in 1 .. m - 1 : e[j] \in 1 .. m /\ e[j] # n /\ d[j] = dccs[e[j]]
  BY <1>3, <1>5, <1>7
<1>9. \A j, k \in 1 .. m - 1 : k < j => e[k] < e[j]
  BY <1>3, <1>7
<1>10. dccs[n].outstate = "conn" => LinkUp(sock, dccs[n].outsock)
  BY <1>2, <1>3 DEF LinksOK
<1>11. SockTable(tk) /\ SameOthers(sock, tk)
  <2>1. CASE dccs[n].outstate = "conn"
    <3>1. tk = Closed({dccs[n].outsock})
      BY <1>1, <2>1
    <3> QED
      BY <1>3, <1>10, <2>1, <3>1, ClosedTable DEF SameOthers, LinkUp, Closed
  <2>2. CASE dccs[n].outstate # "conn"
    BY <1>1, <1>3, <2>2 DEF SameOthers
  <2> QED
    BY <2>1, <2>2
<1>12. ASSUME NEW fd, LinkUp(sock, fd), dccs[n].outstate = "conn" => fd # dccs[n].outsock
       PROVE  LinkUp(tk, fd)
  BY <1>1, <1>12 DEF LinkUp, Closed
<1>13. ASSUME NEW j \in 1 .. m - 1, d[j].outstate = "conn"
       PROVE  /\ LinkUp(tk, d[j].outsock)
              /\ \A k \in 1 .. m - 1 : k < j => d[k].outsock # d[j].outsock
  <2>1. /\ e[j] \in DOMAIN dccs /\ dccs[e[j]].outstate = "conn" /\ e[j] # n
        /\ d[j].outsock = dccs[e[j]].outsock /\ n \in DOMAIN dccs
    BY <1>3, <1>8, <1>13
  <2>2. /\ LinkUp(sock, d[j].outsock)
        /\ \A k \in DOMAIN dccs : k < e[j] => dccs[k].outsock # d[j].outsock
    BY <1>3, <2>1 DEF LinksOK
  <2>3. dccs[n].outstate = "conn" => d[j].outsock # dccs[n].outsock
    <3>1. CASE n < e[j]
      BY <2>1, <2>2, <3>1
    <3>2. CASE e[j] < n
      BY <1>3, <2>1, <3>2 DEF LinksOK
    <3> QED
      BY <1>3, <2>1, <3>1, <3>2
  <2>4. \A k \in 1 .. m - 1 : k < j => d[k].outsock # d[j].outsock
    BY <1>3, <1>8, <1>9, <2>2
  <2> QED
    BY <1>12, <2>2, <2>3, <2>4
<1>14. LinksOK(d, tk)
  BY <1>6, <1>13 DEF LinksOK
<1> QED
  BY <1>2, <1>4, <1>5, <1>11, <1>14, LinkStep

(* The entries go on: none becomes connected, and a new socket is new. *)
Aged(d, e, sk) ==
    /\ e \in Seq(Link) /\ Len(e) = Len(d)
    /\ \A j \in DOMAIN d :
         /\ e[j].name = d[j].name
         /\ e[j].outstate = "conn" => d[j].outstate = "conn" /\ e[j].outsock = d[j].outsock
         /\ e[j].outsock = d[j].outsock \/ e[j].outsock \notin DOMAIN sk

LEMMA AgedLinks ==
    ASSUME NEW d \in Seq(Link), NEW e, NEW sk, NEW tk, LinksOK(d, sk), Aged(d, e, sk),
           \A j \in DOMAIN e : e[j].outstate = "conn" /\ LinkUp(sk, e[j].outsock) =>
             LinkUp(tk, e[j].outsock)
    PROVE  LinksOK(e, tk)
<1>1. /\ DOMAIN e = DOMAIN d
      /\ \A j \in DOMAIN d :
           /\ e[j].outstate = "conn" => d[j].outstate = "conn" /\ e[j].outsock = d[j].outsock
           /\ e[j].outsock = d[j].outsock \/ e[j].outsock \notin DOMAIN sk
  BY DEF Aged
<1>2. ASSUME NEW j \in DOMAIN d, e[j].outstate = "conn"
      PROVE  /\ LinkUp(sk, e[j].outsock)
             /\ \A k \in DOMAIN d : k < j => e[k].outsock # e[j].outsock
  <2>1. /\ LinkUp(sk, e[j].outsock)
        /\ \A k \in DOMAIN d : k < j => d[k].outsock # e[j].outsock
    BY <1>1, <1>2 DEF LinksOK
  <2> QED
    BY <1>1, <2>1 DEF LinkUp
<1> QED
  BY <1>1, <1>2 DEF LinksOK

(* An entry with another state.                                               *)
Restated(r, s, n) == [r EXCEPT !.outstate = s, !.delayed = n]

LEMMA RestatedLink ==
    ASSUME NEW r \in Link, NEW s \in {"off", "new", "conn"}, NEW n \in 0 .. 1
    PROVE  /\ Restated(r, s, n) \in Link /\ Restated(r, s, n).outstate = s
           /\ Restated(r, s, n).outsock = r.outsock /\ Restated(r, s, n).name = r.name
<1>1. /\ r = [name |-> r.name, outstate |-> r.outstate, outsock |-> r.outsock,
               delayed |-> r.delayed]
      /\ r.name \in Bots /\ r.outsock \in Fds \cup {0}
  BY DEF Link
<1>2. PICK x : x = [r EXCEPT !.outstate = s, !.delayed = n]
  OBVIOUS
<1>3. x = [name |-> r.name, outstate |-> s, outsock |-> r.outsock, delayed |-> n]
  BY <1>1, <1>2
<1>4. x \in Link /\ x.outstate = s /\ x.outsock = r.outsock /\ x.name = r.name
  BY <1>1, <1>3 DEF Link
<1> QED
  BY <1>2, <1>4, Zenon DEF Restated

LEMMA KilledDccStep ==
    ASSUME DccInv, NEW fd \in Fds, killeddcc(fd)
    PROVE  DccInv' /\ Aged(dccs, dccs', sock)
<1>1. PICK l, e, tk : l = LinkOf(fd) /\ e = LinkDown(fd) /\ tk = Closed({fd})
  OBVIOUS
<1>2. /\ fd \in DOMAIN sock /\ sock[fd].kind = "link" /\ dccs' = e /\ sock' = tk
      /\ saved' = saved
      /\ pdcc' = pdcc /\ remote' = remote /\ files' = files /\ missing' = missing
  BY <1>1 DEF killeddcc, pendingVars
<1>3. /\ dccs \in Seq(Link) /\ saved \in Seq(Bots) /\ LinksOK(dccs, sock) /\ SockTable(sock)
      /\ DOMAIN dccs = 1 .. Len(dccs)
  BY DEF DccInv
<1>4. FirstIn(l, {i \in 1 .. Len(dccs) : dccs[i].outsock = fd})
  BY <1>1, <1>3, LinkOfFirst
<1>5. Aged(dccs, e, sock) /\ \A j \in DOMAIN dccs : e[j].outstate = "conn" => e[j].outsock # fd
  <2>1. CASE l = 0
    <3>1. e = dccs
      BY <1>1, <2>1 DEF LinkDown
    <3>2. \A j \in DOMAIN dccs : dccs[j].outsock # fd
      BY <1>3, <1>4, <2>1 DEF FirstIn
    <3> QED
      BY <1>3, <3>1, <3>2 DEF Aged
  <2>2. CASE l # 0
    <3>1. /\ l \in DOMAIN dccs /\ dccs[l].outsock = fd
          /\ \A j \in DOMAIN dccs : dccs[j].outsock = fd => l <= j
      BY <1>3, <1>4, <2>2 DEF FirstIn
    <3>2. PICK x : x = [dccs[l] EXCEPT !.outstate = "off", !.delayed = 1]
      OBVIOUS
    <3>3. x \in Link /\ x.outstate = "off" /\ x.outsock = fd /\ x.name = dccs[l].name
      <4>1. dccs[l] \in Link
        BY <1>3, <3>1
      <4>2. PICK s \in {"off", "new", "conn"}, n \in 0 .. 1 : s = "off" /\ n = 1
        OBVIOUS
      <4>3. x = Restated(dccs[l], s, n)
        BY <3>2, <4>2 DEF Restated
      <4> QED
        BY <3>1, <4>1, <4>2, <4>3, RestatedLink
    <3>4. e = [dccs EXCEPT ![l] = x]
      BY <1>1, <1>3, <2>2, <3>1, <3>2 DEF LinkDown
    <3>5. /\ e \in Seq(Link) /\ Len(e) = Len(dccs) /\ e[l] = x
          /\ \A j \in DOMAIN dccs : j # l => e[j] = dccs[j]
      BY <1>3, <3>1, <3>3, <3>4
    <3>6. Aged(dccs, e, sock)
      BY <3>1, <3>3, <3>5 DEF Aged
    <3>7. ASSUME NEW j \in DOMAIN dccs, e[j].outstate = "conn" PROVE e[j].outsock # fd
      <4>1. j # l
        BY <3>3, <3>5, <3>7
      <4>2. dccs[j].outstate = "conn" /\ e[j].outsock = dccs[j].outsock
        BY <3>5, <3>7, <4>1
      <4>3. l < j => dccs[l].outsock # dccs[j].outsock
        BY <1>3, <3>1, <4>2 DEF LinksOK
      <4> QED
        BY <1>3, <3>1, <4>1, <4>2, <4>3
    <3> QED
      BY <3>6, <3>7
  <2> QED
    BY <2>1, <2>2
<1>6. SockTable(tk) /\ SameOthers(sock, tk)
  BY <1>1, <1>2, <1>3, ClosedTable DEF SameOthers, Closed
<1>7. e \in Seq(Link) /\ DOMAIN e = DOMAIN dccs
  BY <1>3, <1>5 DEF Aged
<1>8. \A f : LinkUp(sock, f) /\ f # fd => LinkUp(tk, f)
  BY <1>1 DEF LinkUp, Closed
<1>9. LinksOK(e, tk)
  BY <1>3, <1>5, <1>7, <1>8, AgedLinks
<1>10. DccInv'
  BY <1>2, <1>3, <1>6, <1>7, <1>9, LinkStep
<1> QED
  BY <1>2, <1>5, <1>10

LEMMA ConnectedDccStep ==
    ASSUME DccInv, NEW fd \in Fds, connecteddcc(fd)
    PROVE  DccInv'
<1>1. PICK l, e, tk : /\ l = LinkOf(fd) /\ tk = Connected(fd)
                      /\ e = IF l = 0 THEN dccs
                             ELSE [dccs EXCEPT ![l].outstate = "conn", ![l].delayed = 1]
  OBVIOUS
<1>2. /\ fd \in DOMAIN sock /\ sock[fd].kind = "link" /\ sock[fd].flag = "syn"
      /\ dccs' = e /\ sock' = tk /\ saved' = saved
      /\ pdcc' = pdcc /\ remote' = remote /\ files' = files /\ missing' = missing
  BY <1>1, Zenon DEF connecteddcc, Is, pendingVars
<1>3. /\ dccs \in Seq(Link) /\ saved \in Seq(Bots) /\ LinksOK(dccs, sock) /\ SockTable(sock)
      /\ DOMAIN dccs = 1 .. Len(dccs)
  BY DEF DccInv
<1>4. FirstIn(l, {i \in 1 .. Len(dccs) : dccs[i].outsock = fd})
  BY <1>1, <1>3, LinkOfFirst
<1>5. /\ SockTable(tk) /\ DOMAIN tk = DOMAIN sock
      /\ tk[fd].kind = "link" /\ tk[fd].flag = "conn"
      /\ \A f \in DOMAIN sock : f # fd => tk[f] = sock[f]
  BY <1>1, <1>2, ConnectedFacts
<1>6. SameOthers(sock, tk)
  BY <1>2, <1>5 DEF SameOthers
<1>7. LinkUp(tk, fd) /\ \A f : LinkUp(sock, f) => LinkUp(tk, f)
  BY <1>2, <1>5 DEF LinkUp
<1>8. e \in Seq(Link) /\ LinksOK(e, tk)
  <2>1. CASE l = 0
    BY <1>1, <1>3, <1>7, <2>1 DEF LinksOK
  <2>2. CASE l # 0
    <3>1. /\ l \in DOMAIN dccs /\ dccs[l].outsock = fd
          /\ \A j \in DOMAIN dccs : dccs[j].outsock = fd => l <= j
      BY <1>3, <1>4, <2>2 DEF FirstIn
    <3>2. PICK x : x = [dccs[l] EXCEPT !.outstate = "conn", !.delayed = 1]
      OBVIOUS
    <3>3. x \in Link /\ x.outstate = "conn" /\ x.outsock = fd
      <4>1. dccs[l] \in Link
        BY <1>3, <3>1
      <4>2. PICK s \in {"off", "new", "conn"}, n \in 0 .. 1 : s = "conn" /\ n = 1
        OBVIOUS
      <4>3. x = Restated(dccs[l], s, n)
        BY <3>2, <4>2 DEF Restated
      <4> QED
        BY <3>1, <4>1, <4>2, <4>3, RestatedLink
    <3>4. e = [dccs EXCEPT ![l] = x]
      BY <1>1, <1>3, <2>2, <3>1, <3>2
    <3>5. /\ e \in Seq(Link) /\ DOMAIN e = DOMAIN dccs /\ e[l] = x
          /\ \A j \in DOMAIN dccs : j # l => e[j] = dccs[j]
      BY <1>3, <3>1, <3>3, <3>4
    <3>6. \A j \in DOMAIN dccs : e[j].outsock = dccs[j].outsock
      BY <3>1, <3>3, <3>5
    <3>7. \A k \in DOMAIN dccs : k < l => dccs[k].outsock # fd
      BY <1>3, <3>1
    <3>8. ASSUME NEW j \in DOMAIN dccs, e[j].outstate = "conn"
          PROVE  /\ LinkUp(tk, e[j].outsock)
                 /\ \A k \in DOMAIN dccs : k < j => e[k].outsock # e[j].outsock
      <4>1. CASE j = l
        BY <1>7, <3>1, <3>6, <3>7, <4>1
      <4>2. CASE j # l
        BY <1>3, <1>7, <3>5, <3>6, <3>8, <4>2 DEF LinksOK
      <4> QED
        BY <4>1, <4>2
    <3> QED
      BY <3>5, <3>8 DEF LinksOK
  <2> QED
    BY <2>1, <2>2
<1> QED
  BY <1>2, <1>3, <1>5, <1>6, <1>8, LinkStep

-----------------------------------------------------------------------------
(* The alarm *)

LEMMA CountedFacts ==
    ASSUME DccInv, NEW last \in Nat, NEW j \in DOMAIN dccs
    PROVE  /\ Counted(last)[j] \in Link /\ Counted(last)[j].name = dccs[j].name
           /\ Counted(last)[j].outstate = dccs[j].outstate
           /\ Counted(last)[j].outsock = dccs[j].outsock
<1>1. dccs[j] \in Link
  BY DEF DccInv
<1>2. Counted(last)[j] = IF j <= last /\ Waiting(j)
                           THEN [dccs[j] EXCEPT !.delayed = dccs[j].delayed - 1] ELSE dccs[j]
  BY Zenon DEF Counted
<1>3. CASE j <= last /\ Waiting(j)
  <2>1. PICK x : x = [dccs[j] EXCEPT !.delayed = dccs[j].delayed - 1]
    OBVIOUS
  <2>2. dccs[j].delayed - 1 \in 0 .. 1
    BY <1>1, <1>3 DEF Waiting, Link
  <2>3. /\ x \in Link /\ x.name = dccs[j].name /\ x.outstate = dccs[j].outstate
        /\ x.outsock = dccs[j].outsock
    BY <1>1, <2>1, <2>2 DEF Link
  <2> QED
    BY <1>2, <1>3, <2>1, <2>3
<1>4. CASE ~(j <= last /\ Waiting(j))
  BY <1>1, <1>2, <1>4
<1> QED
  BY <1>3, <1>4

LEMMA TriedFacts ==
    ASSUME NEW d \in Link, NEW fd \in Fds \cup {0}
    PROVE  /\ Tried(d, fd) \in Link /\ Tried(d, fd).name = d.name
           /\ Tried(d, fd).outstate = "new" /\ Tried(d, fd).outsock = fd
<1>1. PICK n : n = IF fd = 0 THEN 1 ELSE d.delayed
  OBVIOUS
<1>2. n \in 0 .. 1
  BY <1>1 DEF Link
<1>3. PICK x : x = [d EXCEPT !.outstate = "new", !.outsock = fd, !.delayed = n]
  OBVIOUS
<1>4. Tried(d, fd) = x
  BY <1>1, <1>3, Zenon DEF Tried
<1>5. /\ d = [name |-> d.name, outstate |-> d.outstate, outsock |-> d.outsock,
               delayed |-> d.delayed]
      /\ d.name \in Bots
  BY DEF Link
<1>6. x = [name |-> d.name, outstate |-> "new", outsock |-> fd, delayed |-> n]
  BY <1>3, <1>5
<1>7. x \in Link /\ x.name = d.name /\ x.outstate = "new" /\ x.outsock = fd
  BY <1>2, <1>5, <1>6 DEF Link
<1> QED
  BY <1>4, <1>7, Zenon

LEMMA CheckDccsFacts ==
    ASSUME DccInv, NEW expired, checkdccs(expired)
    PROVE  /\ Aged(dccs, dccs', sock)
           /\ \/ sock' = Closed(expired)
              \/ \E fd \in Free, who \in Bots :
                   sock' = With(Closed(expired), fd, Open("link", "syn", who))
<1>1. /\ dccs \in Seq(Link) /\ DOMAIN dccs = 1 .. Len(dccs) /\ Len(dccs) \in Nat
      /\ SockTable(sock) /\ 0 \notin DOMAIN sock
  BY FdsPositive DEF DccInv, SockTable
<1>2. Due \subseteq DOMAIN dccs
  BY DEF Due
<1>3. CASE dccs' = Counted(Len(dccs)) /\ sock' = Closed(expired)
  <2>1. PICK e : e = Counted(Len(dccs))
    OBVIOUS
  <2>2. DOMAIN e = 1 .. Len(dccs)
    BY <1>1, <2>1 DEF Counted
  <2>3. \A j \in DOMAIN dccs : /\ e[j] \in Link /\ e[j].name = dccs[j].name
                               /\ e[j].outstate = dccs[j].outstate
                               /\ e[j].outsock = dccs[j].outsock
    BY <1>1, <2>1, CountedFacts
  <2>4. e \in Seq(Link) /\ Len(e) = Len(dccs)
    <3>1. e = [j \in 1 .. Len(dccs) |-> e[j]]
      BY <1>1, <2>1 DEF Counted
    <3> QED
      BY <1>1, <2>2, <2>3, <3>1
  <2> QED
    BY <1>3, <2>1, <2>3, <2>4 DEF Aged
<1>4. CASE /\ dccs' = [i \in DOMAIN dccs |-> IF i \in Due THEN Tried(dccs[i], 0)
                                                    ELSE Counted(Len(dccs))[i]]
           /\ sock' = Closed(expired)
  <2>1. PICK e : e = [i \in DOMAIN dccs |-> IF i \in Due THEN Tried(dccs[i], 0)
                                                       ELSE Counted(Len(dccs))[i]]
    OBVIOUS
  <2>2. ASSUME NEW j \in DOMAIN dccs
        PROVE  /\ e[j] \in Link /\ e[j].name = dccs[j].name
               /\ e[j].outstate \in {"new", dccs[j].outstate}
               /\ e[j].outstate = "new" \/ e[j].outsock = dccs[j].outsock
               /\ e[j].outsock \in {0, dccs[j].outsock}
    <3>1. dccs[j] \in Link
      BY <1>1
    <3>2. CASE j \in Due
      <4>1. e[j] = Tried(dccs[j], 0)
        BY <2>1, <3>2
      <4>2. PICK z \in Fds \cup {0} : z = 0
        OBVIOUS
      <4> QED
        BY <3>1, <4>1, <4>2, TriedFacts
    <3>3. CASE j \notin Due
      <4>1. e[j] = Counted(Len(dccs))[j]
        BY <2>1, <3>3
      <4> QED
        BY <1>1, <4>1, CountedFacts
    <3> QED
      BY <3>2, <3>3
  <2>3. e \in Seq(Link) /\ Len(e) = Len(dccs)
    <3>1. e = [j \in 1 .. Len(dccs) |-> e[j]]
      BY <1>1, <2>1
    <3> QED
      BY <1>1, <2>2, <3>1
  <2>4. Aged(dccs, e, sock)
    BY <1>1, <2>2, <2>3 DEF Aged
  <2> QED
    BY <1>4, <2>1, <2>4
<1>5. CASE /\ Due # {}
           /\ \E fd \in Free, fails \in BOOLEAN :
                LET i == Min(Due) IN
                /\ dccs' = [Counted(i) EXCEPT ![i] = Tried(@, fd)]
                /\ lastdh' = i
                /\ sock' = IF fails THEN Closed(expired)
                           ELSE With(Closed(expired), fd, Open("link", "syn", dccs[i].name))
  <2>0. PICK fd \in Free, fails \in BOOLEAN :
                /\ dccs' = [Counted(Min(Due)) EXCEPT
                              ![Min(Due)] = Tried(Counted(Min(Due))[Min(Due)], fd)]
                /\ sock' = IF fails THEN Closed(expired)
                           ELSE With(Closed(expired), fd,
                                     Open("link", "syn", dccs[Min(Due)].name))
    BY <1>5
  <2>1. PICK i :
                /\ i = Min(Due)
                /\ dccs' = [Counted(i) EXCEPT ![i] = Tried(Counted(i)[i], fd)]
                /\ sock' = IF fails THEN Closed(expired)
                           ELSE With(Closed(expired), fd, Open("link", "syn", dccs[i].name))
    BY <2>0
  <2>2. i \in DOMAIN dccs /\ i \in Nat
    <3>1. Due \subseteq Nat
      BY <1>1, <1>2
    <3>2. i \in Due
      BY <1>5, <2>1, <3>1, MinMember
    <3> QED
      BY <1>2, <3>1, <3>2
  <2>3. dccs[i] \in Link /\ dccs[i].name \in Bots
    <3>1. dccs[i] \in Link
      BY <1>1, <2>2
    <3> QED
      BY <3>1 DEF Link
  <2>4. fd \in Fds \cup {0} /\ fd \notin DOMAIN sock
    BY DEF Free
  <2>5. PICK c, x, e : c = Counted(i) /\ x = Tried(c[i], fd) /\ e = [c EXCEPT ![i] = x]
    OBVIOUS
  <2>6. DOMAIN c = DOMAIN dccs
    BY <2>5 DEF Counted
  <2>7. \A j \in DOMAIN dccs : /\ c[j] \in Link /\ c[j].name = dccs[j].name
                               /\ c[j].outstate = dccs[j].outstate
                               /\ c[j].outsock = dccs[j].outsock
    BY <2>2, <2>5, CountedFacts
  <2>8. x \in Link /\ x.name = dccs[i].name /\ x.outstate = "new" /\ x.outsock = fd
    BY <2>2, <2>4, <2>5, <2>7, TriedFacts
  <2>9. DOMAIN e = DOMAIN dccs /\ e[i] = x /\ \A j \in DOMAIN dccs : j # i => e[j] = c[j]
    BY <2>2, <2>5, <2>6
  <2>10. \A j \in DOMAIN dccs : e[j] \in Link
    BY <2>7, <2>8, <2>9
  <2>11. e \in Seq(Link) /\ Len(e) = Len(dccs)
    <3>1. e = [j \in 1 .. Len(dccs) |-> e[j]]
      BY <1>1, <2>5, <2>6
    <3> QED
      BY <1>1, <2>10, <3>1
  <2>12. Aged(dccs, e, sock)
    BY <2>4, <2>7, <2>8, <2>9, <2>11 DEF Aged
  <2>13. dccs' = e
    BY <2>1, <2>5
  <2> QED
    BY <2>1, <2>3, <2>12, <2>13
<1> QED
  BY <1>3, <1>4, <1>5, Zenon DEF checkdccs

LEMMA AlarmStep ==
    ASSUME DccInv, bncalarm
    PROVE  DccInv' /\ Aged(dccs, dccs', sock)
<1>1. PICK E, d, tk, e : /\ E = {pdcc[i].sock : i \in Expired} /\ d = TickedPdcc
                         /\ tk = sock' /\ e = dccs'
  OBVIOUS
<1>2. /\ checkdccs(E) /\ pdcc' = d /\ saved' = saved /\ remote' = remote
      /\ files' = files /\ missing' = missing
  BY <1>1 DEF bncalarm
<1>3. /\ SockTable(sock) /\ WireTable(remote, sock) /\ pdcc \in Seq(Pdcc)
      /\ ChainOK(pdcc, sock) /\ EntriesOK(pdcc, sock, remote) /\ Len(pdcc) <= MaxDccs
      /\ LinksOK(dccs, sock) /\ dccs \in Seq(Link) /\ FilesOK(pdcc, files)
  BY DEF DccInv, ChainOK
<1>4. Aged(dccs, e, sock)
  BY <1>1, <1>2, CheckDccsFacts
<1>5. SockTable(Closed(E))
  BY <1>3, ClosedTable
<1>6. /\ SockTable(tk)
      /\ \A fd \in DOMAIN sock : fd \notin E => fd \in DOMAIN tk /\ tk[fd] = sock[fd]
      /\ \A fd \in DOMAIN tk : tk[fd].kind # "link" => fd \in DOMAIN sock /\ fd \notin E
  <2>1. CASE tk = Closed(E)
    BY <1>5, <2>1 DEF Closed
  <2>2. CASE \E fd \in Free, who \in Bots : tk = With(Closed(E), fd, Open("link", "syn", who))
    <3>1. PICK fd \in Free, who \in Bots : tk = With(Closed(E), fd, Open("link", "syn", who))
      BY <2>2
    <3>2. PICK k, v : k = "link" /\ k \in Kinds /\ v = Open(k, "syn", who)
      BY DEF Kinds
    <3>3. fd \in Fds /\ fd \notin DOMAIN sock /\ tk = With(Closed(E), fd, v)
      BY <3>1, <3>2 DEF Free
    <3>4. SockTable(tk)
      BY <1>5, <3>2, <3>3, WithTable
    <3>5. v.kind = "link"
      BY <3>2 DEF Open
    <3>6. PICK cl : cl = Closed(E)
      OBVIOUS
    <3>7. DOMAIN cl = DOMAIN sock \ E /\ \A f \in DOMAIN sock \ E : cl[f] = sock[f]
      BY <3>6 DEF Closed
    <3>8. /\ DOMAIN tk = DOMAIN cl \cup {fd} /\ tk[fd] = v
          /\ \A f \in DOMAIN cl : f # fd => tk[f] = cl[f]
      BY <3>3, <3>6 DEF With
    <3> QED
      BY <3>3, <3>4, <3>5, <3>7, <3>8
  <2> QED
    BY <1>1, <1>2, <2>1, <2>2, CheckDccsFacts
<1>7. \A j \in DOMAIN pdcc : /\ pdcc[j] \in Pdcc /\ RequestOK(pdcc[j])
                             /\ HoldsOK(pdcc[j], sock)
  BY <1>3 DEF EntriesOK, EntryOK
<1>8. \A fd \in E : fd \in DOMAIN sock => sock[fd].kind \in {"chatlisten", "sendlisten"}
  <2> SUFFICES ASSUME NEW i \in Expired, pdcc[i].sock \in DOMAIN sock
               PROVE  sock[pdcc[i].sock].kind \in {"chatlisten", "sendlisten"}
    BY <1>1
  <2>1. i \in DOMAIN pdcc /\ pdcc[i].type \in Requests
    BY DEF Expired
  <2>2. pdcc[i].sock # 0
    BY <1>3, FdsPositive DEF SockTable
  <2>3. TypeOfKind(sock[pdcc[i].sock].kind, pdcc[i].type)
    BY <1>3, <1>7, <2>1, <2>2, HeldKind
  <2> QED
    BY <2>1, <2>3 DEF TypeOfKind, Requests
<1>9. WireTable(remote, tk)
  BY <1>3, <1>6, <1>8 DEF WireTable
<1>10. Thinned(pdcc, d, Expired)
  BY <1>1, <1>3, <1>7, TickedThins
<1>11. ThinnedSockets(pdcc, sock, tk, remote, remote, Expired)
  <2>1. ASSUME NEW j \in DOMAIN pdcc, j \notin Expired, pdcc[j].sock # 0
        PROVE  SameAt(sock, tk, remote, remote, pdcc[j].sock)
    <3>1. pdcc[j].sock \in DOMAIN sock
      BY <1>3, <1>7, <2>1, HeldKind
    <3>2. \A i \in Expired : i \in DOMAIN pdcc
      BY DEF Expired
    <3>3. pdcc[j].sock \notin E
      BY <1>1, <1>3, <2>1, <3>2 DEF ChainOK, OwnSockets
    <3> QED
      BY <1>6, <3>1, <3>3 DEF SameAt
  <2>2. ASSUME NEW fd \in DOMAIN tk, tk[fd].kind # "link"
        PROVE  /\ fd \in DOMAIN sock /\ sock[fd].kind # "link"
               /\ \A i \in Expired : pdcc[i].sock # fd
    BY <1>1, <1>6, <2>2
  <2> QED
    BY <2>1, <2>2 DEF ThinnedSockets
<1>12. ChainOK(d, tk) /\ EntriesOK(d, tk, remote)
  BY <1>3, <1>10, <1>11, ThinChain
<1>13. FilesOK(d, files)
  BY <1>3, <1>10, ThinFiles
<1>14. Len(d) <= MaxDccs
  <2>1. d \in Seq(Pdcc) /\ Len(d) <= Len(pdcc)
    BY <1>10 DEF Thinned
  <2> QED
    BY <1>3, <2>1, BoundNatural
<1>15. LinksOK(e, tk)
  <2>1. \A fd : LinkUp(sock, fd) => LinkUp(tk, fd)
    BY <1>6, <1>8 DEF LinkUp
  <2> QED
    BY <1>3, <1>4, <2>1, AgedLinks
<1>16. e \in Seq(Link)
  BY <1>4 DEF Aged
<1>17. DccInv'
  BY <1>1, <1>2, <1>6, <1>9, <1>12, <1>13, <1>14, <1>15, <1>16 DEF DccInv
<1> QED
  BY <1>1, <1>4, <1>17

-----------------------------------------------------------------------------
(* Start *)

LEMMA RestartStep ==
    ASSUME DccInv, Restart
    PROVE  DccInv'
<1>1. PICK none, n, d : /\ none = <<>> /\ n = Min({LOADED, Len(saved)})
                        /\ d = [i \in 1 .. n |-> NewLink(saved[i])]
  OBVIOUS
<1>2. /\ sock' = none /\ dccs' = d /\ pdcc' = none /\ remote' = none
      /\ missing' = missing /\ files' = Remaining(files, none, disk) /\ saved' = saved
  BY <1>1, Zenon DEF Restart, Kept, Remaining
<1>3. DOMAIN none = {} /\ none \in Seq(Pdcc) /\ Len(none) = 0
  BY <1>1
<1>4. saved \in Seq(Bots) /\ FilesOK(pdcc, files)
  BY DEF DccInv
<1>5. n \in Nat /\ n <= Len(saved)
  <2>1. {LOADED, Len(saved)} \subseteq Nat
    BY <1>4, LoadedPositive
  <2> QED
    BY <1>1, <2>1, MinMember
<1>6. \A i \in 1 .. n : d[i] \in Link /\ d[i].outstate = "off"
  <2>1. \A b \in Bots : NewLink(b) \in Link /\ NewLink(b).outstate = "off"
    BY DEF NewLink, Link
  <2>2. \A i \in 1 .. n : saved[i] \in Bots
    BY <1>4, <1>5
  <2> QED
    BY <1>1, <2>1, <2>2
<1>7. d \in Seq(Link) /\ DOMAIN d = 1 .. n
  <2>1. DOMAIN d = 1 .. n
    BY <1>1
  <2>2. d = [j \in 1 .. n |-> d[j]]
    BY <1>1
  <2> QED
    BY <1>5, <1>6, <2>1, <2>2
<1>8. LinksOK(d, none)
  BY <1>6, <1>7 DEF LinksOK
<1>9. SockTable(none) /\ WireTable(none, none)
  <2>1. \A T : none \in [{} -> T]
    BY <1>1
  <2> QED
    BY <1>3, <2>1 DEF SockTable, WireTable
<1>10. ChainOK(none, none) /\ EntriesOK(none, none, none)
  BY <1>3 DEF ChainOK, EntriesOK, OwnSockets, OwnFiles, Covered
<1>11. FilesOK(none, Remaining(files, none, disk))
  BY <1>3, <1>4 DEF FilesOK, Remaining, FileSet, OneSender
<1>12. Len(none) <= MaxDccs
  BY <1>3, BoundNatural
<1> QED
  BY <1>2, <1>4, <1>7, <1>8, <1>9, <1>10, <1>11, <1>12 DEF DccInv

(* accept() fails: the chat goes, the file ends the process. *)
LEMMA AcceptFailsStep ==
    ASSUME DccInv, NEW fd \in Fds, AcceptFails(fd)
    PROVE  DccInv'
<1>1. CASE sock[fd].kind = "chatlisten" /\ UNCHANGED <<linkVars, disk, missing>> /\ Gone(fd)
  <2>1. fd \in DOMAIN sock /\ sock[fd].kind # "link"
    BY <1>1 DEF AcceptFails
  <2>2. dccs' = dccs /\ saved' = saved /\ missing' = 0
    BY <1>1 DEF linkVars, DccInv
  <2> QED
    BY <1>1, <2>1, <2>2, GoneStep
<1>2. CASE Restart
  BY <1>2, RestartStep
<1> QED
  BY <1>1, <1>2 DEF AcceptFails

LEMMA Initially ==
    ASSUME Init
    PROVE  DccInv
<1>1. PICK none : none = <<>>
  OBVIOUS
<1>2. /\ sock = none /\ dccs = none /\ saved = none /\ pdcc = none /\ remote = none
      /\ files = {} /\ missing = 0
  BY <1>1 DEF Init
<1>3. /\ DOMAIN none = {} /\ Len(none) = 0
      /\ none \in Seq(Pdcc) /\ none \in Seq(Link) /\ none \in Seq(Bots)
  BY <1>1
<1>4. SockTable(none) /\ WireTable(none, none)
  <2>1. \A T : none \in [{} -> T]
    BY <1>1
  <2> QED
    BY <1>3, <2>1 DEF SockTable, WireTable
<1>5. ChainOK(none, none) /\ EntriesOK(none, none, none) /\ LinksOK(none, none)
  BY <1>3 DEF ChainOK, EntriesOK, OwnSockets, OwnFiles, Covered, LinksOK
<1>6. FilesOK(none, {})
  BY <1>3 DEF FilesOK, FileSet, OneSender
<1>7. Len(none) <= MaxDccs
  BY <1>3, BoundNatural
<1> QED
  BY <1>2, <1>3, <1>4, <1>5, <1>6, <1>7 DEF DccInv

LEMMA LinksStep ==
    ASSUME DccInv, Links
    PROVE  DccInv'
<1>1. CASE \E b \in Bots : cmdadddcc(b)
  BY <1>1, AddDccStep
<1>2. CASE \E n \in 1 .. MaxDccs : cmddeldcc(n)
  BY <1>2, DelDccStep
<1>3. CASE \E fd \in Fds : connecteddcc(fd) \/ killeddcc(fd)
  BY <1>3, ConnectedDccStep, KilledDccStep
<1> QED
  BY <1>1, <1>2, <1>3 DEF Links

LEMMA AskedStep ==
    ASSUME DccInv, NEW n \in Nicks,
           cmddccchat(n) \/ cmddccsend(n) \/ cmddccanswer(n) \/ cmddccget(n)
    PROVE  DccInv'
<1>1. /\ ChainOK(pdcc, sock) /\ EntriesOK(pdcc, sock, remote) /\ FilesOK(pdcc, files)
      /\ Len(pdcc) <= MaxDccs
  BY DEF DccInv
<1>2. CASE cmddccchat(n)
  <2>1. PICK t, k, size : t = "CHATTORQ" /\ k = "chatlisten" /\ size = 0 /\ size \in Nat
    OBVIOUS
  <2>2. Offer(t, k, n, size)
    BY <1>2, <2>1 DEF cmddccchat
  <2> QED
    BY <2>1, <2>2, OfferStep
<1>3. CASE cmddccsend(n)
  <2>1. PICK t, k, size : /\ t = "SENDTORQ" /\ k = "sendlisten"
                          /\ size = Size[n] /\ size \in Nat
    BY SizeNatural
  <2>2. Offer(t, k, n, size)
    BY <1>3, <2>1 DEF cmddccsend
  <2> QED
    BY <2>1, <2>2, OfferStep
<1>4. CASE cmddccanswer(n)
  <2>1. PICK rq, t, k : rq = "CHATFROMRQ" /\ t = "CHATFROM" /\ k = "chat"
    OBVIOUS
  <2>2. Answer(pdcc, rq, t, k, n) /\ UNCHANGED <<linkVars, files, disk, missing>>
    BY <1>4, <2>1 DEF cmddccanswer
  <2>3. files' = files /\ dccs' = dccs /\ saved' = saved /\ missing' = missing
    BY <2>2 DEF linkVars
  <2> QED
    BY <1>1, <2>1, <2>2, <2>3, AnswerStep
<1>5. CASE cmddccget(n)
  <2>1. PICK rq, t, k : rq = "RECVFROMRQ" /\ t = "RECVFROM" /\ k = "recv"
    OBVIOUS
  <2>2. Answer(pdcc, rq, t, k, n) /\ UNCHANGED <<linkVars, files, disk, missing>>
    BY <1>5, <2>1 DEF cmddccget
  <2>3. files' = files /\ dccs' = dccs /\ saved' = saved /\ missing' = missing
    BY <2>2 DEF linkVars
  <2> QED
    BY <1>1, <2>1, <2>2, <2>3, AnswerStep
<1> QED
  BY <1>2, <1>3, <1>4, <1>5

LEMMA ChatsStep ==
    ASSUME DccInv, Chats
    PROVE  DccInv'
<1>1. CASE \E n \in Nicks : cmddccchat(n) \/ GotChatRequest(n) \/ cmddccanswer(n)
  BY <1>1, AskedStep, GotChatRequestStep
<1>2. CASE \E fd \in Fds : acceptpdccchat(fd) \/ pdccconnected(fd)
  BY <1>2, AcceptChatStep, ChatConnectedStep
<1> QED
  BY <1>1, <1>2 DEF Chats

LEMMA TransfersStep ==
    ASSUME DccInv, Transfers
    PROVE  DccInv'
<1>1. CASE \E n \in Nicks : cmddccsend(n) \/ GotFileRequest(n) \/ cmddccget(n)
  BY <1>1, AskedStep, GotFileRequestStep
<1>2. ASSUME NEW fd \in Fds,
             acceptpdccfile(fd) \/ pdccfconnected(fd) \/ PeerSends(fd) \/ pdccfclosed(fd)
      PROVE  DccInv'
  BY <1>2, AcceptFileStep, FileConnectedStep, PeerSendsStep, FileClosedStep
<1>3. ASSUME NEW fd \in Fds, NEW k, PeerTakes(fd, k) \/ pdccfilesendack(fd, k) \/ pdccfget(fd, k)
      PROVE  DccInv'
  BY <1>3, PeerTakesStep, SendAckStep, FileGetStep
<1> QED
  BY <1>1, <1>2, <1>3 DEF Transfers

LEMMA Inductive ==
    ASSUME DccInv, [Next]_vars
    PROVE  DccInv'
<1>1. CASE Links
  BY <1>1, LinksStep
<1>2. CASE Chats
  BY <1>2, ChatsStep
<1>3. CASE Transfers
  BY <1>3, TransfersStep
<1>4. CASE \E fd \in Fds : SessionOver(fd) \/ AcceptFails(fd)
  BY <1>4, SessionOverStep, AcceptFailsStep
<1>5. CASE \E n \in Nicks, file \in BOOLEAN : canceldcc(n, file)
  BY <1>5, CancelStep
<1>6. CASE bncalarm
  BY <1>6, AlarmStep
<1>7. CASE Restart
  BY <1>7, RestartStep
<1>8. CASE UNCHANGED vars
  BY <1>8 DEF vars, DccInv
<1> QED
  BY <1>1, <1>2, <1>3, <1>4, <1>5, <1>6, <1>7, <1>8 DEF Next

(* The inductive invariant holds of every state: sockets and entries belong  *)
(* together one to one through accepts, answers, failures, timeouts, cancels *)
(* and the reuse of descriptors, and what is under way, what was counted and *)
(* what is in the open file of a transfer agree.                             *)
THEOREM Invariance == Spec => []DccInv
<1>1. Init => DccInv
  BY Initially
<1>2. DccInv /\ [Next]_vars => DccInv'
  BY Inductive
<1> QED
  BY <1>1, <1>2, PTL DEF Spec

-----------------------------------------------------------------------------
(* What follows *)

LEMMA TransferFacts ==
    ASSUME DccInv
    PROVE  BlocksAcknowledged
<1>1. \A i \in DOMAIN pdcc : SendOK(pdcc[i], sock, remote) /\ RecvOK(pdcc[i], sock, remote)
  BY DEF DccInv, EntriesOK, EntryOK
<1>2. StopAndWait
  BY <1>1 DEF StopAndWait, SendOK
<1>3. AckCovers
  BY <1>1 DEF AckCovers, RecvOK
<1> QED
  BY <1>2, <1>3 DEF BlocksAcknowledged

(* However the reads and writes of two peers, the acknowledgements that      *)
(* arrive together in one read, refusals, timeouts and cancels interleave,   *)
(* pdccfilesendack() has at most one block under way to a receiver and what  *)
(* was read of the file is what the receiver has and what is under way, and  *)
(* pdccfget() has acknowledged all it read once nothing waits on the socket. *)
THEOREM TransferBlocks == Spec => []BlocksAcknowledged
<1>1. DccInv => BlocksAcknowledged
  BY TransferFacts
<1> QED
  BY <1>1, Invariance, PTL

(* "File sent completed" and "File received" are said only of files that     *)
(* have arrived whole, and no two transfers write into one file, though all  *)
(* have the same name: pdccfconnected() unlinks what has the name and opens  *)
(* a new file, while an older transfer goes on writing to its own.           *)
THEOREM WholeFiles == Spec => []FilesWhole
<1>1. DccInv => FilesWhole
  BY DEF DccInv, FilesOK, OneSender, FilesWhole, CompleteIsWhole, NoMixture
<1> QED
  BY <1>1, Invariance, PTL

LEMMA TableFacts ==
    ASSUME DccInv
    PROVE  TypeOK /\ ConnectedIsOpen /\ PendingHoldsSocket
<1>1. /\ SockTable(sock) /\ WireTable(remote, sock) /\ dccs \in Seq(Link)
      /\ pdcc \in Seq(Pdcc) /\ LinksOK(dccs, sock) /\ OwnSockets(pdcc)
  BY DEF DccInv, ChainOK
<1>2. \A i \in DOMAIN pdcc : /\ pdcc[i] \in Pdcc /\ HoldsOK(pdcc[i], sock)
                             /\ pdcc[i].transferred <= pdcc[i].filesize
  BY <1>1 DEF DccInv, EntriesOK, EntryOK
<1>3. TypeOK
  <2>1. \A fd \in DOMAIN sock : sock[fd].kind \in Kinds /\ sock[fd].flag \in {"syn", "conn"}
    BY <1>1 DEF SockTable, Socket
  <2>2. \A i \in DOMAIN dccs : /\ dccs[i].outstate \in {"off", "new", "conn"}
                               /\ dccs[i].outsock \in Fds \cup {0}
                               /\ dccs[i].delayed \in 0 .. 1
    <3>1. \A i \in DOMAIN dccs : dccs[i] \in Link
      BY <1>1
    <3> QED
      BY <3>1 DEF Link
  <2>3. \A i \in DOMAIN pdcc : /\ pdcc[i].type \in Types
                               /\ pdcc[i].sock \in Fds \cup {0}
                               /\ pdcc[i].delay \in 0 .. DELAY
                               /\ pdcc[i].transferred \in 0 .. pdcc[i].filesize
    BY <1>2 DEF Pdcc
  <2> QED
    BY <1>1, <2>1, <2>2, <2>3 DEF TypeOK, SockTable, WireTable
<1>4. ConnectedIsOpen
  BY <1>1 DEF ConnectedIsOpen, LinksOK, LinkUp, Is
<1>5. PendingHoldsSocket
  <2>1. \A i \in DOMAIN pdcc : pdcc[i].sock # 0 => PdccOf(pdcc[i].sock) = i
    BY <1>1, EntryOfSocket
  <2> QED
    BY <1>2, <2>1 DEF PendingHoldsSocket, HoldsOK
<1> QED
  BY <1>3, <1>4, <1>5

(* A bot connection that counts as connected and a pending DCC hold an open  *)
(* socket with the handlers of their kind, and no two pending DCCs the same: *)
(* killsocket(), removepdcc() and the reuse of a descriptor never leave an   *)
(* entry with a socket that is closed or another's.                          *)
THEOREM SocketsHeld == Spec => [](TypeOK /\ ConnectedIsOpen /\ PendingHoldsSocket)
<1>1. DccInv => TypeOK /\ ConnectedIsOpen /\ PendingHoldsSocket
  BY TableFacts
<1> QED
  BY <1>1, Invariance, PTL

-----------------------------------------------------------------------------
(* The bot connections and the configuration *)

(* Entry by entry the names of the chain are those in the configuration. *)
NamesSaved(d, s) ==
    /\ Len(d) = Len(s) /\ Len(d) <= MaxDccs
    /\ \A i \in DOMAIN d : d[i].name = s[i]

SavedInv == DccInv /\ NamesSaved(dccs, saved)

(* The names stay. *)
LEMMA NamesKept ==
    ASSUME DccInv, NamesSaved(dccs, saved), saved' = saved, Len(dccs') = Len(dccs),
           dccs' \in Seq(Link), \A j \in DOMAIN dccs : dccs'[j].name = dccs[j].name
    PROVE  NamesSaved(dccs, saved)'
<1>1. PICK e : e = dccs'
  OBVIOUS
<1>2. dccs \in Seq(Link) /\ DOMAIN e = DOMAIN dccs
  BY <1>1 DEF DccInv
<1>3. NamesSaved(e, saved)
  BY <1>1, <1>2 DEF NamesSaved
<1> QED
  BY <1>1, <1>3 DEF NamesSaved

LEMMA NamesAged ==
    ASSUME DccInv, NamesSaved(dccs, saved), saved' = saved, Aged(dccs, dccs', sock)
    PROVE  NamesSaved(dccs, saved)'
BY NamesKept DEF Aged

(* adddcc() adds to both, erasedcc() removes from both. *)
LEMMA NamesAdded ==
    ASSUME DccInv, NamesSaved(dccs, saved), NEW b \in Bots, cmdadddcc(b)
    PROVE  NamesSaved(dccs, saved)'
<1>1. PICK v : v = NewLink(b)
  OBVIOUS
<1>2. v \in Link /\ v.name = b
  BY <1>1 DEF NewLink, Link
<1>3. /\ dccs \in Seq(Link) /\ saved \in Seq(Bots) /\ pdcc \in Seq(Pdcc)
      /\ Len(dccs) = Len(saved) /\ \A i \in DOMAIN dccs : dccs[i].name = saved[i]
  BY DEF DccInv, ChainOK, NamesSaved
<1>4. dccs' = Append(dccs, v) /\ saved' = Append(saved, b) /\ Len(dccs) + 1 <= MaxDccs
  <2>1. Len(dccs) \in Nat /\ Len(pdcc) \in Nat
    BY <1>3
  <2> QED
    BY <1>1, <2>1, BoundNatural DEF cmdadddcc, Room
<1>5. PICK e, s : e = Append(dccs, v) /\ s = Append(saved, b)
  OBVIOUS
<1>6. /\ Len(e) = Len(dccs) + 1 /\ Len(s) = Len(saved) + 1 /\ DOMAIN e = 1 .. Len(dccs) + 1
      /\ \A i \in 1 .. Len(dccs) : e[i] = dccs[i]
      /\ \A i \in 1 .. Len(saved) : s[i] = saved[i]
      /\ e[Len(dccs) + 1] = v /\ s[Len(saved) + 1] = b
  BY <1>2, <1>3, <1>5
<1>7. NamesSaved(e, s)
  <2>1. ASSUME NEW i \in DOMAIN e PROVE e[i].name = s[i]
    <3>1. CASE i = Len(dccs) + 1
      BY <1>2, <1>3, <1>6, <3>1
    <3>2. CASE i # Len(dccs) + 1
      <4>1. i \in 1 .. Len(dccs)
        BY <1>3, <1>6, <3>2
      <4> QED
        BY <1>3, <1>6, <4>1
    <3> QED
      BY <3>1, <3>2
  <2> QED
    BY <1>3, <1>4, <1>6, <2>1 DEF NamesSaved
<1> QED
  BY <1>4, <1>5, <1>7 DEF NamesSaved

LEMMA NamesRemoved ==
    ASSUME DccInv, NamesSaved(dccs, saved), NEW n, cmddeldcc(n)
    PROVE  NamesSaved(dccs, saved)'
<1>1. /\ dccs \in Seq(Link) /\ saved \in Seq(Bots) /\ Len(dccs) <= MaxDccs
      /\ Len(dccs) = Len(saved) /\ \A i \in DOMAIN dccs : dccs[i].name = saved[i]
  BY DEF DccInv, NamesSaved
<1>2. n \in 1 .. Len(dccs) /\ n \in 1 .. Len(saved) /\ DOMAIN saved = 1 .. Len(saved)
  BY <1>1 DEF cmddeldcc
<1>3. PICK e, s : e = RemoveAt(dccs, n) /\ s = RemoveAt(saved, n)
  OBVIOUS
<1>4. dccs' = e /\ saved' = s
  BY <1>2, <1>3 DEF cmddeldcc
<1>5. /\ e \in Seq(Link) /\ Len(e) = Len(dccs) - 1
      /\ \A i \in 1 .. Len(dccs) - 1 : e[i] = IF i < n THEN dccs[i] ELSE dccs[i + 1]
  BY <1>1, <1>2, <1>3, RemoveAtFacts
<1>6. /\ s \in Seq(Bots) /\ Len(s) = Len(saved) - 1
      /\ \A i \in 1 .. Len(saved) - 1 : s[i] = IF i < n THEN saved[i] ELSE saved[i + 1]
  BY <1>1, <1>2, <1>3, RemoveAtFacts
<1>7. NamesSaved(e, s)
  <2>1. ASSUME NEW i \in DOMAIN e PROVE e[i].name = s[i]
    <3>1. i \in 1 .. Len(dccs) - 1 /\ i \in DOMAIN dccs /\ i + 1 \in DOMAIN dccs
      BY <1>1, <1>5
    <3> QED
      BY <1>1, <1>5, <1>6, <3>1
  <2> QED
    BY <1>1, <1>5, <1>6, <2>1, BoundNatural DEF NamesSaved
<1> QED
  BY <1>4, <1>7 DEF NamesSaved

(* loaddccs() reads all entries back while there are no more than it reads. *)
LEMMA NamesLoaded ==
    ASSUME DccInv, NamesSaved(dccs, saved), MaxDccs <= LOADED, Restart
    PROVE  NamesSaved(dccs, saved)'
<1>1. /\ dccs \in Seq(Link) /\ saved \in Seq(Bots) /\ Len(saved) \in Nat
      /\ Len(saved) <= MaxDccs
  BY DEF DccInv, NamesSaved
<1>2. Min({LOADED, Len(saved)}) = Len(saved)
  <2>1. {LOADED, Len(saved)} \subseteq Nat /\ {LOADED, Len(saved)} # {}
    BY <1>1, LoadedPositive
  <2>2. Len(saved) <= LOADED
    BY <1>1, LoadedPositive, BoundNatural
  <2>3. /\ Min({LOADED, Len(saved)}) \in {LOADED, Len(saved)}
        /\ Min({LOADED, Len(saved)}) <= Len(saved)
    BY <2>1, MinMember
  <2> QED
    BY <1>1, <2>2, <2>3, LoadedPositive
<1>3. PICK e : e = [i \in 1 .. Len(saved) |-> NewLink(saved[i])]
  OBVIOUS
<1>4. dccs' = e /\ saved' = saved
  BY <1>2, <1>3 DEF Restart
<1>5. DOMAIN e = 1 .. Len(saved) /\ \A i \in 1 .. Len(saved) : e[i].name = saved[i]
  BY <1>3 DEF NewLink
<1>6. Len(e) = Len(saved)
  BY <1>1, <1>3
<1>7. NamesSaved(e, saved)
  BY <1>1, <1>5, <1>6 DEF NamesSaved
<1> QED
  BY <1>4, <1>7 DEF NamesSaved

(* connecteddcc() keeps the names. *)
LEMMA NamesConnected ==
    ASSUME DccInv, NamesSaved(dccs, saved), NEW fd \in Fds, connecteddcc(fd)
    PROVE  NamesSaved(dccs, saved)'
<1>1. dccs \in Seq(Link)
  BY DEF DccInv
<1>2. PICK l : l = LinkOf(fd)
  OBVIOUS
<1>3. /\ saved' = saved
      /\ dccs' = IF l = 0 THEN dccs
                 ELSE [dccs EXCEPT ![l].outstate = "conn", ![l].delayed = 1]
  BY <1>2, Zenon DEF connecteddcc
<1>4. CASE l = 0
  BY <1>1, <1>3, <1>4, NamesKept
<1>5. CASE l # 0
  <2>1. FirstIn(l, {i \in 1 .. Len(dccs) : dccs[i].outsock = fd})
    BY <1>1, <1>2, LinkOfFirst
  <2>2. l \in DOMAIN dccs /\ dccs[l] \in Link
    BY <1>1, <1>5, <2>1 DEF FirstIn
  <2>3. PICK s, n, x :
          /\ s = "conn" /\ s \in {"off", "new", "conn"} /\ n = 1 /\ n \in 0 .. 1
          /\ x = Restated(dccs[l], s, n)
    OBVIOUS
  <2>4. x \in Link /\ x.name = dccs[l].name
    BY <2>2, <2>3, RestatedLink
  <2>5. dccs' = [dccs EXCEPT ![l] = x]
    BY <1>1, <1>3, <1>5, <2>2, <2>3 DEF Restated
  <2>6. PICK e : e = [dccs EXCEPT ![l] = x]
    OBVIOUS
  <2>7. e \in Seq(Link) /\ Len(e) = Len(dccs) /\ \A j \in DOMAIN dccs : e[j].name = dccs[j].name
    BY <1>1, <2>2, <2>4, <2>6
  <2> QED
    BY <1>3, <2>5, <2>6, <2>7, NamesKept
<1> QED
  BY <1>4, <1>5

(* Chats, transfers and cancels leave the bot connections alone. *)
LEMMA LinksUntouched ==
    ASSUME \/ Chats \/ Transfers
           \/ \E fd \in Fds : SessionOver(fd)
           \/ \E n \in Nicks, file \in BOOLEAN : canceldcc(n, file)
    PROVE  dccs' = dccs /\ saved' = saved
<1>1. ASSUME NEW n \in Nicks,
             \/ cmddccchat(n) \/ GotChatRequest(n) \/ cmddccanswer(n)
             \/ cmddccsend(n) \/ GotFileRequest(n) \/ cmddccget(n)
      PROVE  dccs' = dccs /\ saved' = saved
  <2>1. CASE cmddccchat(n) \/ cmddccsend(n)
    BY <2>1 DEF cmddccchat, cmddccsend, Offer, linkVars
  <2>2. CASE cmddccanswer(n) \/ cmddccget(n)
    BY <2>2 DEF cmddccanswer, cmddccget, linkVars
  <2>3. CASE GotChatRequest(n) \/ GotFileRequest(n)
    BY <2>3, Zenon DEF GotChatRequest, GotFileRequest, linkVars
  <2> QED
    BY <1>1, <2>1, <2>2, <2>3
<1>2. ASSUME NEW fd \in Fds,
             \/ acceptpdccchat(fd) \/ pdccconnected(fd)
             \/ acceptpdccfile(fd) \/ pdccfconnected(fd) \/ PeerSends(fd) \/ pdccfclosed(fd)
             \/ SessionOver(fd)
      PROVE  dccs' = dccs /\ saved' = saved
  BY <1>2, Zenon DEF acceptpdccchat, pdccconnected, acceptpdccfile, pdccfconnected,
     PeerSends, pdccfclosed, SessionOver, linkVars
<1>3. ASSUME NEW fd \in Fds, NEW k, PeerTakes(fd, k) \/ pdccfilesendack(fd, k) \/ pdccfget(fd, k)
      PROVE  dccs' = dccs /\ saved' = saved
  BY <1>3, Zenon DEF PeerTakes, pdccfilesendack, pdccfget, linkVars
<1>4. ASSUME NEW n \in Nicks, NEW file \in BOOLEAN, canceldcc(n, file)
      PROVE  dccs' = dccs /\ saved' = saved
  BY <1>4, Zenon DEF canceldcc, linkVars
<1> QED
  BY <1>1, <1>2, <1>3, <1>4 DEF Chats, Transfers

LEMMA NamesInductive ==
    ASSUME MaxDccs <= LOADED, SavedInv, [Next]_vars
    PROVE  SavedInv'
<1>1. DccInv /\ NamesSaved(dccs, saved)
  BY DEF SavedInv
<1>2. DccInv'
  BY <1>1, Inductive
<1>3. ASSUME dccs' = dccs, saved' = saved PROVE NamesSaved(dccs, saved)'
  BY <1>1, <1>3 DEF NamesSaved
<1>4. CASE Links
  <2>1. CASE \E b \in Bots : cmdadddcc(b)
    BY <1>1, <1>2, <2>1, NamesAdded DEF SavedInv
  <2>2. CASE \E n \in 1 .. MaxDccs : cmddeldcc(n)
    BY <1>1, <1>2, <2>2, NamesRemoved DEF SavedInv
  <2>3. CASE \E fd \in Fds : connecteddcc(fd)
    BY <1>1, <1>2, <2>3, NamesConnected DEF SavedInv
  <2>4. CASE \E fd \in Fds : killeddcc(fd)
    <3>1. PICK fd \in Fds : killeddcc(fd)
      BY <2>4
    <3>2. saved' = saved
      BY <3>1 DEF killeddcc
    <3> QED
      BY <1>1, <1>2, <3>1, <3>2, KilledDccStep, NamesAged DEF SavedInv
  <2> QED
    BY <1>4, <2>1, <2>2, <2>3, <2>4 DEF Links
<1>5. CASE \/ Chats \/ Transfers
           \/ \E fd \in Fds : SessionOver(fd)
           \/ \E n \in Nicks, file \in BOOLEAN : canceldcc(n, file)
  BY <1>2, <1>3, <1>5, LinksUntouched DEF SavedInv
<1>6. CASE \E fd \in Fds : AcceptFails(fd)
  <2>1. (dccs' = dccs /\ saved' = saved) \/ Restart
    BY <1>6 DEF AcceptFails, linkVars
  <2> QED
    BY <1>1, <1>2, <1>3, <2>1, NamesLoaded DEF SavedInv
<1>7. CASE bncalarm
  <2>1. saved' = saved
    BY <1>7 DEF bncalarm
  <2> QED
    BY <1>1, <1>2, <1>7, <2>1, AlarmStep, NamesAged DEF SavedInv
<1>8. CASE Restart
  BY <1>1, <1>2, <1>8, NamesLoaded DEF SavedInv
<1>9. CASE UNCHANGED vars
  BY <1>2, <1>3, <1>9 DEF vars, SavedInv
<1> QED
  BY <1>4, <1>5, <1>6, <1>7, <1>8, <1>9 DEF Next

LEMMA NamesFacts ==
    ASSUME SavedInv
    PROVE  Consistent
<1>1. dccs \in Seq(Link) /\ saved \in Seq(Bots) /\ DccInv /\ NamesSaved(dccs, saved)
  BY DEF SavedInv, DccInv
<1>2. DccSaved
  <2>1. /\ DOMAIN saved = DOMAIN dccs
        /\ \A i \in DOMAIN dccs : dccs[i].name = saved[i]
    BY <1>1 DEF NamesSaved
  <2>2. saved = [i \in DOMAIN saved |-> saved[i]]
    BY <1>1
  <2> QED
    BY <2>1, <2>2 DEF DccSaved
<1> QED
  BY <1>1, <1>2, TableFacts DEF Consistent

(* While a user has no more bot connections than loaddccs() reads back (20;  *)
(* adddcc() has no limit), the connection LISTDCC numbers n is the one in    *)
(* entry n of the configuration, which DELDCC removes, through any number of *)
(* restarts, and what counts as connected or pending holds its socket.       *)
THEOREM TablesAgree ==
    ASSUME MaxDccs <= LOADED
    PROVE  Spec => []Consistent
<1>1. Init => SavedInv
  <2> SUFFICES ASSUME Init PROVE SavedInv
    OBVIOUS
  <2>1. dccs = <<>> /\ saved = <<>>
    BY DEF Init
  <2>2. NamesSaved(dccs, saved)
    BY <2>1, BoundNatural DEF NamesSaved
  <2> QED
    BY <2>2, Initially DEF SavedInv
<1>2. SavedInv /\ [Next]_vars => SavedInv'
  BY NamesInductive
<1>3. SavedInv => Consistent
  BY NamesFacts
<1> QED
  BY <1>1, <1>2, <1>3, PTL DEF Spec
=============================================================================
