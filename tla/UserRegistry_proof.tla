------------------------- MODULE UserRegistry_proof -------------------------
(***************************************************************************)
(* Proofs about UserRegistry, for any number of records, descriptors, logins *)
(* and networks: records, saved entries and clients agree, and the owner's   *)
(* record is kept.  DeleteSwitched is FALSE in every theorem: a user who has *)
(* used SWITCHNET is not deleted.                                            *)
(***************************************************************************)
EXTENDS UserRegistry, FiniteSetsExt, SequencesExt, SequenceTheorems, WellFoundedInduction, TLAPS

-----------------------------------------------------------------------------
(* Numbers and lists *)

(* A nonempty set of naturals has a least element. *)
LEMMA LeastNatural ==
    ASSUME NEW T, T \subseteq Nat, T # {}
    PROVE  \E x \in T : \A y \in T : x <= y
<1>1. PICK R : R = OpToRel(<, Nat)
  BY Zenon
<1>2. IsWellFoundedOn(R, Nat)
  BY <1>1, NatLessThanWellFounded, Zenon
<1>3. \A x, y \in Nat : x < y => <<x, y>> \in R
  BY <1>1 DEF OpToRel
<1>4. PICK x \in T : \A y \in T : ~ (<<y, x>> \in R)
  BY <1>2, WFMin, Zenon
<1>5. \A y \in T : x <= y
  <2> TAKE y \in T
  <2>1. x \in Nat /\ y \in Nat
    BY <1>4
  <2>2. ~ (y < x)
    BY <1>3, <1>4, <2>1
  <2> QED
    BY <2>1, <2>2
<1> QED
  BY <1>4, <1>5

(* Min picks an element of a nonempty set of naturals, so a descriptor or   *)
(* slot chosen with it is a free one.                                       *)
LEMMA MinMember ==
    ASSUME NEW T, T \subseteq Nat, T # {}
    PROVE  Min(T) \in T /\ \A y \in T : Min(T) <= y
BY LeastNatural DEF Min

(* Two sequences of one element each. *)
LEMMA ConcatOnes ==
    ASSUME NEW a, NEW b
    PROVE  <<a>> \o <<b>> = <<a, b>>
<1>1. PICK S : S = {a, b}
  OBVIOUS
<1>2. <<a>> \in Seq(S) /\ <<b>> \in Seq(S) /\ <<a, b>> \in Seq(S)
  BY <1>1
<1>3. PICK p, q : p = <<a>> /\ q = <<b>>
  OBVIOUS
<1>4. p \in Seq(S) /\ q \in Seq(S) /\ Len(p) = 1 /\ Len(q) = 1 /\ p[1] = a /\ q[1] = b
  BY <1>2, <1>3
<1>5. PICK w : w = p \o q
  OBVIOUS
<1>6. /\ w \in Seq(S) /\ Len(w) = Len(p) + Len(q)
      /\ \A i \in 1 .. Len(p) + Len(q) : w[i] = IF i <= Len(p) THEN p[i] ELSE q[i - Len(p)]
  BY <1>4, <1>5, ConcatProperties
<1>7. w \in Seq(S) /\ Len(w) = 2 /\ w[1] = a /\ w[2] = b
  BY <1>4, <1>6
<1>8. PICK v : v = <<a, b>>
  OBVIOUS
<1>9. v \in Seq(S) /\ Len(v) = 2 /\ v[1] = a /\ v[2] = b
  BY <1>2, <1>8
<1>10. \A i \in 1 .. Len(w) : w[i] = v[i]
  BY <1>7, <1>9
<1>11. w = v
  BY <1>7, <1>9, <1>10, SeqEqual
<1> QED
  BY <1>3, <1>5, <1>8, <1>11

-----------------------------------------------------------------------------
Rec == [saved : Saved, insock : Fds \cup {0}, instate : {"NOUSE", "NOCON", "CONN"}]

-----------------------------------------------------------------------------
(* The inductive invariant *)

(* A record without a login has nothing else, and no entry. *)
Blank == \A u \in Slots : ~Exists(u) => rec[u] = NoRec /\ cfg[u] = NoSaved

(* The entry of a record has its login. *)
LoginSaved == \A u \in Slots : cfg[u].login = Login(u)

(* A parent, in memory or in the entry, is a record of the same user, also of *)
(* users who have used SWITCHNET: what happens to them stays with them.      *)
FamilyHolds ==
    \A u \in Slots : Exists(u) =>
       /\ Parent(u) # 0 => Login(Parent(u)) = Login(u)
       /\ cfg[u].parent # 0 => Login(cfg[u].parent) = Login(u)

(* The entry s is what is saved of the record with r. *)
Agrees(s, r) ==
    /\ s.login = r.login /\ s.network = r.network /\ s.parent = r.parent
    /\ s.rights = r.rights /\ s.opt = r.opt
    /\ r.parent = 0 => s.pass = r.pass /\ s.user = r.user

SavedAgrees == \A u \in Slots : Settled(u) => Agrees(cfg[u], rec[u].saved)

(* A network has a name. *)
NetworksNamed == \A u \in Slots : Settled(u) /\ Parent(u) # 0 => rec[u].saved.network # None

(* The first login made record 1, which is never given up. *)
OwnerFirst ==
    /\ nousers => \A u \in Slots : ~Exists(u)
    /\ ~nousers => Exists(1)
    /\ Settled(1) => Parent(1) = 0

RecordsInv ==
    /\ Blank
    /\ LoginSaved
    /\ FamilyHolds
    /\ ParentsAlive
    /\ NamesUnique
    /\ NetworksNamed
    /\ SavedAgrees
    /\ OwnerFirst

(* A client socket names a record of its user, and the main one. *)
OwnsSocket(rs, u, name) ==
    /\ rs[u].saved.login # None /\ rs[u].saved.login = name
    /\ name \notin switched => rs[u].saved.parent = 0

SocketsOwned == \A f \in Fds : sock[f] # 0 => OwnsSocket(rec, sock[f], owner[f])

(* A main record is connected while a client socket names it, and its insock *)
(* is one of them.                                                           *)
Connected(r, sk, u) ==
    /\ r.instate = "CONN" <=> \E f \in Fds : sk[f] = u
    /\ r.insock # 0 => sk[r.insock] = u

MainConnected == \A u \in Slots : Settled(u) /\ Parent(u) = 0 => Connected(rec[u], sock, u)

ClientsInv == SocketsOwned /\ MainConnected

RegistryInv == TypeOK /\ RecordsInv /\ ClientsInv

(* What every step keeps, besides. *)
OwnerLogin == Exists(1) => rec'[1].saved.login = Login(1)

-----------------------------------------------------------------------------
(* Consequences *)

LEMMA Types ==
    ASSUME TypeOK
    PROVE  /\ MaxUser \in Nat \ {0} /\ Slots = 1 .. MaxUser /\ 1 \in Slots /\ 0 \notin Slots
           /\ None \notin Logins /\ None \notin Nets /\ 0 \notin Fds
           /\ \A u \in Slots : /\ rec[u] \in Rec /\ rec[u].saved \in Saved /\ cfg[u] \in Saved
                               /\ Parent(u) \in 0 .. MaxUser /\ Login(u) \in Logins \cup {None}
                               /\ Parent(u) # 0 => Parent(u) \in Slots
                               /\ cfg[u].parent # 0 => cfg[u].parent \in Slots
                               /\ Root(u) \in Slots
           /\ \A f \in Fds : sock[f] \in 0 .. MaxUser /\ (sock[f] # 0 => sock[f] \in Slots)
<1>1. /\ MaxUser \in Nat \ {0} /\ None \notin Logins /\ None \notin Nets /\ 0 \notin Fds
  BY UserRegistryAssumption
<1>2. Slots = 1 .. MaxUser /\ 1 \in Slots /\ 0 \notin Slots
  BY <1>1 DEF Slots
<1>3. ASSUME NEW u \in Slots
      PROVE  /\ rec[u] \in Rec /\ rec[u].saved \in Saved /\ cfg[u] \in Saved
             /\ Parent(u) \in 0 .. MaxUser /\ Login(u) \in Logins \cup {None}
             /\ Parent(u) # 0 => Parent(u) \in Slots
             /\ cfg[u].parent # 0 => cfg[u].parent \in Slots
             /\ Root(u) \in Slots
  <2>1. rec[u] \in Rec /\ cfg[u] \in Saved
    BY DEF TypeOK, Rec
  <2>2. rec[u].saved \in Saved
    BY <2>1 DEF Rec
  <2>3. /\ Parent(u) \in 0 .. MaxUser /\ Login(u) \in Logins \cup {None}
        /\ cfg[u].parent \in 0 .. MaxUser
    BY <2>1, <2>2 DEF Saved, Parent, Login
  <2> QED
    BY <1>1, <1>2, <2>1, <2>2, <2>3 DEF Root
<1>4. \A f \in Fds : sock[f] \in 0 .. MaxUser
  BY DEF TypeOK
<1> QED
  BY <1>1, <1>2, <1>3, <1>4

(* The main record of a user's record is his, and a main one. *)
LEMMA RootFacts ==
    ASSUME TypeOK, RecordsInv, NEW u \in Slots, Exists(u)
    PROVE  /\ Root(u) \in Slots /\ Exists(Root(u)) /\ Login(Root(u)) = Login(u)
           /\ Settled(u) => Parent(Root(u)) = 0 /\ Settled(Root(u))
<1>1. Root(u) \in Slots
  BY Types
<1>2. Login(Root(u)) = Login(u)
  BY DEF Root, RecordsInv, FamilyHolds
<1>3. Exists(Root(u))
  BY <1>2 DEF Exists
<1>4. Settled(u) => Parent(Root(u)) = 0
  BY DEF Root, RecordsInv, ParentsAlive
<1>5. Settled(u) => Settled(Root(u))
  BY <1>2, <1>3 DEF Settled
<1> QED
  BY <1>1, <1>2, <1>3, <1>4, <1>5

(* A step that changes no saved field of a record and no entry. *)
LEMMA SameRecords ==
    ASSUME TypeOK, RecordsInv,
           \A u \in Slots : rec'[u].saved = rec[u].saved /\ (~Exists(u) => rec'[u] = rec[u]),
           cfg' = cfg, switched' = switched, nousers' = nousers
    PROVE  RecordsInv' /\ OwnerLogin
<1>1. \A u \in Slots : /\ Login(u)' = Login(u) /\ Parent(u)' = Parent(u)
                       /\ Exists(u)' = Exists(u) /\ Settled(u)' = Settled(u)
  BY DEF Login, Parent, Exists, Settled
<1>2. \A u \in Slots : (Parent(u) # 0 => Parent(u) \in Slots) /\ (cfg[u].parent # 0 => cfg[u].parent \in Slots)
  BY Types
<1>3. Blank' /\ LoginSaved' /\ SavedAgrees'
  BY <1>1 DEF RecordsInv, Blank, LoginSaved, SavedAgrees
<1>4. FamilyHolds'
  BY <1>1, <1>2 DEF RecordsInv, FamilyHolds
<1>5. ParentsAlive'
  BY <1>1, <1>2 DEF RecordsInv, ParentsAlive
<1>6. NamesUnique' /\ NetworksNamed'
  BY <1>1 DEF RecordsInv, NamesUnique, NetworksNamed
<1>7. OwnerFirst' /\ OwnerLogin
  BY <1>1, Types DEF RecordsInv, OwnerFirst, OwnerLogin, Login
<1> QED
  BY <1>3, <1>4, <1>5, <1>6, <1>7 DEF RecordsInv

-----------------------------------------------------------------------------
(* The clients *)

LEMMA InvParts ==
    ASSUME RegistryInv
    PROVE  TypeOK /\ RecordsInv /\ SocketsOwned /\ MainConnected
BY DEF RegistryInv, ClientsInv

(* A step of the clients: only insock and instate of records are changed. *)
LEMMA ClientStep ==
    ASSUME RegistryInv, NEW rs \in [Slots -> Rec], rec' = rs,
           \A u \in Slots : rs[u].saved = rec[u].saved /\ (~Exists(u) => rs[u] = rec[u]),
           NEW sk \in [Fds -> 0 .. MaxUser], sock' = sk,
           NEW ow \in [Fds -> Logins \cup {None}], owner' = ow,
           \A f \in Fds : sk[f] # 0 => OwnsSocket(rec, sk[f], ow[f]),
           \A u \in Slots : Settled(u) /\ Parent(u) = 0 => Connected(rs[u], sk, u),
           UNCHANGED <<cfg, switched, nousers, sets>>
    PROVE  RegistryInv' /\ OwnerLogin
<1>1. TypeOK'
  BY DEF RegistryInv, TypeOK, Rec
<1>2. RecordsInv' /\ OwnerLogin
  BY SameRecords DEF RegistryInv
<1>3. SocketsOwned'
  <2>1. \A f \in Fds : sk[f] # 0 => sk[f] \in Slots
    BY UserRegistryAssumption DEF Slots
  <2> QED
    BY <2>1 DEF SocketsOwned, OwnsSocket
<1>4. MainConnected'
  <2>1. \A u \in Slots : Settled(u)' = Settled(u) /\ Parent(u)' = Parent(u)
    BY DEF Settled, Parent, Exists, Login
  <2> QED
    BY <2>1 DEF MainConnected, Connected
<1> QED
  BY <1>1, <1>2, <1>3, <1>4 DEF RegistryInv, ClientsInv

LEMMA checkuserFacts ==
    ASSUME TypeOK, RecordsInv, NEW name \in Logins, NEW u \in checkuser(name)
    PROVE  /\ u \in Slots /\ Exists(u) /\ Login(u) = name
           /\ name \notin switched => Parent(u) = 0
<1>1. PICK v \in Slots : Login(v) = name /\ u = Root(v)
  BY DEF checkuser
<1>2. Exists(v)
  BY <1>1, Types DEF Exists
<1> QED
  BY <1>1, <1>2, RootFacts DEF Settled

LEMMA Steplinkpeer ==
    ASSUME RegistryInv, NEW f \in Free, NEW name \in Logins, linkpeer(f, name)
    PROVE  RegistryInv' /\ OwnerLogin
<1>1. TypeOK /\ RecordsInv /\ SocketsOwned /\ MainConnected
  BY InvParts
<1>2. f \in Fds /\ sock[f] = 0
  BY DEF Free
<1>3. PICK u \in checkuser(name) : Attach(f, u, name, rec)
  BY DEF linkpeer
<1>4. /\ u \in Slots /\ Exists(u) /\ Login(u) = name
      /\ name \notin switched => Parent(u) = 0
  BY <1>1, checkuserFacts
<1>5. PICK rs : rs = rec'
  OBVIOUS
<1>6. rs = [v \in Slots |-> IF v = u \/ (rec[v].saved.parent = u /\ rec[v] # NoRec)
                            THEN [rec[v] EXCEPT !.insock = f, !.instate = "CONN"] ELSE rec[v]]
  BY <1>3, <1>5, Zenon DEF Attach
<1>7. ASSUME NEW v \in Slots
      PROVE  /\ rs[v] \in Rec /\ rs[v].saved = rec[v].saved
             /\ v = u => rs[v].insock = f /\ rs[v].instate = "CONN"
             /\ v # u /\ Parent(v) # u => rs[v] = rec[v]
             /\ ~Exists(v) => rs[v] = rec[v]
  <2>1. rec[v] \in Rec
    BY <1>1, Types
  <2>2. PICK k : k = [rec[v] EXCEPT !.insock = f, !.instate = "CONN"]
    OBVIOUS
  <2>3. k \in Rec /\ k.saved = rec[v].saved /\ k.insock = f /\ k.instate = "CONN"
    BY <1>2, <2>1, <2>2 DEF Rec
  <2>4. rs[v] = IF v = u \/ (Parent(v) = u /\ rec[v] # NoRec) THEN k ELSE rec[v]
    BY <1>6, <2>2 DEF Parent
  <2>5. ~Exists(v) => v # u /\ rec[v] = NoRec
    BY <1>1, <1>4 DEF RecordsInv, Blank
  <2> QED
    BY <2>1, <2>3, <2>4, <2>5
<1>8. rs \in [Slots -> Rec]
  BY <1>6, <1>7
<1>9. PICK sk, ow : sk = sock' /\ ow = owner'
  OBVIOUS
<1>10. sk = [sock EXCEPT ![f] = u] /\ ow = [owner EXCEPT ![f] = name]
  BY <1>3, <1>9 DEF Attach
<1>11. /\ sock \in [Fds -> 0 .. MaxUser] /\ owner \in [Fds -> Logins \cup {None}]
       /\ u \in 0 .. MaxUser /\ u # 0
  <2>1. sock \in [Fds -> 0 .. MaxUser] /\ owner \in [Fds -> Logins \cup {None}]
    BY <1>1 DEF TypeOK
  <2>2. u \in 0 .. MaxUser /\ u # 0
    BY <1>4, UserRegistryAssumption DEF Slots
  <2> QED
    BY <2>1, <2>2
<1>12. sk \in [Fds -> 0 .. MaxUser] /\ ow \in [Fds -> Logins \cup {None}]
  BY <1>10, <1>11
<1>13. /\ sk[f] = u /\ ow[f] = name
       /\ \A g \in Fds : g # f => sk[g] = sock[g] /\ ow[g] = owner[g]
  BY <1>2, <1>10, <1>11
<1>14. ASSUME NEW g \in Fds, sk[g] # 0 PROVE OwnsSocket(rec, sk[g], ow[g])
  <2>1. CASE g = f
    BY <1>4, <1>13, <2>1 DEF OwnsSocket, Exists, Login, Parent
  <2>2. CASE g # f
    BY <1>1, <1>13, <1>14, <2>2 DEF SocketsOwned
  <2> QED
    BY <2>1, <2>2
<1>15. ASSUME NEW v \in Slots, Settled(v), Parent(v) = 0 PROVE Connected(rs[v], sk, v)
  <2>1. CASE v = u
    BY <1>2, <1>7, <1>13, <2>1 DEF Connected
  <2>2. CASE v # u
    <3>1. rs[v] = rec[v] /\ v # 0
      BY <1>1, <1>7, <1>11, <1>15, <2>2, Types
    <3>2. Connected(rec[v], sock, v)
      BY <1>1, <1>15 DEF MainConnected
    <3>3. \A g \in Fds : sk[g] = v <=> sock[g] = v
      BY <1>2, <1>13, <2>2, <3>1
    <3>4. rec[v].insock \in Fds \cup {0}
      BY <1>1, Types DEF Rec
    <3> QED
      BY <3>1, <3>2, <3>3, <3>4 DEF Connected
  <2> QED
    BY <2>1, <2>2
<1> QED
  BY <1>5, <1>7, <1>8, <1>9, <1>12, <1>14, <1>15, ClientStep DEF linkpeer

(* A main record whose fields stay is connected as before, when no socket    *)
(* that names it changes.                                                    *)
LEMMA ConnectedSame ==
    ASSUME TypeOK, MainConnected, NEW v \in Slots, Settled(v), Parent(v) = 0, NEW sk,
           \A g \in Fds : sk[g] = v <=> sock[g] = v
    PROVE  Connected(rec[v], sk, v)
<1>1. Connected(rec[v], sock, v)
  BY DEF MainConnected
<1>2. rec[v].insock \in Fds \cup {0}
  BY Types DEF Rec
<1> QED
  BY <1>1, <1>2 DEF Connected

LEMMA StepLeave ==
    ASSUME RegistryInv, NEW f \in Fds, Leave(f)
    PROVE  RegistryInv' /\ OwnerLogin
<1>1. TypeOK /\ RecordsInv /\ SocketsOwned /\ MainConnected
  BY InvParts
<1>2. PICK u, rs, sk, ow : u = sock[f] /\ rs = rec' /\ sk = sock' /\ ow = owner'
  OBVIOUS
<1>3. u \in Slots /\ u # 0 /\ 0 \in 0 .. MaxUser /\ Exists(u)
  BY <1>1, <1>2, Types DEF Leave, SocketsOwned, OwnsSocket, Exists, Login
<1>4. sk = [sock EXCEPT ![f] = 0] /\ ow = [owner EXCEPT ![f] = None]
  BY <1>2 DEF Leave
<1>5. sock \in [Fds -> 0 .. MaxUser] /\ owner \in [Fds -> Logins \cup {None}]
  BY <1>1 DEF TypeOK
<1>6. sk \in [Fds -> 0 .. MaxUser] /\ ow \in [Fds -> Logins \cup {None}]
  BY <1>3, <1>4, <1>5
<1>7. sk[f] = 0 /\ \A g \in Fds : g # f => sk[g] = sock[g] /\ ow[g] = owner[g]
  BY <1>4, <1>5
<1>8. \A g \in Fds : sk[g] # 0 => OwnsSocket(rec, sk[g], ow[g])
  BY <1>1, <1>7 DEF SocketsOwned
<1>9. ASSUME NEW v \in Slots, v # u PROVE \A g \in Fds : sk[g] = v <=> sock[g] = v
  BY <1>1, <1>2, <1>7, <1>9, Types
<1>10. UNCHANGED <<cfg, switched, nousers, sets>>
  BY DEF Leave
<1>11. ASSUME NEW g \in Fds \ {f}, sock[g] = u, rs = [rec EXCEPT ![u].insock = g]
       PROVE  RegistryInv' /\ OwnerLogin
  <2>1. PICK k : k = [rec[u] EXCEPT !.insock = g]
    OBVIOUS
  <2>2. rs = [rec EXCEPT ![u] = k] /\ rec[u] \in Rec /\ rec \in [Slots -> Rec]
    BY <1>1, <1>3, <1>11, <2>1, Types DEF TypeOK, Rec
  <2>3. k \in Rec /\ k.saved = rec[u].saved /\ k.insock = g /\ k.instate = rec[u].instate
    BY <2>1, <2>2 DEF Rec
  <2>4. rs \in [Slots -> Rec] /\ rs[u] = k /\ \A v \in Slots : v # u => rs[v] = rec[v]
    BY <1>3, <2>2, <2>3
  <2>5. \A v \in Slots : rs[v].saved = rec[v].saved /\ (~Exists(v) => rs[v] = rec[v])
    BY <1>3, <2>3, <2>4
  <2>6. ASSUME NEW v \in Slots, Settled(v), Parent(v) = 0 PROVE Connected(rs[v], sk, v)
    <3>1. CASE v = u
      <4>1. Connected(rec[u], sock, u)
        BY <1>1, <2>6, <3>1 DEF MainConnected
      <4>2. sk[g] = u /\ rec[u].instate = "CONN"
        BY <1>7, <1>11, <4>1 DEF Connected
      <4> QED
        BY <1>11, <2>3, <2>4, <3>1, <4>2 DEF Connected
    <3>2. CASE v # u
      BY <1>1, <1>9, <2>4, <2>6, <3>2, ConnectedSame
    <3> QED
      BY <3>1, <3>2
  <2> QED
    BY <1>2, <1>6, <1>8, <1>10, <2>4, <2>5, <2>6, ClientStep
<1>12. ASSUME \A g \in Fds \ {f} : sock[g] # u, rs = Detached(rec, u)
       PROVE  RegistryInv' /\ OwnerLogin
  <2>1. ASSUME NEW v \in Slots
        PROVE  /\ rs[v] \in Rec /\ rs[v].saved = rec[v].saved
               /\ v = u => rs[v].insock = 0 /\ rs[v].instate = "NOCON"
               /\ v # u /\ Parent(v) # u => rs[v] = rec[v]
               /\ ~Exists(v) => rs[v] = rec[v]
    <3>1. rec[v] \in Rec
      BY <1>1, Types
    <3>2. PICK k : k = [rec[v] EXCEPT !.instate = "NOCON", !.insock = 0]
      OBVIOUS
    <3>3. k \in Rec /\ k.saved = rec[v].saved /\ k.insock = 0 /\ k.instate = "NOCON"
      BY <3>1, <3>2 DEF Rec
    <3>4. rs[v] = IF rec[v] # NoRec /\ (v = u \/ Parent(v) = u) THEN k ELSE rec[v]
      BY <1>12, <3>2 DEF Detached, Parent
    <3>5. ~Exists(v) => rec[v] = NoRec
      BY <1>1 DEF RecordsInv, Blank
    <3>6. Exists(v) => rec[v] # NoRec
      BY DEF Exists, Login, NoRec, NoSaved
    <3> QED
      BY <1>3, <3>1, <3>3, <3>4, <3>5, <3>6
  <2>2. rs \in [Slots -> Rec]
    BY <1>12, <2>1 DEF Detached
  <2>3. ASSUME NEW v \in Slots, Settled(v), Parent(v) = 0 PROVE Connected(rs[v], sk, v)
    <3>1. CASE v = u
      <4>1. \A g \in Fds : sk[g] # u
        BY <1>3, <1>7, <1>12
      <4> QED
        BY <2>1, <3>1, <4>1 DEF Connected
    <3>2. CASE v # u
      <4>1. rs[v] = rec[v]
        BY <1>3, <2>1, <2>3, <3>2
      <4> QED
        BY <1>1, <1>9, <2>3, <3>2, <4>1, ConnectedSame
    <3> QED
      BY <3>1, <3>2
  <2> QED
    BY <1>2, <1>6, <1>8, <1>10, <2>1, <2>2, <2>3, ClientStep
<1> QED
  BY <1>2, <1>3, <1>11, <1>12 DEF Leave

(* A line of a client or a server refreshes insock and instate of a record:  *)
(* of a network, or of the main record whose client it is.                   *)
LEMMA RefreshStep ==
    ASSUME RegistryInv, NEW v \in Slots, Exists(v), NEW k \in Rec, k.saved = rec[v].saved,
           rec' = [rec EXCEPT ![v] = k],
           Settled(v) /\ Parent(v) = 0 =>
              k.instate = rec[v].instate /\ k.insock \in Fds /\ sock[k.insock] = v,
           UNCHANGED <<cfg, sock, nousers, owner, switched, sets>>
    PROVE  RegistryInv' /\ OwnerLogin
<1>1. TypeOK /\ RecordsInv /\ SocketsOwned /\ MainConnected
  BY InvParts
<1>2. PICK rs : rs = rec'
  OBVIOUS
<1>3. rec \in [Slots -> Rec]
  BY <1>1 DEF TypeOK, Rec
<1>4. rs \in [Slots -> Rec] /\ rs[v] = k /\ \A w \in Slots : w # v => rs[w] = rec[w]
  BY <1>2, <1>3
<1>5. sock \in [Fds -> 0 .. MaxUser] /\ owner \in [Fds -> Logins \cup {None}]
  BY <1>1 DEF TypeOK
<1>6. \A w \in Slots : rs[w].saved = rec[w].saved /\ (~Exists(w) => rs[w] = rec[w])
  BY <1>4
<1>7. ASSUME NEW w \in Slots, Settled(w), Parent(w) = 0 PROVE Connected(rs[w], sock, w)
  <2>1. Connected(rec[w], sock, w)
    BY <1>1, <1>7 DEF MainConnected
  <2> QED
    BY <1>4, <1>7, <2>1 DEF Connected
<1>8. \A f \in Fds : sock[f] # 0 => OwnsSocket(rec, sock[f], owner[f])
  BY <1>1 DEF SocketsOwned
<1> QED
  BY <1>2, <1>4, <1>5, <1>6, <1>7, <1>8, ClientStep

(* The record of a client's line is one of the user of the client. *)
LEMMA TargetFacts ==
    ASSUME RegistryInv, NEW f \in Fds, NEW v \in Slots, Target(f, v)
    PROVE  /\ sock[f] \in Slots /\ Root(sock[f]) \in Slots /\ Exists(v)
           /\ Login(v) = owner[f]
           /\ Settled(v) => Parent(sock[f]) = 0 /\ Root(sock[f]) = sock[f]
           /\ v # Root(sock[f]) => Parent(v) # 0
<1>1. TypeOK /\ RecordsInv /\ SocketsOwned
  BY InvParts
<1>2. sock[f] \in Slots /\ OwnsSocket(rec, sock[f], owner[f])
  BY <1>1, Types DEF Target, SocketsOwned
<1>3. PICK r : r = Root(sock[f])
  OBVIOUS
<1>4. Exists(sock[f]) /\ Login(sock[f]) = owner[f]
  BY <1>2 DEF OwnsSocket, Exists, Login
<1>5. r \in Slots /\ r # 0 /\ Exists(r) /\ Login(r) = owner[f]
  BY <1>1, <1>2, <1>3, <1>4, RootFacts, Types
<1>6. v = r \/ (Exists(v) /\ Parent(v) = r)
  BY <1>3 DEF Target, Networks
<1>7. Exists(v) /\ Login(v) = owner[f]
  BY <1>1, <1>5, <1>6 DEF RecordsInv, FamilyHolds
<1>8. Settled(v) => Parent(sock[f]) = 0
  BY <1>2, <1>7 DEF Settled, OwnsSocket, Parent
<1> QED
  BY <1>2, <1>3, <1>5, <1>6, <1>7, <1>8 DEF Root

LEMMA StepInbound ==
    ASSUME RegistryInv, NEW f \in Fds, NEW v \in Slots, Inbound(f, v)
    PROVE  RegistryInv' /\ OwnerLogin
<1>1. TypeOK /\ Target(f, v) /\ userinbound(f, v)
  BY InvParts DEF Inbound
<1>2. /\ sock[f] \in Slots /\ Root(sock[f]) \in Slots /\ Exists(v)
      /\ Settled(v) => Root(sock[f]) = sock[f]
      /\ v # Root(sock[f]) => Parent(v) # 0
  BY <1>1, TargetFacts
<1>3. rec[v] \in Rec /\ rec[Root(sock[f])] \in Rec
  BY <1>1, <1>2, Types
<1>4. UNCHANGED <<cfg, sock, nousers, owner, switched, sets>>
  BY DEF Inbound
<1>5. CASE v = Root(sock[f])
  <2>1. PICK k : k = [rec[v] EXCEPT !.insock = f]
    OBVIOUS
  <2>2. k \in Rec /\ k.saved = rec[v].saved /\ k.insock = f /\ k.instate = rec[v].instate
    BY <1>3, <2>1 DEF Rec
  <2>3. rec' = [rec EXCEPT ![v] = k]
    BY <1>1, <1>5, <2>1 DEF userinbound
  <2> QED
    BY <1>2, <1>4, <1>5, <2>2, <2>3, RefreshStep
<1>6. CASE v # Root(sock[f])
  <2>1. PICK k, i : i = rec[Root(sock[f])].instate
                    /\ k = [rec[v] EXCEPT !.insock = f, !.instate = i]
    OBVIOUS
  <2>2. k \in Rec /\ k.saved = rec[v].saved
    BY <1>3, <2>1 DEF Rec
  <2>3. rec' = [rec EXCEPT ![v] = k]
    BY <1>1, <1>6, <2>1 DEF userinbound
  <2> QED
    BY <1>2, <1>4, <1>6, <2>2, <2>3, RefreshStep
<1> QED
  BY <1>5, <1>6

LEMMA Stepuseroutbound ==
    ASSUME RegistryInv, NEW v \in Slots, useroutbound(v)
    PROVE  RegistryInv' /\ OwnerLogin
<1>1. TypeOK /\ Exists(v) /\ Parent(v) # 0
  BY InvParts DEF useroutbound
<1>2. rec[v] \in Rec /\ rec[Parent(v)] \in Rec
  BY <1>1, Types
<1>3. PICK k, i, j : /\ i = rec[Parent(v)].insock /\ j = rec[Parent(v)].instate
                     /\ k = [rec[v] EXCEPT !.insock = i, !.instate = j]
  OBVIOUS
<1>4. k \in Rec /\ k.saved = rec[v].saved
  BY <1>2, <1>3 DEF Rec
<1>5. rec' = [rec EXCEPT ![v] = k] /\ UNCHANGED <<cfg, sock, nousers, owner, switched, sets>>
  BY <1>3 DEF useroutbound
<1> QED
  BY <1>1, <1>4, <1>5, RefreshStep

-----------------------------------------------------------------------------
(* New records *)

(* The entry s can be given to a free record: it is a new user's, or that of *)
(* a network with a new name of a user's main record.                        *)
MayCreate(s) ==
    /\ s \in Saved /\ s.login \in Logins
    /\ \/ s.parent = 0 /\ \A v \in Slots : Login(v) # s.login
       \/ /\ s.parent \in Slots /\ Exists(s.parent) /\ Parent(s.parent) = 0
          /\ Login(s.parent) = s.login /\ rec[s.parent].saved.rights = s.rights
          /\ s.network # None
          /\ \A v \in Slots : Exists(v) /\ Parent(v) = s.parent => rec[v].saved.network # s.network

LEMMA CreateRecords ==
    ASSUME TypeOK, RecordsInv, NEW n \in Slots, ~Exists(n), NEW s, MayCreate(s),
           NEW k \in Rec, k.saved = s,
           rec' = [rec EXCEPT ![n] = k], cfg' = [cfg EXCEPT ![n] = s],
           n = 1 => s.parent = 0, n # 1 => Exists(1),
           nousers' = FALSE, switched' = switched
    PROVE  RecordsInv' /\ OwnerLogin
<1>1. rec \in [Slots -> Rec] /\ cfg \in [Slots -> Saved]
  BY DEF TypeOK, Rec
<1>2. /\ rec'[n] = k /\ cfg'[n] = s
      /\ \A u \in Slots : u # n => rec'[u] = rec[u] /\ cfg'[u] = cfg[u]
  BY <1>1
<1>3. /\ Login(n)' = s.login /\ Parent(n)' = s.parent /\ Exists(n)'
      /\ \A u \in Slots : u # n =>
            /\ Login(u)' = Login(u) /\ Parent(u)' = Parent(u)
            /\ Exists(u)' = Exists(u) /\ Settled(u)' = Settled(u)
  BY <1>2, UserRegistryAssumption DEF MayCreate, Login, Parent, Exists, Settled
<1>4. /\ \A u \in Slots : (Parent(u) # 0 => Parent(u) \in Slots) /\ (cfg[u].parent # 0 => cfg[u].parent \in Slots)
      /\ 1 \in Slots /\ 0 \notin Slots
  BY Types
<1>5. \A u \in Slots : Exists(u) => Parent(u) # n /\ cfg[u].parent # n
  BY <1>4 DEF RecordsInv, FamilyHolds, Exists
<1>6. /\ Blank /\ LoginSaved /\ FamilyHolds /\ ParentsAlive
      /\ NamesUnique /\ NetworksNamed /\ SavedAgrees /\ OwnerFirst
  BY DEF RecordsInv
<1>7. Blank'
  BY <1>2, <1>3, <1>6 DEF Blank
<1>8. LoginSaved'
  BY <1>2, <1>3, <1>6 DEF LoginSaved
<1>9. FamilyHolds'
  <2>1. ASSUME NEW u \in Slots, Exists(u)'
        PROVE  /\ Parent(u)' # 0 => Login(Parent(u))' = Login(u)'
               /\ cfg'[u].parent # 0 => Login(cfg[u].parent)' = Login(u)'
    <3>1. CASE u = n
      BY <1>2, <1>3, <3>1 DEF MayCreate
    <3>2. CASE u # n
      BY <1>2, <1>3, <1>4, <1>5, <1>6, <2>1, <3>2 DEF FamilyHolds
    <3> QED
      BY <3>1, <3>2
  <2> QED
    BY <2>1 DEF FamilyHolds
<1>10. ParentsAlive'
  <2>1. ASSUME NEW u \in Slots, Settled(u)', Parent(u)' # 0
        PROVE  /\ Parent(Parent(u))' = 0
               /\ Login(Parent(u))' = Login(u)'
               /\ rec'[Parent(u)'].saved.rights = rec'[u].saved.rights
    <3>1. CASE u = n
      BY <1>2, <1>3, <2>1, <3>1 DEF MayCreate
    <3>2. CASE u # n
      BY <1>2, <1>3, <1>4, <1>5, <1>6, <2>1, <3>2 DEF ParentsAlive, Settled
    <3> QED
      BY <3>1, <3>2
  <2> QED
    BY <2>1 DEF ParentsAlive
<1>11. NamesUnique'
  <2>1. ASSUME NEW v \in Slots, v # n, Exists(v), Login(v) = s.login
        PROVE  /\ s.parent # 0
               /\ s.parent = Parent(v) => s.network # rec[v].saved.network
    BY <1>4, <2>1 DEF MayCreate
  <2>2. ASSUME NEW u \in Slots, NEW v \in Slots, Settled(u)', Settled(v)', u # v, Login(u)' = Login(v)'
        PROVE  /\ Parent(u)' # 0 \/ Parent(v)' # 0
               /\ Parent(u)' = Parent(v)' => rec'[u].saved.network # rec'[v].saved.network
    <3>1. CASE u = n
      BY <1>2, <1>3, <2>1, <2>2, <3>1 DEF Settled
    <3>2. CASE v = n
      BY <1>2, <1>3, <2>1, <2>2, <3>2 DEF Settled
    <3>3. CASE u # n /\ v # n
      BY <1>2, <1>3, <1>6, <2>2, <3>3 DEF NamesUnique
    <3> QED
      BY <3>1, <3>2, <3>3
  <2> QED
    BY <2>2 DEF NamesUnique
<1>12. SavedAgrees'
  <2>1. Agrees(s, s)
    BY DEF Agrees
  <2> QED
    BY <1>2, <1>3, <1>6, <2>1 DEF SavedAgrees, Agrees
<1>13. OwnerFirst' /\ OwnerLogin
  BY <1>3, <1>4, <1>6 DEF OwnerFirst, OwnerLogin, Login
<1>14. NetworksNamed'
  BY <1>2, <1>3, <1>6 DEF NetworksNamed, MayCreate
<1> QED
  BY <1>7, <1>8, <1>9, <1>10, <1>11, <1>12, <1>13, <1>14 DEF RecordsInv

(* The sockets sk with the owners ow are the ones before, or name the new     *)
(* record n as the main record of its user.                                  *)
NewSockets(sk, ow, n, s) ==
    /\ sk \in [Fds -> 0 .. MaxUser] /\ ow \in [Fds -> Logins \cup {None}]
    /\ \A g \in Fds : sk[g] # 0 =>
          \/ sk[g] = n /\ ow[g] = s.login /\ s.parent = 0
          \/ sk[g] = sock[g] /\ ow[g] = owner[g]
    /\ \A g \in Fds, v \in Slots \ {n} : sk[g] = v <=> sock[g] = v

LEMMA CreateStep ==
    ASSUME RegistryInv, NEW n \in Slots, ~Exists(n), NEW s, MayCreate(s),
           NEW k \in Rec, k.saved = s,
           rec' = [rec EXCEPT ![n] = k], cfg' = [cfg EXCEPT ![n] = s],
           n = 1 => s.parent = 0, n # 1 => Exists(1),
           NEW sk, sock' = sk, NEW ow, owner' = ow,
           NewSockets(sk, ow, n, s), Connected(k, sk, n),
           nousers' = FALSE, switched' = switched, sets' = sets
    PROVE  RegistryInv' /\ OwnerLogin
<1>1. TypeOK /\ RecordsInv /\ SocketsOwned /\ MainConnected
  BY InvParts
<1>2. rec \in [Slots -> Rec] /\ cfg \in [Slots -> Saved]
  BY <1>1 DEF TypeOK, Rec
<1> USE DEF NewSockets
<1>3. /\ rec'[n] = k /\ \A u \in Slots : u # n => rec'[u] = rec[u]
      /\ rec' \in [Slots -> Rec] /\ cfg' \in [Slots -> Saved]
  BY <1>2 DEF MayCreate
<1>4. TypeOK'
  <2>1. switched \subseteq Logins /\ sets \in 0 .. MaxSets
    BY <1>1 DEF TypeOK
  <2> QED
    BY <1>3, <2>1 DEF TypeOK, Rec
<1>5. RecordsInv' /\ OwnerLogin
  BY <1>1, CreateRecords
<1>6. SocketsOwned'
  <2>1. s.login # None /\ \A g \in Fds : sock[g] # 0 => sock[g] \in Slots
    BY <1>1, Types, UserRegistryAssumption DEF MayCreate
  <2>2. ASSUME NEW g \in Fds, sk[g] # 0 PROVE OwnsSocket(rec, sk[g], ow[g])'
    <3>1. CASE sk[g] = n /\ ow[g] = s.login /\ s.parent = 0
      BY <1>3, <2>1, <3>1 DEF OwnsSocket
    <3>2. CASE sk[g] = sock[g] /\ ow[g] = owner[g]
      <4>1. OwnsSocket(rec, sock[g], owner[g]) /\ sock[g] \in Slots
        BY <1>1, <2>1, <2>2, <3>2 DEF SocketsOwned
      <4>2. sock[g] # n
        BY <4>1 DEF OwnsSocket, Exists, Login
      <4> QED
        BY <1>3, <3>2, <4>1, <4>2 DEF OwnsSocket
    <3> QED
      BY <2>2, <3>1, <3>2
  <2> QED
    BY <2>2 DEF SocketsOwned, OwnsSocket
<1>7. MainConnected'
  <2>1. ASSUME NEW v \in Slots, Settled(v)', Parent(v)' = 0 PROVE Connected(rec'[v], sk, v)
    <3>1. CASE v = n
      BY <1>3, <3>1
    <3>2. CASE v # n
      <4>1. rec'[v] = rec[v] /\ Settled(v) /\ Parent(v) = 0
        BY <1>3, <2>1, <3>2 DEF Settled, Parent, Exists, Login
      <4>2. Connected(rec[v], sk, v)
        BY <1>1, <3>2, <4>1, ConnectedSame
      <4> QED
        BY <4>1, <4>2
    <3> QED
      BY <3>1, <3>2
  <2> QED
    BY <2>1 DEF MainConnected, Connected
<1> QED
  BY <1>4, <1>5, <1>6, <1>7 DEF RegistryInv, ClientsInv

(* The record that is loaded for a new entry. *)
LEMMA LoadNew ==
    ASSUME NEW s \in Saved, s.login # None
    PROVE  /\ loaduser(s, NoRec) \in Rec /\ loaduser(s, NoRec).saved = s
           /\ loaduser(s, NoRec).insock = 0 /\ loaduser(s, NoRec).instate = "NOCON"
<1>1. loaduser(s, NoRec) = [saved |-> s, insock |-> 0, instate |-> "NOCON"]
  BY DEF loaduser, NoRec
<1> QED
  BY <1>1 DEF Rec

LEMMA Stepfirstuser ==
    ASSUME RegistryInv, NEW f \in Free, NEW name \in Logins, firstuser(f, name)
    PROVE  RegistryInv' /\ OwnerLogin
<1>1. TypeOK /\ RecordsInv /\ SocketsOwned /\ MainConnected
  BY InvParts
<1>2. f \in Fds /\ sock[f] = 0 /\ f # 0
  BY <1>1, Types DEF Free
<1>3. PICK s : s = [NoSaved EXCEPT !.login = name, !.rights = "admin"]
  OBVIOUS
<1>4. s = [login |-> name, network |-> None, parent |-> 0, rights |-> "admin",
           pass |-> 0, user |-> 0, opt |-> 0]
  BY <1>3 DEF NoSaved
<1>5. 0 \in 0 .. MaxUser /\ 1 \in 0 .. MaxUser /\ 1 \in Slots /\ 0 \notin Slots /\ name # None
  BY UserRegistryAssumption DEF Slots
<1>6. s \in Saved /\ s.login = name /\ s.parent = 0
  BY <1>4, <1>5 DEF Saved
<1>7. \A u \in Slots : ~Exists(u) /\ rec[u] = NoRec
  BY <1>1 DEF firstuser, RecordsInv, OwnerFirst, Blank
<1>8. MayCreate(s)
  BY <1>5, <1>6, <1>7 DEF MayCreate, Exists
<1>9. \A g \in Fds : sock[g] = 0
  BY <1>1, <1>7, Types DEF SocketsOwned, OwnsSocket, Exists, Login
<1>10. PICK k0, k : k0 = loaduser(s, NoRec) /\ k = [k0 EXCEPT !.insock = f, !.instate = "CONN"]
  OBVIOUS
<1>11. k0 \in Rec /\ k0.saved = s
  BY <1>5, <1>6, <1>10, LoadNew
<1>12. k \in Rec /\ k.saved = s /\ k.insock = f /\ k.instate = "CONN"
  BY <1>2, <1>10, <1>11 DEF Rec
<1>13. PICK sk, ow : sk = sock' /\ ow = owner'
  OBVIOUS
<1>14. Attach(f, 1, name, [rec EXCEPT ![1] = k0])
  BY <1>3, <1>10 DEF firstuser
<1>15. sk = [sock EXCEPT ![f] = 1] /\ ow = [owner EXCEPT ![f] = name]
  BY <1>13, <1>14 DEF Attach
<1>16. sock \in [Fds -> 0 .. MaxUser] /\ owner \in [Fds -> Logins \cup {None}] /\ rec \in [Slots -> Rec]
  BY <1>1 DEF TypeOK, Rec
<1>17. sk \in [Fds -> 0 .. MaxUser] /\ ow \in [Fds -> Logins \cup {None}]
  BY <1>5, <1>15, <1>16
<1>18. sk[f] = 1 /\ ow[f] = name /\ \A g \in Fds : g # f => sk[g] = 0
  BY <1>2, <1>9, <1>15, <1>16
<1>19. rec' = [rec EXCEPT ![1] = k]
  <2>1. PICK rs : rs = [rec EXCEPT ![1] = k0]
    OBVIOUS
  <2>2. rs[1] = k0 /\ \A v \in Slots : v # 1 => rs[v] = NoRec
    BY <1>5, <1>7, <1>16, <2>1
  <2>3. rec' = [v \in Slots |-> IF v = 1 \/ (rs[v].saved.parent = 1 /\ rs[v] # NoRec)
                                THEN [rs[v] EXCEPT !.insock = f, !.instate = "CONN"] ELSE rs[v]]
    <3>1. Attach(f, 1, name, rs)
      BY <1>14, <2>1
    <3> QED
      BY <3>1, Zenon DEF Attach
  <2>4. rec' = [v \in Slots |-> IF v = 1 THEN k ELSE NoRec]
    BY <1>10, <2>2, <2>3
  <2>5. [rec EXCEPT ![1] = k] = [v \in Slots |-> IF v = 1 THEN k ELSE NoRec]
    BY <1>7, <1>16
  <2> QED
    BY <2>4, <2>5
<1>20. Connected(k, sk, 1)
  BY <1>2, <1>12, <1>18 DEF Connected
<1>21. \A g \in Fds : sk[g] # 0 =>
          \/ sk[g] = 1 /\ ow[g] = s.login /\ s.parent = 0
          \/ sk[g] = sock[g] /\ ow[g] = owner[g]
  BY <1>6, <1>18
<1>22. \A g \in Fds, v \in Slots \ {1} : sk[g] = v <=> sock[g] = v
  BY <1>5, <1>9, <1>18
<1>23. cfg' = [cfg EXCEPT ![1] = s] /\ nousers' = FALSE /\ switched' = switched /\ sets' = sets
  BY <1>3 DEF firstuser
<1>24. PICK n : n = 1
  OBVIOUS
<1>25. /\ n \in Slots /\ ~Exists(n) /\ (n = 1 => s.parent = 0) /\ (n # 1 => Exists(1))
       /\ rec' = [rec EXCEPT ![n] = k] /\ cfg' = [cfg EXCEPT ![n] = s] /\ Connected(k, sk, n)
  BY <1>5, <1>6, <1>7, <1>19, <1>20, <1>23, <1>24
<1>26. NewSockets(sk, ow, n, s)
  BY <1>17, <1>21, <1>22, <1>24 DEF NewSockets
<1> QED
  BY <1>8, <1>12, <1>13, <1>23, <1>25, <1>26, CreateStep

(* While there is a client there is the owner. *)
LEMMA ClientMeansOwner ==
    ASSUME RegistryInv, NEW f \in Fds, NEW u \in Slots, Target(f, u)
    PROVE  nousers = FALSE /\ Exists(1)
<1>1. Exists(u) /\ RecordsInv /\ TypeOK
  BY TargetFacts, InvParts
<1> QED
  BY <1>1 DEF RecordsInv, OwnerFirst, TypeOK

(* ADDUSER and ADDNETWORK take a free record. *)
LEMMA StepCreate ==
    ASSUME RegistryInv, NEW f \in Fds, NEW u \in Slots, Target(f, u),
           \E n \in Slots : ~Exists(n), NEW s, MayCreate(s),
           Create(Min({n \in Slots : ~Exists(n)}), s),
           UNCHANGED <<sock, owner, switched, nousers, sets>>
    PROVE  RegistryInv' /\ OwnerLogin
<1>1. TypeOK /\ RecordsInv /\ SocketsOwned /\ MainConnected
  BY InvParts
<1>2. PICK n : n = Min({m \in Slots : ~Exists(m)})
  OBVIOUS
<1>3. n \in Slots /\ ~Exists(n)
  <2>1. {m \in Slots : ~Exists(m)} \subseteq Nat
    BY UserRegistryAssumption DEF Slots
  <2>2. {m \in Slots : ~Exists(m)} # {}
    OBVIOUS
  <2>3. n \in {m \in Slots : ~Exists(m)}
    BY <1>2, <2>1, <2>2, MinMember
  <2> QED
    BY <2>3
<1>4. nousers' = FALSE /\ Exists(1) /\ n # 1
  BY <1>3, ClientMeansOwner
<1>5. PICK k : k = loaduser(s, NoRec)
  OBVIOUS
<1>6. s \in Saved /\ s.login # None
  BY UserRegistryAssumption DEF MayCreate
<1>7. k \in Rec /\ k.saved = s /\ k.insock = 0 /\ k.instate = "NOCON"
  BY <1>5, <1>6, LoadNew
<1>8. rec' = [rec EXCEPT ![n] = k] /\ cfg' = [cfg EXCEPT ![n] = s]
  BY <1>2, <1>5 DEF Create
<1>9. sock \in [Fds -> 0 .. MaxUser] /\ owner \in [Fds -> Logins \cup {None}]
  BY <1>1 DEF TypeOK
<1>10. n # 0 /\ \A g \in Fds : sock[g] # n
  BY <1>1, <1>3, Types DEF SocketsOwned, OwnsSocket, Exists, Login
<1>11. Connected(k, sock, n) /\ NewSockets(sock, owner, n, s)
  BY <1>7, <1>9, <1>10 DEF Connected, NewSockets
<1> QED
  BY <1>3, <1>4, <1>7, <1>8, <1>11, CreateStep

LEMMA Stepcmdadduser ==
    ASSUME RegistryInv, NEW f \in Fds, NEW u \in Slots, NEW name \in Logins, cmdadduser(f, u, name)
    PROVE  RegistryInv' /\ OwnerLogin
<1>1. PICK s : s = [NoSaved EXCEPT !.login = name]
  OBVIOUS
<1>2. s = [login |-> name, network |-> None, parent |-> 0, rights |-> "user",
           pass |-> 0, user |-> 0, opt |-> 0]
  BY <1>1 DEF NoSaved
<1>3. 0 \in 0 .. MaxUser
  BY UserRegistryAssumption
<1>4. s \in Saved /\ s.login = name /\ s.parent = 0
  BY <1>2, <1>3 DEF Saved
<1>5. \A v \in Slots : Login(v) # name
  BY DEF cmdadduser, checkuser
<1>6. MayCreate(s)
  BY <1>4, <1>5 DEF MayCreate
<1> QED
  BY <1>1, <1>6, StepCreate DEF cmdadduser, Admin, Command

LEMMA Stepcmdaddnetwork ==
    ASSUME RegistryInv, NEW f \in Fds, NEW u \in Slots, NEW net \in Nets, cmdaddnetwork(f, u, net)
    PROVE  RegistryInv' /\ OwnerLogin
<1>1. TypeOK
  BY InvParts
<1>2. Target(f, u) /\ Parent(u) = 0 /\ Exists(u)
  BY TargetFacts DEF cmdaddnetwork, Command
<1>3. PICK s : s = [rec[u].saved EXCEPT !.network = net, !.parent = u, !.opt = 0]
  OBVIOUS
<1>4. rec[u].saved \in Saved /\ u \in 0 .. MaxUser /\ Login(u) \in Logins
  <2>1. rec[u].saved \in Saved /\ Login(u) \in Logins \cup {None}
    BY <1>1, Types
  <2>2. u \in 0 .. MaxUser
    BY UserRegistryAssumption DEF Slots
  <2> QED
    BY <1>2, <2>1, <2>2 DEF Exists
<1>5. /\ s \in Saved /\ s.login = Login(u) /\ s.parent = u /\ s.network = net
      /\ s.rights = rec[u].saved.rights
  BY <1>3, <1>4 DEF Saved, Login
<1>6. \A v \in Slots : Exists(v) /\ Parent(v) = u => rec[v].saved.network # net
  BY DEF cmdaddnetwork, checkusernetwork, Networks
<1>7. MayCreate(s)
  BY <1>2, <1>4, <1>5, <1>6, UserRegistryAssumption DEF MayCreate
<1>8. \E n \in Slots : ~Exists(n)
  BY UserRegistryAssumption DEF cmdaddnetwork, Slots
<1> QED
  BY <1>2, <1>3, <1>7, <1>8, StepCreate DEF cmdaddnetwork, Command

-----------------------------------------------------------------------------
(* Settings and rights *)

(* A record and its entry keep what ties records together. *)
KeepsNames(u, r, s) ==
    /\ r.saved.login = Login(u) /\ r.saved.parent = Parent(u)
    /\ r.saved.network = rec[u].saved.network
    /\ r.insock = rec[u].insock /\ r.instate = rec[u].instate
    /\ s.login = Login(u)
    /\ s.parent \in {cfg[u].parent, Parent(u)}
    /\ ~Exists(u) => r = rec[u] /\ s = cfg[u]
    /\ Settled(u) => Agrees(s, r.saved)

LEMMA FieldStep ==
    ASSUME RegistryInv, NEW rs \in [Slots -> Rec], rec' = rs, NEW cf \in [Slots -> Saved], cfg' = cf,
           \A u \in Slots : KeepsNames(u, rs[u], cf[u]),
           \A u \in Slots : Settled(u) /\ Parent(u) # 0 =>
              rs[Parent(u)].saved.rights = rs[u].saved.rights,
           UNCHANGED <<sock, owner, nousers, switched>>, sets' \in 0 .. MaxSets
    PROVE  RegistryInv' /\ OwnerLogin
<1>1. TypeOK /\ RecordsInv /\ SocketsOwned /\ MainConnected
  BY InvParts
<1>2. TypeOK'
  BY <1>1 DEF TypeOK, Rec
<1>3. \A u \in Slots : /\ Login(u)' = Login(u) /\ Parent(u)' = Parent(u)
                       /\ Exists(u)' = Exists(u) /\ Settled(u)' = Settled(u)
                       /\ rec'[u].saved.network = rec[u].saved.network
  BY DEF KeepsNames, Login, Parent, Exists, Settled
<1>4. \A u \in Slots : (Parent(u) # 0 => Parent(u) \in Slots) /\ (cfg[u].parent # 0 => cfg[u].parent \in Slots)
  BY <1>1, Types
<1>5. 1 \in Slots
  BY <1>1, Types
<1>6. /\ Blank /\ FamilyHolds /\ ParentsAlive
      /\ NamesUnique /\ NetworksNamed /\ SavedAgrees /\ OwnerFirst
  BY <1>1 DEF RecordsInv
<1>7. Blank'
  BY <1>3, <1>6 DEF Blank, KeepsNames
<1>8. LoginSaved'
  BY <1>3 DEF LoginSaved, KeepsNames
<1>9. FamilyHolds'
  <2>1. \A u \in Slots : cf[u].parent \in {cfg[u].parent, Parent(u)}
    BY DEF KeepsNames
  <2> QED
    BY <1>3, <1>4, <1>6, <2>1 DEF FamilyHolds
<1>10. ParentsAlive'
  BY <1>3, <1>4, <1>6 DEF ParentsAlive
<1>11. NamesUnique' /\ NetworksNamed'
  BY <1>3, <1>6 DEF NamesUnique, NetworksNamed
<1>12. SavedAgrees'
  BY <1>3 DEF SavedAgrees, KeepsNames
<1>13. OwnerFirst' /\ OwnerLogin
  BY <1>3, <1>5, <1>6 DEF OwnerFirst, OwnerLogin, Login
<1>14. SocketsOwned'
  <2>1. \A f \in Fds : sock[f] # 0 => sock[f] \in Slots
    BY <1>1, Types
  <2>2. \A u \in Slots : rs[u].saved.login = rec[u].saved.login /\ rs[u].saved.parent = rec[u].saved.parent
    BY DEF KeepsNames, Login, Parent
  <2> QED
    BY <1>1, <2>1, <2>2 DEF SocketsOwned, OwnsSocket
<1>15. MainConnected'
  <2>1. \A u \in Slots : rs[u].insock = rec[u].insock /\ rs[u].instate = rec[u].instate
    BY DEF KeepsNames
  <2> QED
    BY <1>1, <1>3, <2>1 DEF MainConnected, Connected
<1>16. RecordsInv'
  BY <1>7, <1>8, <1>9, <1>10, <1>11, <1>12, <1>13 DEF RecordsInv
<1> QED
  BY <1>2, <1>13, <1>14, <1>15, <1>16 DEF RegistryInv, ClientsInv

(* What a command stores in a record and in its entry. *)
Changed(r, field, x) == [r EXCEPT !.saved[field] = x]
ChangedSaved(s, field, x) == [s EXCEPT ![field] = x]

KeepsOthers(r, s, k, e) ==
    /\ k \in Rec /\ e \in Saved
    /\ k.saved.login = r.saved.login /\ k.saved.parent = r.saved.parent
    /\ k.saved.network = r.saved.network /\ k.saved.rights = r.saved.rights
    /\ k.insock = r.insock /\ k.instate = r.instate
    /\ e.login = s.login /\ e.parent = s.parent
    /\ Agrees(s, r.saved) => Agrees(e, k.saved)

LEMMA StoreRecord ==
    ASSUME NEW r \in Rec, NEW s \in Saved, NEW field \in {"pass", "user", "opt"}, NEW x \in {0, 1}
    PROVE  KeepsOthers(r, s, Changed(r, field, x), ChangedSaved(s, field, x))
<1> SUFFICES ASSUME NEW k, k = [r EXCEPT !.saved[field] = x], NEW e, e = [s EXCEPT ![field] = x]
             PROVE  KeepsOthers(r, s, k, e)
  BY DEF Changed, ChangedSaved
<1> USE DEF KeepsOthers
<1>1. r.saved \in Saved
  BY DEF Rec
<1>2. PICK a : a = [r.saved EXCEPT ![field] = x]
  OBVIOUS
<1>3. k = [r EXCEPT !.saved = a]
  BY <1>2
<1>4. CASE field = "pass"
  <2>1. a = [r.saved EXCEPT !.pass = x] /\ e = [s EXCEPT !.pass = x]
    BY <1>2, <1>4
  <2> QED
    BY <1>1, <1>3, <2>1 DEF Rec, Saved, Agrees
<1>5. CASE field = "user"
  <2>1. a = [r.saved EXCEPT !.user = x] /\ e = [s EXCEPT !.user = x]
    BY <1>2, <1>5
  <2> QED
    BY <1>1, <1>3, <2>1 DEF Rec, Saved, Agrees
<1>6. CASE field = "opt"
  <2>1. a = [r.saved EXCEPT !.opt = x] /\ e = [s EXCEPT !.opt = x]
    BY <1>2, <1>6
  <2> QED
    BY <1>1, <1>3, <2>1 DEF Rec, Saved, Agrees
<1> QED
  BY <1>4, <1>5, <1>6

LEMMA StoreStep ==
    ASSUME RegistryInv, NEW T \in SUBSET Slots, \A v \in T : Exists(v),
           NEW field \in {"pass", "user", "opt"}, NEW x \in NewValues,
           Store(T, field, x),
           UNCHANGED <<sock, owner, nousers, switched>>, sets' \in 0 .. MaxSets
    PROVE  RegistryInv' /\ OwnerLogin
<1>1. TypeOK /\ RecordsInv
  BY InvParts
<1>2. PICK rs, cf : rs = rec' /\ cf = cfg'
  OBVIOUS
<1>3. /\ rs = [v \in Slots |-> IF v \in T THEN [rec[v] EXCEPT !.saved[field] = x] ELSE rec[v]]
      /\ cf = [v \in Slots |-> IF v \in T THEN [cfg[v] EXCEPT ![field] = x] ELSE cfg[v]]
  BY <1>2, Zenon DEF Store
<1>4. x \in {0, 1}
  BY UserRegistryAssumption
<1>5. ASSUME NEW u \in Slots
      PROVE  /\ rs[u] \in Rec /\ cf[u] \in Saved /\ KeepsNames(u, rs[u], cf[u])
             /\ rs[u].saved.rights = rec[u].saved.rights
  <2>1. rec[u] \in Rec /\ cfg[u] \in Saved
    BY <1>1, Types
  <2>2. cfg[u].login = Login(u) /\ (Settled(u) => Agrees(cfg[u], rec[u].saved))
    BY <1>1 DEF RecordsInv, LoginSaved, SavedAgrees
  <2>3. CASE u \in T
    <3>1. PICK k, e : k = Changed(rec[u], field, x) /\ e = ChangedSaved(cfg[u], field, x)
      OBVIOUS
    <3>2. rs[u] = k /\ cf[u] = e
      BY <1>3, <2>3, <3>1 DEF Changed, ChangedSaved
    <3>3. KeepsOthers(rec[u], cfg[u], k, e)
      BY <1>4, <2>1, <3>1, StoreRecord
    <3> QED
      BY <2>2, <2>3, <3>2, <3>3 DEF KeepsOthers, KeepsNames, Login, Parent
  <2>4. CASE u \notin T
    <3>1. rs[u] = rec[u] /\ cf[u] = cfg[u]
      BY <1>3, <2>4
    <3> QED
      BY <2>1, <2>2, <3>1 DEF KeepsNames, Login, Parent
  <2> QED
    BY <2>3, <2>4
<1>6. rs \in [Slots -> Rec] /\ cf \in [Slots -> Saved]
  BY <1>3, <1>5
<1>7. ASSUME NEW u \in Slots, Settled(u), Parent(u) # 0
      PROVE  rs[Parent(u)].saved.rights = rs[u].saved.rights
  <2>1. Parent(u) \in Slots /\ rec[Parent(u)].saved.rights = rec[u].saved.rights
    BY <1>1, <1>7, Types DEF RecordsInv, ParentsAlive
  <2> QED
    BY <1>5, <2>1
<1> QED
  BY <1>2, <1>5, <1>6, <1>7, FieldStep

(* Every command that changes a setting of existing records. *)
LEMMA SetFacts ==
    ASSUME RegistryInv, NEW f \in Fds, NEW u \in Slots, Set(f, u)
    PROVE  /\ Exists(u) /\ UNCHANGED <<sock, owner, nousers, switched>> /\ sets' \in 0 .. MaxSets
           /\ \A name \in Logins : \A d \in checkuser(name) : d \in Slots /\ Exists(d)
<1>1. TypeOK /\ RecordsInv
  BY InvParts
<1>2. sets \in 0 .. MaxSets /\ MaxSets \in Nat
  BY <1>1, UserRegistryAssumption DEF TypeOK
<1>3. Exists(u)
  BY TargetFacts DEF Set
<1>4. \A name \in Logins : \A d \in checkuser(name) : d \in Slots /\ Exists(d)
  BY <1>1, checkuserFacts
<1> QED
  BY <1>2, <1>3, <1>4 DEF Set

LEMMA Stepcmdpassword ==
    ASSUME RegistryInv, NEW f \in Fds, NEW u \in Slots, NEW x \in NewValues, cmdpassword(f, u, x)
    PROVE  RegistryInv' /\ OwnerLogin
<1>1. PICK T \in SUBSET Slots : (\A v \in T : Exists(v)) /\ Store(T, "pass", x)
  <2>1. PICK d : Store({v \in Family(d) : Exists(v)}, "pass", x)
    BY DEF cmdpassword
  <2>2. {v \in Family(d) : Exists(v)} \in SUBSET Slots
    BY DEF Family
  <2> QED
    BY <2>1, <2>2
<1>2. UNCHANGED <<sock, owner, nousers, switched>> /\ sets' \in 0 .. MaxSets
  BY SetFacts DEF cmdpassword
<1> QED
  BY <1>1, <1>2, StoreStep

(* The commands that change one existing record. *)
LEMMA StoreOne ==
    ASSUME RegistryInv, NEW f \in Fds, NEW u \in Slots, Set(f, u), NEW d \in Slots, Exists(d),
           NEW field \in {"pass", "user", "opt"}, NEW x \in NewValues, Store({d}, field, x)
    PROVE  RegistryInv' /\ OwnerLogin
<1>1. PICK T : T = {d}
  OBVIOUS
<1>2. T \in SUBSET Slots /\ (\A v \in T : Exists(v)) /\ Store(T, field, x)
  BY <1>1
<1>3. UNCHANGED <<sock, owner, nousers, switched>> /\ sets' \in 0 .. MaxSets
  BY SetFacts
<1> QED
  BY <1>2, <1>3, StoreStep

LEMMA StepOneSetting ==
    ASSUME RegistryInv, NEW f \in Fds, NEW u \in Slots, NEW x \in NewValues,
           \/ cmdsetusername(f, u, x) \/ cmdaidle(f, u, x) \/ cmdautogetdcc(f, u, x)
           \/ cmdsetaway(f, u, x) \/ cmdproxy(f, u, x)
    PROVE  RegistryInv' /\ OwnerLogin
<1>1. /\ Set(f, u) /\ Exists(u)
      /\ Store({u}, "user", x) \/ Store({u}, "opt", x)
  BY SetFacts DEF cmdsetusername, cmdaidle, cmdautogetdcc, cmdsetaway, cmdproxy
<1> QED
  BY <1>1, StoreOne

LEMMA StepNamed ==
    ASSUME RegistryInv, NEW f \in Fds, NEW u \in Slots, NEW x \in NewValues,
           cmdvhost(f, u, x) \/ cmdpreferipv6(f, u, x)
    PROVE  RegistryInv' /\ OwnerLogin
<1>1. Set(f, u)
  BY DEF cmdvhost, cmdpreferipv6
<1>2. PICK d : /\ d = u \/ \E name \in Logins : d \in checkuser(name)
               /\ Store({d}, "opt", x)
  BY DEF cmdvhost, cmdpreferipv6, Named
<1>3. d \in Slots /\ Exists(d)
  BY <1>1, <1>2, SetFacts
<1> QED
  BY <1>1, <1>2, <1>3, StoreOne

LEMMA Stepcmdbvhostn ==
    ASSUME RegistryInv, NEW f \in Fds, NEW u \in Slots, NEW x \in NewValues, cmdbvhostn(f, u, x)
    PROVE  RegistryInv' /\ OwnerLogin
<1>1. PICK n \in Slots : Exists(n) /\ Store({n}, "opt", x)
  BY DEF cmdbvhostn, checkusernetwork, Networks
<1> QED
  BY <1>1, StoreOne DEF cmdbvhostn

(* ADMIN and UNADMIN *)
LEMMA RightsStep ==
    ASSUME RegistryInv, NEW name \in Logins, NEW d \in checkuser(name), NEW r \in {"user", "admin"},
           SetRights(d, r), UNCHANGED <<sock, owner, nousers, switched, sets>>
    PROVE  RegistryInv' /\ OwnerLogin
<1>1. TypeOK /\ RecordsInv
  BY InvParts
<1>2. /\ d \in Slots /\ d # 0 /\ Exists(d) /\ Login(d) = name
      /\ name \notin switched => Parent(d) = 0
  BY <1>1, checkuserFacts, Types
<1>3. PICK rs, cf : rs = rec' /\ cf = cfg'
  OBVIOUS
<1>4. rs = [v \in Slots |-> IF Exists(v) /\ v \in Family(d)
                            THEN [rec[v] EXCEPT !.saved.rights = r] ELSE rec[v]]
  BY <1>3, Zenon DEF SetRights
<1>5. cf = [v \in Slots |-> IF Exists(v) /\ v \in Family(d) THEN rs[v].saved ELSE cfg[v]]
  <2>1. cfg' = [v \in Slots |-> IF Exists(v) /\ v \in Family(d) THEN rec'[v].saved ELSE cfg[v]]
    BY Zenon DEF SetRights
  <2> QED
    BY <1>3, <2>1
<1>6. ASSUME NEW u \in Slots
      PROVE  /\ rs[u] \in Rec /\ cf[u] \in Saved /\ KeepsNames(u, rs[u], cf[u])
             /\ rs[u].saved.rights = IF Exists(u) /\ (u = d \/ Parent(u) = d) THEN r ELSE rec[u].saved.rights
  <2>1. rec[u] \in Rec /\ cfg[u] \in Saved /\ rec[u].saved \in Saved
    BY <1>1, Types
  <2>2. cfg[u].login = Login(u) /\ (Settled(u) => Agrees(cfg[u], rec[u].saved))
    BY <1>1 DEF RecordsInv, LoginSaved, SavedAgrees
  <2>3. u \in Family(d) <=> u = d \/ Parent(u) = d
    BY DEF Family
  <2>4. CASE Exists(u) /\ u \in Family(d)
    <3>1. PICK k, e : e = [rec[u].saved EXCEPT !.rights = r] /\ k = [rec[u] EXCEPT !.saved = e]
      OBVIOUS
    <3>2. rs[u] = k /\ cf[u] = k.saved
      BY <1>4, <1>5, <2>4, <3>1
    <3>3. /\ e \in Saved /\ e.rights = r /\ e.login = rec[u].saved.login
          /\ e.parent = rec[u].saved.parent /\ e.network = rec[u].saved.network
      BY <2>1, <3>1 DEF Saved
    <3>4. k \in Rec /\ k.saved = e /\ k.insock = rec[u].insock /\ k.instate = rec[u].instate
      BY <2>1, <3>1, <3>3 DEF Rec
    <3>5. Agrees(e, e)
      BY DEF Agrees
    <3> QED
      BY <2>3, <2>4, <3>2, <3>3, <3>4, <3>5 DEF KeepsNames, Login, Parent
  <2>5. CASE ~(Exists(u) /\ u \in Family(d))
    <3>1. rs[u] = rec[u] /\ cf[u] = cfg[u]
      BY <1>4, <1>5, <2>5
    <3> QED
      BY <2>1, <2>2, <2>3, <2>5, <3>1 DEF KeepsNames, Login, Parent
  <2> QED
    BY <2>4, <2>5
<1>7. rs \in [Slots -> Rec] /\ cf \in [Slots -> Saved]
  BY <1>4, <1>5, <1>6
<1>8. ASSUME NEW u \in Slots, Settled(u), Parent(u) # 0
      PROVE  rs[Parent(u)].saved.rights = rs[u].saved.rights
  <2>1. PICK p : p = Parent(u)
    OBVIOUS
  <2>2. /\ p \in Slots /\ rec[p].saved.rights = rec[u].saved.rights
        /\ Parent(p) = 0 /\ Login(p) = Login(u) /\ Exists(u) /\ Exists(p)
    BY <1>1, <1>8, <2>1, Types DEF RecordsInv, ParentsAlive, Settled, Exists
  <2>3. u # d
    BY <1>2, <1>8 DEF Settled
  <2> QED
    BY <1>2, <1>6, <2>1, <2>2, <2>3
<1>9. sets' \in 0 .. MaxSets
  BY <1>1 DEF TypeOK
<1> QED
  BY <1>3, <1>6, <1>7, <1>8, <1>9, FieldStep

LEMMA StepRights ==
    ASSUME RegistryInv, NEW f \in Fds, NEW u \in Slots, NEW name \in Logins,
           cmdadmin(f, u, name) \/ cmdunadmin(f, u, name)
    PROVE  RegistryInv' /\ OwnerLogin
BY RightsStep DEF cmdadmin, cmdunadmin, Admin, Command

-----------------------------------------------------------------------------
(* Deleted records *)

LEMMA NoRecFacts ==
    /\ NoSaved \in Saved /\ NoSaved.login = None /\ NoSaved.parent = 0
    /\ NoRec \in Rec /\ NoRec.saved = NoSaved /\ NoRec.insock = 0 /\ NoRec.instate = "NOUSE"
<1>1. 0 \in 0 .. MaxUser
  BY UserRegistryAssumption
<1>2. NoSaved \in Saved /\ NoSaved.login = None /\ NoSaved.parent = 0
  BY <1>1 DEF NoSaved, Saved
<1> QED
  BY <1>2 DEF NoRec, Rec

(* Records of users who have not used SWITCHNET, other than the owner's, and *)
(* with a record its networks.                                               *)
MayRemove(D) ==
    /\ D \subseteq Slots /\ 1 \notin D
    /\ \A v \in D : Settled(v)
    /\ \A v \in Slots : Settled(v) /\ Parent(v) \in D => v \in D

(* No record that stays is tied to one that goes. *)
LEMMA RemoveFacts ==
    ASSUME TypeOK, RecordsInv, NEW D, MayRemove(D)
    PROVE  \A v \in Slots \ D : Exists(v) => Parent(v) \notin D /\ cfg[v].parent \notin D
<1>1. SUFFICES ASSUME NEW v \in Slots, v \notin D, Exists(v), Parent(v) \in D \/ cfg[v].parent \in D
               PROVE  FALSE
  OBVIOUS
<1>2. 0 \notin D
  BY Types DEF MayRemove
<1>3. Settled(v)
  BY <1>1, <1>2 DEF RecordsInv, FamilyHolds, MayRemove, Settled
<1>4. cfg[v].parent = Parent(v)
  BY <1>3 DEF RecordsInv, SavedAgrees, Agrees, Parent
<1> QED
  BY <1>1, <1>3, <1>4 DEF MayRemove

LEMMA RemoveRecords ==
    ASSUME TypeOK, RecordsInv, NEW D, MayRemove(D),
           \A v \in D : rec'[v] = NoRec /\ cfg'[v] = NoSaved,
           \A v \in Slots \ D : rec'[v] = rec[v] /\ cfg'[v] = cfg[v],
           switched' = switched, nousers' = nousers
    PROVE  RecordsInv' /\ OwnerLogin
<1>1. \A v \in D : v \in Slots /\ Login(v)' = None /\ ~Exists(v)' /\ ~Settled(v)'
  BY NoRecFacts DEF MayRemove, Login, Exists, Settled
<1>2. \A v \in Slots \ D : /\ Login(v)' = Login(v) /\ Parent(v)' = Parent(v)
                           /\ Exists(v)' = Exists(v) /\ Settled(v)' = Settled(v)
  BY DEF Login, Parent, Exists, Settled
<1>3. \A v \in Slots \ D : Exists(v) =>
         /\ Parent(v) # 0 => Parent(v) \in Slots \ D
         /\ cfg[v].parent # 0 => cfg[v].parent \in Slots \ D
  BY RemoveFacts, Types
<1>4. 1 \in Slots \ D
  BY Types DEF MayRemove
<1>5. /\ Blank /\ LoginSaved /\ FamilyHolds /\ ParentsAlive
      /\ NamesUnique /\ NetworksNamed /\ SavedAgrees /\ OwnerFirst
  BY DEF RecordsInv
<1>6. Blank'
  BY <1>1, <1>2, <1>5 DEF Blank
<1>7. LoginSaved'
  BY <1>1, <1>2, <1>5, NoRecFacts DEF LoginSaved
<1>8. FamilyHolds'
  BY <1>1, <1>2, <1>3, <1>5 DEF FamilyHolds
<1>9. ParentsAlive'
  BY <1>1, <1>2, <1>3, <1>5 DEF ParentsAlive, Settled
<1>10. NamesUnique' /\ NetworksNamed'
  BY <1>1, <1>2, <1>5 DEF NamesUnique, NetworksNamed
<1>11. SavedAgrees'
  BY <1>1, <1>2, <1>5 DEF SavedAgrees
<1>12. OwnerFirst' /\ OwnerLogin
  BY <1>1, <1>2, <1>4, <1>5 DEF OwnerFirst, OwnerLogin, Login
<1> QED
  BY <1>6, <1>7, <1>8, <1>9, <1>10, <1>11, <1>12 DEF RecordsInv

LEMMA DeleteStep ==
    ASSUME RegistryInv, NEW D, MayRemove(D), Delete(D), nousers' = nousers, sets' = sets
    PROVE  RegistryInv' /\ OwnerLogin
<1>1. TypeOK /\ RecordsInv /\ SocketsOwned /\ MainConnected
  BY InvParts
<1>2. PICK M : M = {u \in D : Parent(u) = 0 /\ rec[u].instate = "CONN"}
  OBVIOUS
<1>3. M \subseteq D /\ D \subseteq Slots /\ 0 \notin M
  BY <1>1, <1>2, Types DEF MayRemove
<1>4. PICK rs, cf, sk, ow : rs = rec' /\ cf = cfg' /\ sk = sock' /\ ow = owner'
  OBVIOUS
<1>5. cf = [u \in Slots |-> IF u \in D THEN NoSaved ELSE cfg[u]]
  BY <1>4 DEF Delete
<1>6. /\ sk = [g \in Fds |-> IF sock[g] \in M THEN 0 ELSE sock[g]]
      /\ ow = [g \in Fds |-> IF sock[g] \in M THEN None ELSE owner[g]]
  BY <1>2, <1>4 DEF Delete
<1>7. rs = [v \in Slots |->
              IF v \in D THEN NoRec
              ELSE IF Exists(v) /\ (v \in M \/ Parent(v) \in {u \in M : \E g \in Fds : sock[g] = u})
              THEN [rec[v] EXCEPT !.instate = "NOCON", !.insock = 0] ELSE rec[v]]
  BY <1>2, <1>4 DEF Delete
<1>8. \A v \in D : rs[v] = NoRec /\ cf[v] = NoSaved
  BY <1>3, <1>5, <1>7
<1>9. \A v \in Slots \ D : rs[v] = rec[v] /\ cf[v] = cfg[v]
  <2>1. ASSUME NEW v \in Slots \ D, Exists(v)
        PROVE  ~(v \in M \/ Parent(v) \in {u \in M : \E g \in Fds : sock[g] = u})
    BY <1>1, <1>3, <2>1, RemoveFacts
  <2> QED
    BY <1>5, <1>7, <2>1
<1>10. rs \in [Slots -> Rec] /\ cf \in [Slots -> Saved]
  BY <1>1, <1>5, <1>7, <1>8, <1>9, NoRecFacts, Types
<1>11. \A g \in Fds : /\ sock[g] \in M => sk[g] = 0 /\ ow[g] = None
                      /\ sock[g] \notin M => sk[g] = sock[g] /\ ow[g] = owner[g]
  BY <1>6
<1>12. sk \in [Fds -> 0 .. MaxUser] /\ ow \in [Fds -> Logins \cup {None}]
  <2>1. /\ sock \in [Fds -> 0 .. MaxUser] /\ owner \in [Fds -> Logins \cup {None}]
        /\ 0 \in 0 .. MaxUser
    BY <1>1, UserRegistryAssumption DEF TypeOK
  <2> QED
    BY <1>6, <2>1
<1>13. TypeOK'
  <2>1. switched \subseteq Logins /\ sets \in 0 .. MaxSets /\ nousers \in BOOLEAN
    BY <1>1 DEF TypeOK
  <2>2. switched' = switched
    BY DEF Delete
  <2> QED
    BY <1>4, <1>10, <1>12, <2>1, <2>2 DEF TypeOK, Rec
<1>14. RecordsInv' /\ OwnerLogin
  <2>1. switched' = switched
    BY DEF Delete
  <2> QED
    BY <1>1, <1>4, <1>8, <1>9, <2>1, RemoveRecords
<1>15. ASSUME NEW g \in Fds, sock[g] \in D PROVE sock[g] \in M
  <2>1. PICK v : v = sock[g]
    OBVIOUS
  <2>2. v \in Slots /\ v # 0 /\ Settled(v) /\ OwnsSocket(rec, v, owner[g])
    BY <1>1, <1>15, <2>1, Types DEF MayRemove, SocketsOwned
  <2>3. Parent(v) = 0
    BY <2>2 DEF OwnsSocket, Settled, Login, Parent
  <2>4. Connected(rec[v], sock, v)
    BY <1>1, <2>2, <2>3 DEF MainConnected
  <2> QED
    BY <1>2, <1>15, <2>1, <2>3, <2>4 DEF Connected
<1>16. SocketsOwned'
  <2>1. ASSUME NEW g \in Fds, sk[g] # 0
        PROVE  sk[g] \in Slots \ D /\ OwnsSocket(rec, sk[g], ow[g])
    BY <1>1, <1>11, <1>15, <2>1, Types DEF SocketsOwned
  <2>2. switched' = switched
    BY DEF Delete
  <2> QED
    BY <1>4, <1>9, <2>1, <2>2 DEF SocketsOwned, OwnsSocket
<1>17. MainConnected'
  <2>1. ASSUME NEW v \in Slots, Settled(v)', Parent(v)' = 0 PROVE Connected(rec'[v], sk, v)
    <3>1. v \notin D
      BY <1>4, <1>8, <2>1, NoRecFacts DEF Settled, Exists, Login
    <3>2. rec'[v] = rec[v] /\ Settled(v) /\ Parent(v) = 0
      <4>1. switched' = switched
        BY DEF Delete
      <4> QED
        BY <1>4, <1>9, <2>1, <3>1, <4>1 DEF Settled, Parent, Exists, Login
    <3>3. \A g \in Fds : sk[g] = v <=> sock[g] = v
      BY <1>1, <1>3, <1>11, <3>1, Types
    <3>4. Connected(rec[v], sk, v)
      BY <1>1, <3>2, <3>3, ConnectedSame
    <3> QED
      BY <3>2, <3>4
  <2> QED
    BY <1>4, <2>1 DEF MainConnected, Connected
<1> QED
  BY <1>13, <1>14, <1>16, <1>17 DEF RegistryInv, ClientsInv

LEMMA Stepcmddeluser ==
    ASSUME RegistryInv, DeleteSwitched = FALSE, NEW f \in Fds, NEW u \in Slots, NEW name \in Logins,
           cmddeluser(f, u, name)
    PROVE  RegistryInv' /\ OwnerLogin
<1>1. TypeOK /\ RecordsInv
  BY InvParts
<1>2. name \notin switched
  BY DEF cmddeluser, MayDelete
<1>3. PICK d \in checkuser(name) : d # 1 /\ Delete({d} \cup (Networks(d) \ {1}))
  BY DEF cmddeluser
<1>4. d \in Slots /\ d # 0 /\ Settled(d) /\ Parent(d) = 0
  BY <1>1, <1>2, checkuserFacts, Types DEF Settled
<1>5. PICK D : D = {d} \cup (Networks(d) \ {1})
  OBVIOUS
<1>6. \A v \in Networks(d) : v \in Slots /\ Settled(v) /\ Parent(v) = d
  BY <1>1, <1>4 DEF Networks, RecordsInv, FamilyHolds, Settled
<1>7. ASSUME NEW v \in Slots, Settled(v), Parent(v) \in D PROVE v \in D
  <2>1. Parent(v) = d
    <3>1. PICK p : p = Parent(v)
      OBVIOUS
    <3>2. p \in Slots /\ p # 0 /\ (p = d \/ p \in Networks(d))
      BY <1>1, <1>4, <1>5, <1>6, <1>7, <3>1, Types
    <3>3. Parent(p) = 0
      BY <1>1, <1>7, <3>1, <3>2 DEF RecordsInv, ParentsAlive
    <3> QED
      BY <1>4, <1>6, <3>1, <3>2, <3>3
  <2>2. v # 1
    BY <1>1, <1>4, <1>7, <2>1 DEF RecordsInv, OwnerFirst
  <2> QED
    BY <1>5, <1>7, <2>1, <2>2 DEF Networks, Settled
<1>8. MayRemove(D)
  BY <1>3, <1>4, <1>5, <1>6, <1>7 DEF MayRemove
<1>9. nousers' = nousers /\ sets' = sets
  BY DEF cmddeluser, Admin, Command
<1> QED
  BY <1>3, <1>5, <1>8, <1>9, DeleteStep

LEMMA Stepcmddelnetwork ==
    ASSUME RegistryInv, DeleteSwitched = FALSE, NEW f \in Fds, NEW u \in Slots, NEW net \in Nets,
           cmddelnetwork(f, u, net)
    PROVE  RegistryInv' /\ OwnerLogin
<1>1. TypeOK /\ RecordsInv
  BY InvParts
<1>2. Login(u) \notin switched /\ Target(f, u)
  BY DEF cmddelnetwork, MayDelete, Command
<1>3. PICK d \in checkusernetwork(u, net) : Delete({d})
  BY DEF cmddelnetwork
<1>4. d \in Slots /\ Exists(d) /\ Parent(d) = u
  BY <1>3 DEF checkusernetwork, Networks
<1>5. u # 0
  BY <1>1, Types
<1>6. Settled(d)
  BY <1>1, <1>2, <1>4, <1>5 DEF RecordsInv, FamilyHolds, Settled
<1>7. PICK D : D = {d}
  OBVIOUS
<1>8. d # 1
  BY <1>1, <1>4, <1>5, <1>6 DEF RecordsInv, OwnerFirst
<1>9. \A v \in Slots : Settled(v) /\ Parent(v) = d => FALSE
  BY <1>1, <1>4, <1>5, Types DEF RecordsInv, ParentsAlive
<1>10. MayRemove(D)
  BY <1>4, <1>6, <1>7, <1>8, <1>9 DEF MayRemove
<1>11. nousers' = nousers /\ sets' = sets
  BY DEF cmddelnetwork, Command
<1> QED
  BY <1>3, <1>7, <1>10, <1>11, DeleteStep

-----------------------------------------------------------------------------
(* SWITCHNET *)

(* A record whose parent is one of the same user, if it has one. *)
StaysWith(s, name) == s.login = name /\ (s.parent # 0 => s.parent \in Slots /\ Login(s.parent) = name)

LEMMA SwitchStep ==
    ASSUME RegistryInv, NEW L \in Logins,
           NEW rs \in [Slots -> Rec], rec' = rs, NEW cf \in [Slots -> Saved], cfg' = cf,
           \A v \in Slots : Login(v) # L => rs[v] = rec[v] /\ cf[v] = cfg[v],
           \A v \in Slots : Login(v) = L => StaysWith(rs[v].saved, L) /\ StaysWith(cf[v], L),
           switched' = switched \cup {L}, UNCHANGED <<sock, owner, nousers, sets>>
    PROVE  RegistryInv' /\ OwnerLogin
<1>1. TypeOK /\ RecordsInv /\ SocketsOwned /\ MainConnected
  BY InvParts
<1>2. L # None /\ 1 \in Slots
  BY <1>1, Types
<1>3. TypeOK'
  BY <1>1 DEF TypeOK, Rec
<1>4. \A v \in Slots : Login(v)' = Login(v) /\ Exists(v)' = Exists(v)
  BY DEF Login, Exists, StaysWith
<1>5. \A v \in Slots : Settled(v)' => Settled(v) /\ Login(v) # L
  BY <1>4 DEF Settled
<1>6. \A v \in Slots : Login(v) # L => Parent(v)' = Parent(v)
  BY DEF Parent
<1>7. \A v \in Slots : (Parent(v) # 0 => Parent(v) \in Slots) /\ (cfg[v].parent # 0 => cfg[v].parent \in Slots)
  BY <1>1, Types
<1>8. /\ Blank /\ LoginSaved /\ FamilyHolds /\ ParentsAlive
      /\ NamesUnique /\ NetworksNamed /\ SavedAgrees /\ OwnerFirst
  BY <1>1 DEF RecordsInv
<1>9. Blank'
  BY <1>2, <1>4, <1>8 DEF Blank, Exists
<1>10. LoginSaved'
  <2>1. \A v \in Slots : cf[v].login = Login(v)
    BY <1>8 DEF LoginSaved, StaysWith
  <2> QED
    BY <1>4, <2>1 DEF LoginSaved
<1>11. FamilyHolds'
  <2>1. ASSUME NEW v \in Slots, Exists(v)
        PROVE  /\ Parent(v)' # 0 => Login(Parent(v))' = Login(v)'
               /\ cfg'[v].parent # 0 => Login(cfg[v].parent)' = Login(v)'
    <3>1. CASE Login(v) = L
      <4>1. StaysWith(rs[v].saved, L) /\ StaysWith(cf[v], L)
        BY <3>1
      <4>2. Parent(v)' = rs[v].saved.parent
        BY DEF Parent
      <4> QED
        BY <1>4, <3>1, <4>1, <4>2 DEF StaysWith
    <3>2. CASE Login(v) # L
      BY <1>4, <1>6, <1>7, <1>8, <2>1, <3>2 DEF FamilyHolds
    <3> QED
      BY <3>1, <3>2
  <2> QED
    BY <1>4, <2>1 DEF FamilyHolds
<1>12. ParentsAlive'
  <2>1. ASSUME NEW v \in Slots, Settled(v)', Parent(v)' # 0
        PROVE  /\ Parent(Parent(v))' = 0
               /\ Login(Parent(v))' = Login(v)'
               /\ rec'[Parent(v)'].saved.rights = rec'[v].saved.rights
    <3>1. Settled(v) /\ Login(v) # L /\ Parent(v)' = Parent(v) /\ Parent(v) # 0 /\ rs[v] = rec[v]
      BY <1>5, <1>6, <2>1
    <3>2. /\ Parent(v) \in Slots /\ Parent(Parent(v)) = 0 /\ Login(Parent(v)) = Login(v)
          /\ rec[Parent(v)].saved.rights = rec[v].saved.rights
      BY <1>7, <1>8, <3>1 DEF ParentsAlive
    <3>3. rs[Parent(v)] = rec[Parent(v)] /\ Parent(Parent(v))' = 0
      BY <1>6, <3>1, <3>2
    <3> QED
      BY <1>4, <3>1, <3>2, <3>3
  <2> QED
    BY <2>1 DEF ParentsAlive
<1>13. NamesUnique' /\ NetworksNamed'
  BY <1>4, <1>5, <1>6, <1>8 DEF NamesUnique, NetworksNamed
<1>14. SavedAgrees'
  BY <1>5, <1>8 DEF SavedAgrees
<1>15. OwnerFirst' /\ OwnerLogin
  BY <1>2, <1>4, <1>5, <1>6, <1>8 DEF OwnerFirst, OwnerLogin, Login
<1>16. SocketsOwned'
  <2>1. ASSUME NEW f \in Fds, sock[f] # 0 PROVE OwnsSocket(rec, sock[f], owner[f])'
    <3>1. sock[f] \in Slots /\ OwnsSocket(rec, sock[f], owner[f])
      BY <1>1, <2>1, Types DEF SocketsOwned
    <3>2. rs[sock[f]].saved.login = rec[sock[f]].saved.login
      BY <1>4, <3>1 DEF Login
    <3>3. owner[f] \notin switched' => rs[sock[f]] = rec[sock[f]] /\ owner[f] \notin switched
      BY <3>1 DEF OwnsSocket, Login
    <3> QED
      BY <3>1, <3>2, <3>3 DEF OwnsSocket
  <2> QED
    BY <2>1 DEF SocketsOwned
<1>17. MainConnected'
  BY <1>1, <1>5, <1>6 DEF MainConnected, Connected
<1>18. RecordsInv'
  BY <1>9, <1>10, <1>11, <1>12, <1>13, <1>14, <1>15 DEF RecordsInv
<1> QED
  BY <1>3, <1>15, <1>16, <1>17, <1>18 DEF RegistryInv, ClientsInv

LEMMA Stepcmdswitchnet ==
    ASSUME RegistryInv, NEW f \in Fds, NEW u \in Slots, NEW net \in Nets, NEW old \in Nets,
           cmdswitchnet(f, u, net, old)
    PROVE  RegistryInv' /\ OwnerLogin
<1>1. TypeOK /\ RecordsInv
  BY InvParts
<1>2. PICK rs, cf : rs = rec' /\ cf = cfg'
  OBVIOUS
<1>3. Exists(u) /\ Parent(u) = 0 /\ u # 0
  BY <1>1, TargetFacts, Types DEF cmdswitchnet, Command
<1> DEFINE Switch(n) ==
      [v \in Slots |->
         IF v = n THEN [rec[v] EXCEPT !.saved.network = None, !.saved.parent = 0]
         ELSE IF v = u THEN [rec[v] EXCEPT !.saved.network = old, !.saved.parent = n]
         ELSE IF Exists(v) /\ Parent(v) = u THEN [rec[v] EXCEPT !.saved.parent = n]
         ELSE rec[v]]
<1>4. PICK n \in checkusernetwork(u, net) :
        rs = Switch(n) /\ cf = [cfg EXCEPT ![n] = rs[n].saved, ![u] = rs[u].saved]
  <2>1. PICK n \in checkusernetwork(u, net) :
          /\ rec' = Switch(n)
          /\ cfg' = [cfg EXCEPT ![n] = Switch(n)[n].saved, ![u] = Switch(n)[u].saved]
    BY Zenon DEF cmdswitchnet
  <2> QED
    BY <1>2, <2>1
<1>5. n \in Slots /\ Exists(n) /\ Parent(n) = u /\ n # u
  BY <1>3, <1>4 DEF checkusernetwork, Networks
<1>6. PICK L : L = Login(u)
  OBVIOUS
<1>7. L \in Logins /\ L # None /\ Login(n) = L
  BY <1>1, <1>3, <1>5, <1>6, Types DEF RecordsInv, FamilyHolds, Exists
<1>8. 0 \in 0 .. MaxUser /\ n \in 0 .. MaxUser
  BY <1>5, UserRegistryAssumption DEF Slots
<1>9. ASSUME NEW v \in Slots
      PROVE  /\ rs[v] \in Rec
             /\ Login(v) # L => rs[v] = rec[v]
             /\ Login(v) = L => StaysWith(rs[v].saved, L)
  <2>1. /\ rec[v] \in Rec /\ rec[v].saved \in Saved
        /\ Exists(v) /\ Parent(v) # 0 => Parent(v) \in Slots /\ Login(Parent(v)) = Login(v)
    BY <1>1, Types DEF RecordsInv, FamilyHolds
  <2>2. CASE v = n
    <3>1. PICK k, s : /\ s = [rec[v].saved EXCEPT !.network = None, !.parent = 0]
                      /\ k = [rec[v] EXCEPT !.saved = s]
      OBVIOUS
    <3>2. s \in Saved /\ s.login = Login(v) /\ s.parent = 0
      BY <1>8, <2>1, <3>1 DEF Saved, Login
    <3>3. k \in Rec /\ k.saved = s
      BY <2>1, <3>1, <3>2 DEF Rec
    <3>4. rs[v] = k
      BY <1>4, <2>2, <3>1
    <3> QED
      BY <1>7, <2>2, <3>2, <3>3, <3>4 DEF StaysWith
  <2>3. CASE v = u
    <3>1. PICK k, s : /\ s = [rec[v].saved EXCEPT !.network = old, !.parent = n]
                      /\ k = [rec[v] EXCEPT !.saved = s]
      OBVIOUS
    <3>2. s \in Saved /\ s.login = Login(v) /\ s.parent = n
      BY <1>8, <2>1, <3>1 DEF Saved, Login
    <3>3. k \in Rec /\ k.saved = s
      BY <2>1, <3>1, <3>2 DEF Rec
    <3>4. rs[v] = k
      BY <1>4, <1>5, <2>3, <3>1
    <3> QED
      BY <1>5, <1>6, <1>7, <2>3, <3>2, <3>3, <3>4 DEF StaysWith
  <2>4. CASE v # n /\ v # u /\ Exists(v) /\ Parent(v) = u
    <3>1. PICK k, s : /\ s = [rec[v].saved EXCEPT !.parent = n]
                      /\ k = [rec[v] EXCEPT !.saved = s]
      OBVIOUS
    <3>2. s \in Saved /\ s.login = Login(v) /\ s.parent = n
      BY <1>8, <2>1, <3>1 DEF Saved, Login
    <3>3. k \in Rec /\ k.saved = s
      BY <2>1, <3>1, <3>2 DEF Rec
    <3>4. rs[v] = k /\ Login(v) = L
      BY <1>3, <1>4, <1>6, <2>1, <2>4, <3>1
    <3> QED
      BY <1>5, <1>7, <3>2, <3>3, <3>4 DEF StaysWith
  <2>5. CASE v # n /\ v # u /\ ~(Exists(v) /\ Parent(v) = u)
    <3>1. rs[v] = rec[v]
      BY <1>4, <2>5
    <3> QED
      BY <1>7, <2>1, <3>1 DEF StaysWith, Exists, Login, Parent
  <2> QED
    BY <2>2, <2>3, <2>4, <2>5
<1>10. rs \in [Slots -> Rec]
  BY <1>4, <1>9
<1>11. cfg \in [Slots -> Saved] /\ rs[n].saved \in Saved /\ rs[u].saved \in Saved
  BY <1>1, <1>5, <1>9 DEF TypeOK, Rec
<1>12. /\ cf \in [Slots -> Saved] /\ cf[n] = rs[n].saved /\ cf[u] = rs[u].saved
       /\ \A v \in Slots : v # n /\ v # u => cf[v] = cfg[v]
  BY <1>4, <1>5, <1>11
<1>13. ASSUME NEW v \in Slots
       PROVE  /\ Login(v) # L => cf[v] = cfg[v]
              /\ Login(v) = L => StaysWith(cf[v], L)
  <2>1. CASE v = n \/ v = u
    BY <1>6, <1>7, <1>9, <1>12, <2>1
  <2>2. CASE v # n /\ v # u
    <3>1. cf[v] = cfg[v] /\ cfg[v].login = Login(v)
      BY <1>1, <1>12, <2>2 DEF RecordsInv, LoginSaved
    <3>2. Login(v) = L /\ cfg[v].parent # 0 => cfg[v].parent \in Slots /\ Login(cfg[v].parent) = L
      BY <1>1, <1>7, Types DEF RecordsInv, FamilyHolds, Exists
    <3> QED
      BY <3>1, <3>2 DEF StaysWith
  <2> QED
    BY <2>1, <2>2
<1>14. switched' = switched \cup {L} /\ UNCHANGED <<sock, owner, nousers, sets>>
  BY <1>6 DEF cmdswitchnet, Command
<1> QED
  BY <1>2, <1>7, <1>9, <1>10, <1>12, <1>13, <1>14, SwitchStep

-----------------------------------------------------------------------------
(* Rehash and restart *)

(* What loadusers() makes of record u, r being what is in memory. *)
LoadedAs(k, u, r) ==
    /\ k \in Rec /\ k.saved.login = Login(u) /\ k.saved.parent = cfg[u].parent
    /\ ~Exists(u) => k = NoRec
    /\ k.saved.network = cfg[u].network /\ k.saved.opt = cfg[u].opt
    /\ cfg[u].parent = 0 => k.saved = cfg[u]
    /\ cfg[u].parent # 0 => k.saved.rights = cfg[cfg[u].parent].rights
    /\ Exists(u) /\ cfg[u].parent = 0 =>
          /\ k.insock = r.insock
          /\ k.instate = IF r.instate = "NOUSE" THEN "NOCON" ELSE r.instate

LEMMA loaduserFacts ==
    ASSUME NEW s \in Saved, NEW r \in Rec, s.login = None => s = NoSaved
    PROVE  /\ loaduser(s, r) \in Rec /\ loaduser(s, r).saved = s
           /\ s.login = None => loaduser(s, r) = NoRec
           /\ s.login # None =>
                 /\ loaduser(s, r).insock = r.insock
                 /\ loaduser(s, r).instate = IF r.instate = "NOUSE" THEN "NOCON" ELSE r.instate
<1>1. CASE s.login = None
  BY <1>1, NoRecFacts DEF loaduser
<1>2. CASE s.login # None
  <2>1. PICK i : i = IF r.instate = "NOUSE" THEN "NOCON" ELSE r.instate
    OBVIOUS
  <2>2. i \in {"NOUSE", "NOCON", "CONN"}
    BY <2>1 DEF Rec
  <2>3. loaduser(s, r) = [r EXCEPT !.saved = s, !.instate = i]
    BY <1>2, <2>1 DEF loaduser
  <2> QED
    BY <1>2, <2>1, <2>2, <2>3 DEF Rec
<1> QED
  BY <1>1, <1>2

LEMMA LoadFacts ==
    ASSUME TypeOK, RecordsInv, NEW rs \in [Slots -> Rec], loadusers(rs)
    PROVE  /\ rec' \in [Slots -> Rec] /\ \A u \in Slots : LoadedAs(rec'[u], u, rs[u])
           /\ cfg' = cfg /\ nousers' = nousers
<1>1. PICK ld, ck : ld = [u \in Slots |-> loaduser(cfg[u], rs[u])] /\ ck = checkparents(ld)
  OBVIOUS
<1>2. /\ rec' = ck
      /\ cfg' = [u \in Slots |-> IF u \in Orphans(ld) THEN NoSaved ELSE cfg[u]]
      /\ nousers' = (nousers /\ \A u \in Slots : cfg[u] = NoSaved)
  BY <1>1 DEF loadusers
<1>3. ASSUME NEW u \in Slots
      PROVE  /\ cfg[u] \in Saved /\ rs[u] \in Rec /\ cfg[u].login = Login(u)
             /\ ~Exists(u) => cfg[u] = NoSaved
             /\ cfg[u].parent # 0 =>
                   cfg[u].parent \in Slots /\ Exists(u) /\ Login(cfg[u].parent) = Login(u)
  <2>1. /\ cfg[u] \in Saved /\ rs[u] \in Rec /\ cfg[u].login = Login(u)
        /\ ~Exists(u) => cfg[u] = NoSaved
    BY Types DEF RecordsInv, LoginSaved, Blank
  <2>2. cfg[u].parent # 0 => cfg[u].parent \in Slots /\ Exists(u)
    BY <2>1, Types, NoRecFacts
  <2> QED
    BY <2>1, <2>2 DEF RecordsInv, FamilyHolds
<1>4. ASSUME NEW u \in Slots
      PROVE  /\ ld[u] \in Rec /\ ld[u].saved = cfg[u]
             /\ ~Exists(u) => ld[u] = NoRec
             /\ Exists(u) =>
                   /\ ld[u] # NoRec /\ ld[u].insock = rs[u].insock
                   /\ ld[u].instate = IF rs[u].instate = "NOUSE" THEN "NOCON" ELSE rs[u].instate
  <2>1. ld[u] = loaduser(cfg[u], rs[u])
    BY <1>1
  <2>2. cfg[u].login = None <=> ~Exists(u)
    BY <1>3 DEF Exists
  <2>3. /\ ld[u] \in Rec /\ ld[u].saved = cfg[u]
        /\ ~Exists(u) => ld[u] = NoRec
        /\ Exists(u) =>
              /\ ld[u].insock = rs[u].insock
              /\ ld[u].instate = IF rs[u].instate = "NOUSE" THEN "NOCON" ELSE rs[u].instate
    BY <1>3, <2>1, <2>2, loaduserFacts
  <2>4. Exists(u) => ld[u] # NoRec
    BY <2>2, <2>3, NoRecFacts
  <2> QED
    BY <2>3, <2>4
<1>5. ASSUME NEW u \in Slots PROVE LoadedAs(ck[u], u, rs[u])
  <2>1. PICK p : p = cfg[u].parent
    OBVIOUS
  <2>2. ck[u] = IF p = 0 THEN ld[u]
                ELSE IF ld[p] = NoRec THEN NoRec
                ELSE [ld[u] EXCEPT !.saved.login = ld[p].saved.login,
                                   !.saved.rights = ld[p].saved.rights,
                                   !.saved.pass = ld[p].saved.pass,
                                   !.saved.user = ld[p].saved.user,
                                   !.insock = ld[p].insock, !.instate = ld[p].instate]
    <3>1. ld[u].saved.parent = p
      BY <1>4, <2>1
    <3>2. ck[u] = LET q == ld[u].saved.parent
                  IN  IF q = 0 THEN ld[u]
                      ELSE IF ld[q] = NoRec THEN NoRec
                      ELSE [ld[u] EXCEPT !.saved.login = ld[q].saved.login,
                                         !.saved.rights = ld[q].saved.rights,
                                         !.saved.pass = ld[q].saved.pass,
                                         !.saved.user = ld[q].saved.user,
                                         !.insock = ld[q].insock, !.instate = ld[q].instate]
      BY <1>1, Zenon DEF checkparents
    <3> QED
      BY <3>1, <3>2, Zenon
  <2>3. CASE p = 0
    BY <1>3, <1>4, <2>1, <2>2, <2>3 DEF LoadedAs
  <2>4. CASE p # 0
    <3>1. p \in Slots /\ Exists(u) /\ Exists(p) /\ Login(p) = Login(u)
      BY <1>3, <2>1, <2>4 DEF Exists
    <3>2. /\ ld[p] \in Rec /\ ld[p] # NoRec /\ ld[p].saved = cfg[p]
          /\ ld[u] \in Rec /\ ld[u].saved = cfg[u]
          /\ cfg[u] \in Saved /\ cfg[p] \in Saved /\ cfg[p].login = Login(u)
      BY <1>3, <1>4, <3>1
    <3>3. PICK s, k : /\ s = [cfg[u] EXCEPT !.login = cfg[p].login, !.rights = cfg[p].rights,
                                            !.pass = cfg[p].pass, !.user = cfg[p].user]
                      /\ k = [ld[u] EXCEPT !.saved = s, !.insock = ld[p].insock, !.instate = ld[p].instate]
      OBVIOUS
    <3>4. /\ s \in Saved /\ s.login = cfg[p].login /\ s.parent = cfg[u].parent
          /\ s.network = cfg[u].network /\ s.opt = cfg[u].opt /\ s.rights = cfg[p].rights
      BY <3>2, <3>3 DEF Saved
    <3>5. k \in Rec /\ k.saved = s
      BY <3>2, <3>3, <3>4 DEF Rec
    <3>6. ck[u] = k
      BY <2>2, <2>4, <3>2, <3>3
    <3> QED
      BY <2>1, <2>4, <3>1, <3>2, <3>4, <3>5, <3>6 DEF LoadedAs
  <2> QED
    BY <2>3, <2>4
<1>6. ck \in [Slots -> Rec]
  BY <1>1, <1>5 DEF checkparents, LoadedAs
<1>7. Orphans(ld) = {}
  <2>1. ASSUME NEW u \in Slots, ld[u] # NoRec, ck[u] = NoRec PROVE FALSE
    <3>1. Exists(u)
      BY <1>4, <2>1
    <3>2. LoadedAs(ck[u], u, rs[u])
      BY <1>5
    <3> QED
      BY <2>1, <3>1, <3>2, NoRecFacts DEF LoadedAs, Exists
  <2> QED
    BY <1>1, <2>1 DEF Orphans
<1>8. cfg' = cfg
  BY <1>2, <1>7 DEF TypeOK
<1>9. nousers' = nousers
  BY <1>2 DEF TypeOK, RecordsInv, OwnerFirst, Blank
<1> QED
  BY <1>2, <1>5, <1>6, <1>8, <1>9

LEMMA LoadRecords ==
    ASSUME TypeOK, RecordsInv, NEW rs \in [Slots -> Rec], loadusers(rs), switched' = switched
    PROVE  /\ RecordsInv' /\ OwnerLogin
           /\ \A u \in Slots : /\ Login(u)' = Login(u) /\ Settled(u)' = Settled(u)
                               /\ Settled(u) => Parent(u)' = Parent(u)
<1>1. \A u \in Slots : LoadedAs(rec'[u], u, rs[u])
  BY LoadFacts
<1>2. cfg' = cfg /\ nousers' = nousers
  BY LoadFacts
<1>3. /\ Blank /\ LoginSaved /\ FamilyHolds /\ ParentsAlive
      /\ NamesUnique /\ NetworksNamed /\ SavedAgrees /\ OwnerFirst
  BY DEF RecordsInv
<1>4. \A u \in Slots : /\ Login(u)' = Login(u) /\ Exists(u)' = Exists(u)
                       /\ Settled(u)' = Settled(u) /\ Parent(u)' = cfg[u].parent
                       /\ rec'[u].saved.network = cfg[u].network
                       /\ ~Exists(u) => rec'[u] = NoRec
  BY <1>1 DEF LoadedAs, Login, Exists, Settled, Parent
<1>5. \A u \in Slots : Settled(u) =>
         /\ Agrees(cfg[u], rec[u].saved)
         /\ cfg[u].parent = Parent(u) /\ cfg[u].network = rec[u].saved.network
         /\ cfg[u].rights = rec[u].saved.rights
  BY <1>3 DEF SavedAgrees, Agrees, Parent
<1>6. \A u \in Slots : (Parent(u) # 0 => Parent(u) \in Slots) /\ (cfg[u].parent # 0 => cfg[u].parent \in Slots)
  BY Types
<1>7. 1 \in Slots
  BY Types
<1>8. ASSUME NEW u \in Slots, Settled(u) PROVE rec'[u].saved.rights = rec[u].saved.rights
  <2>1. LoadedAs(rec'[u], u, rs[u])
    BY <1>1
  <2>2. CASE Parent(u) = 0
    BY <1>5, <1>8, <2>1, <2>2 DEF LoadedAs
  <2>3. CASE Parent(u) # 0
    <3>1. PICK p : p = Parent(u)
      OBVIOUS
    <3>2. p \in Slots /\ Login(p) = Login(u) /\ rec[p].saved.rights = rec[u].saved.rights
      BY <1>3, <1>6, <1>8, <2>3, <3>1 DEF ParentsAlive
    <3>3. cfg[p].rights = rec[u].saved.rights
      BY <1>5, <1>8, <3>2 DEF Settled, Exists
    <3>4. rec'[u].saved.rights = cfg[p].rights
      BY <1>5, <1>8, <2>1, <2>3, <3>1 DEF LoadedAs
    <3> QED
      BY <3>3, <3>4
  <2> QED
    BY <2>2, <2>3
<1>9. Blank'
  BY <1>2, <1>3, <1>4 DEF Blank
<1>10. LoginSaved'
  BY <1>2, <1>3, <1>4 DEF LoginSaved
<1>11. FamilyHolds'
  BY <1>2, <1>3, <1>4, <1>6 DEF FamilyHolds
<1>12. ParentsAlive'
  <2>1. ASSUME NEW u \in Slots, Settled(u)', Parent(u)' # 0
        PROVE  /\ Parent(Parent(u))' = 0
               /\ Login(Parent(u))' = Login(u)'
               /\ rec'[Parent(u)'].saved.rights = rec'[u].saved.rights
    <3>1. PICK p : p = Parent(u)
      OBVIOUS
    <3>2. Settled(u) /\ Parent(u)' = p /\ p # 0 /\ p \in Slots
      BY <1>4, <1>5, <1>6, <2>1, <3>1
    <3>3. Parent(p) = 0 /\ Login(p) = Login(u) /\ rec[p].saved.rights = rec[u].saved.rights
      BY <1>3, <3>1, <3>2 DEF ParentsAlive
    <3>4. Settled(p)
      BY <3>2, <3>3 DEF Settled, Exists
    <3>5. Parent(p)' = 0 /\ Login(p)' = Login(u)' /\ rec'[p].saved.rights = rec'[u].saved.rights
      BY <1>4, <1>5, <1>8, <3>2, <3>3, <3>4
    <3> QED
      BY <3>2, <3>5
  <2> QED
    BY <2>1 DEF ParentsAlive
<1>13. NamesUnique' /\ NetworksNamed'
  BY <1>3, <1>4, <1>5 DEF NamesUnique, NetworksNamed
<1>14. SavedAgrees'
  <2>1. ASSUME NEW u \in Slots, Settled(u) PROVE Agrees(cfg[u], rec'[u].saved)
    <3>1. LoadedAs(rec'[u], u, rs[u]) /\ cfg[u].login = Login(u)
      BY <1>1, <1>3 DEF LoginSaved
    <3>2. rec'[u].saved.rights = cfg[u].rights
      BY <1>5, <1>8, <2>1
    <3> QED
      BY <3>1, <3>2 DEF LoadedAs, Agrees
  <2> QED
    BY <1>2, <1>4, <2>1 DEF SavedAgrees
<1>15. OwnerFirst' /\ OwnerLogin
  BY <1>2, <1>3, <1>4, <1>5, <1>7 DEF OwnerFirst, OwnerLogin, Login
<1>16. RecordsInv'
  BY <1>9, <1>10, <1>11, <1>12, <1>13, <1>14, <1>15 DEF RecordsInv
<1> QED
  BY <1>4, <1>5, <1>15, <1>16

LEMMA Steprehash ==
    ASSUME RegistryInv, cmdrehash
    PROVE  RegistryInv' /\ OwnerLogin
<1>1. TypeOK /\ RecordsInv /\ SocketsOwned /\ MainConnected
  BY InvParts
<1>2. rec \in [Slots -> Rec] /\ loadusers(rec) /\ UNCHANGED <<sock, owner, switched, sets>>
  BY <1>1 DEF TypeOK, Rec, cmdrehash
<1>3. /\ rec' \in [Slots -> Rec] /\ \A u \in Slots : LoadedAs(rec'[u], u, rec[u])
      /\ cfg' = cfg /\ nousers' = nousers
  BY <1>1, <1>2, LoadFacts
<1>4. /\ RecordsInv' /\ OwnerLogin
      /\ \A u \in Slots : /\ Login(u)' = Login(u) /\ Settled(u)' = Settled(u)
                          /\ Settled(u) => Parent(u)' = Parent(u)
  BY <1>1, <1>2, LoadRecords
<1>5. TypeOK'
  BY <1>1, <1>2, <1>3 DEF TypeOK, Rec
<1>6. SocketsOwned'
  <2>1. ASSUME NEW f \in Fds, sock[f] # 0 PROVE OwnsSocket(rec, sock[f], owner[f])'
    <3>1. sock[f] \in Slots /\ OwnsSocket(rec, sock[f], owner[f])
      BY <1>1, <2>1, Types DEF SocketsOwned
    <3>2. rec'[sock[f]].saved.login = rec[sock[f]].saved.login
      BY <1>4, <3>1 DEF Login
    <3>3. owner[f] \notin switched => rec'[sock[f]].saved.parent = rec[sock[f]].saved.parent
      BY <1>4, <3>1 DEF OwnsSocket, Settled, Exists, Login, Parent
    <3> QED
      BY <1>2, <3>1, <3>2, <3>3 DEF OwnsSocket
  <2> QED
    BY <1>2, <2>1 DEF SocketsOwned
<1>7. MainConnected'
  <2>1. ASSUME NEW u \in Slots, Settled(u)', Parent(u)' = 0 PROVE Connected(rec'[u], sock, u)
    <3>1. Settled(u) /\ Parent(u) = 0 /\ Exists(u)
      BY <1>4, <2>1 DEF Settled
    <3>2. Connected(rec[u], sock, u) /\ LoadedAs(rec'[u], u, rec[u])
      BY <1>1, <1>3, <3>1 DEF MainConnected
    <3>3. cfg[u].parent = 0
      BY <1>1, <3>1 DEF RecordsInv, SavedAgrees, Agrees, Parent
    <3> QED
      BY <3>1, <3>2, <3>3 DEF Connected, LoadedAs
  <2> QED
    BY <1>2, <2>1 DEF MainConnected, Connected
<1> QED
  BY <1>4, <1>5, <1>6, <1>7 DEF RegistryInv, ClientsInv

LEMMA StepRestart ==
    ASSUME RegistryInv, Restart
    PROVE  RegistryInv' /\ OwnerLogin
<1>1. TypeOK /\ RecordsInv
  BY InvParts
<1>2. PICK rs : rs = [u \in Slots |-> NoRec]
  OBVIOUS
<1>3. rs \in [Slots -> Rec] /\ loadusers(rs) /\ \A u \in Slots : rs[u] = NoRec
  BY <1>2, NoRecFacts DEF Restart
<1>4. /\ sock' = [f \in Fds |-> 0] /\ owner' = [f \in Fds |-> None]
      /\ switched' = switched /\ sets' = sets
  BY DEF Restart
<1>5. /\ rec' \in [Slots -> Rec] /\ \A u \in Slots : LoadedAs(rec'[u], u, rs[u])
      /\ cfg' = cfg /\ nousers' = nousers
  BY <1>1, <1>3, LoadFacts
<1>6. /\ RecordsInv' /\ OwnerLogin
      /\ \A u \in Slots : /\ Login(u)' = Login(u) /\ Settled(u)' = Settled(u)
                          /\ Settled(u) => Parent(u)' = Parent(u)
  BY <1>1, <1>3, <1>4, LoadRecords
<1>7. TypeOK'
  <2>1. /\ cfg \in [Slots -> Saved] /\ switched \subseteq Logins /\ sets \in 0 .. MaxSets
        /\ nousers \in BOOLEAN
    BY <1>1 DEF TypeOK
  <2>2. sock' \in [Fds -> 0 .. MaxUser] /\ owner' \in [Fds -> Logins \cup {None}]
    BY <1>4, UserRegistryAssumption
  <2> QED
    BY <1>4, <1>5, <2>1, <2>2 DEF TypeOK, Rec
<1>8. SocketsOwned'
  BY <1>4 DEF SocketsOwned
<1>9. MainConnected'
  <2>1. ASSUME NEW u \in Slots, Settled(u)', Parent(u)' = 0
        PROVE  rec'[u].insock = 0 /\ rec'[u].instate = "NOCON" /\ u # 0
    <3>1. Settled(u) /\ Parent(u) = 0 /\ Exists(u)
      BY <1>6, <2>1 DEF Settled
    <3>2. LoadedAs(rec'[u], u, NoRec) /\ cfg[u].parent = 0
      BY <1>1, <1>3, <1>5, <3>1 DEF RecordsInv, SavedAgrees, Agrees, Parent
    <3> QED
      BY <1>1, <3>1, <3>2, NoRecFacts, Types DEF LoadedAs
  <2>2. \A f \in Fds : sock'[f] = 0
    BY <1>4
  <2> QED
    BY <2>1, <2>2 DEF MainConnected, Connected
<1> QED
  BY <1>6, <1>7, <1>8, <1>9 DEF RegistryInv, ClientsInv

-----------------------------------------------------------------------------
(* The invariant holds *)

LEMMA InitInv ==
    ASSUME Init
    PROVE  RegistryInv
<1>1. /\ \A u \in Slots : rec[u] = NoRec /\ cfg[u] = NoSaved /\ ~Exists(u) /\ ~Settled(u) /\ Login(u) = None
      /\ \A f \in Fds : sock[f] = 0
  BY NoRecFacts DEF Init, Exists, Settled, Login
<1>2. TypeOK
  <2>1. 0 \in 0 .. MaxUser /\ 0 \in 0 .. MaxSets
    BY UserRegistryAssumption
  <2> QED
    BY <2>1, NoRecFacts DEF Init, TypeOK, Rec
<1>3. nousers = TRUE /\ 1 \in Slots
  BY <1>2, Types DEF Init
<1>4. RecordsInv
  BY <1>1, <1>3, NoRecFacts DEF RecordsInv, Blank, LoginSaved, FamilyHolds, ParentsAlive,
     NamesUnique, NetworksNamed, SavedAgrees, OwnerFirst
<1>5. ClientsInv
  BY <1>1 DEF ClientsInv, SocketsOwned, MainConnected
<1> QED
  BY <1>2, <1>4, <1>5 DEF RegistryInv

LEMMA StepInv ==
    ASSUME RegistryInv, DeleteSwitched = FALSE, [Next]_vars
    PROVE  RegistryInv' /\ OwnerLogin
<1>1. CASE UNCHANGED vars
  <2>1. /\ rec' = rec /\ cfg' = cfg /\ sock' = sock /\ nousers' = nousers
        /\ owner' = owner /\ switched' = switched /\ sets' = sets
    BY <1>1 DEF vars
  <2>2. TypeOK /\ RecordsInv /\ SocketsOwned /\ MainConnected
    BY InvParts
  <2>3. RecordsInv' /\ OwnerLogin
    BY <2>1, <2>2, SameRecords
  <2>4. TypeOK'
    BY <2>1, <2>2 DEF TypeOK
  <2>5. SocketsOwned'
    BY <2>1, <2>2 DEF SocketsOwned, OwnsSocket
  <2>6. MainConnected'
    BY <2>1, <2>2 DEF MainConnected, Connected, Settled, Exists, Login, Parent
  <2> QED
    BY <2>3, <2>4, <2>5, <2>6 DEF RegistryInv, ClientsInv
<1>2. CASE cmdrehash \/ Restart
  BY <1>2, Steprehash, StepRestart
<1>3. ASSUME NEW f \in Free, NEW name \in Logins, firstuser(f, name) \/ linkpeer(f, name)
      PROVE  RegistryInv' /\ OwnerLogin
  BY <1>3, Stepfirstuser, Steplinkpeer
<1>4. ASSUME NEW f \in Fds, Leave(f) PROVE RegistryInv' /\ OwnerLogin
  BY <1>4, StepLeave
<1>5. ASSUME NEW f \in Fds, NEW u \in Slots, Inbound(f, u) PROVE RegistryInv' /\ OwnerLogin
  BY <1>5, StepInbound
<1>6. ASSUME NEW u \in Slots, useroutbound(u) PROVE RegistryInv' /\ OwnerLogin
  BY <1>6, Stepuseroutbound
<1>7. ASSUME NEW f \in Fds, NEW u \in Slots, NEW name \in Logins,
             \/ cmdadduser(f, u, name) \/ cmddeluser(f, u, name)
             \/ cmdadmin(f, u, name) \/ cmdunadmin(f, u, name)
      PROVE  RegistryInv' /\ OwnerLogin
  BY <1>7, Stepcmdadduser, Stepcmddeluser, StepRights
<1>8. ASSUME NEW f \in Fds, NEW u \in Slots, NEW net \in Nets,
             \/ cmdaddnetwork(f, u, net) \/ cmddelnetwork(f, u, net)
             \/ \E old \in Nets : cmdswitchnet(f, u, net, old)
      PROVE  RegistryInv' /\ OwnerLogin
  BY <1>8, Stepcmdaddnetwork, Stepcmddelnetwork, Stepcmdswitchnet
<1>9. ASSUME NEW f \in Fds, NEW u \in Slots, NEW x \in NewValues,
             \/ cmdpassword(f, u, x) \/ cmdsetusername(f, u, x) \/ cmdaidle(f, u, x)
             \/ cmdautogetdcc(f, u, x) \/ cmdsetaway(f, u, x) \/ cmdproxy(f, u, x)
             \/ cmdvhost(f, u, x) \/ cmdpreferipv6(f, u, x) \/ cmdbvhostn(f, u, x)
      PROVE  RegistryInv' /\ OwnerLogin
  BY <1>9, Stepcmdpassword, StepOneSetting, StepNamed, Stepcmdbvhostn
<1> QED
  BY <1>1, <1>2, <1>3, <1>4, <1>5, <1>6, <1>7, <1>8, <1>9 DEF Next

-----------------------------------------------------------------------------
(* The theorems *)

LEMMA InvConsistent ==
    ASSUME RegistryInv
    PROVE  Consistent
BY InvParts DEF Consistent, RecordsInv

LEMMA InvSavedMatches ==
    ASSUME RegistryInv
    PROVE  SavedMatches
<1>1. TypeOK /\ RecordsInv
  BY InvParts
<1>2. ASSUME NEW u \in Slots, Settled(u), NEW k \in DOMAIN NoSaved
      PROVE  (k \in {"pass", "user"} /\ Parent(u) # 0) \/ cfg[u][k] = rec[u].saved[k]
  <2>1. k \in {"login", "network", "parent", "rights", "pass", "user", "opt"}
    BY DEF NoSaved
  <2>2. Agrees(cfg[u], rec[u].saved)
    BY <1>1, <1>2 DEF RecordsInv, SavedAgrees
  <2>3. cfg[u] \in Saved /\ rec[u].saved \in Saved
    BY <1>1, Types
  <2> QED
    BY <2>1, <2>2, <2>3 DEF Agrees, Parent
<1>3. \A u \in Slots : ~Exists(u) => cfg[u] = NoSaved
  BY <1>1 DEF RecordsInv, Blank
<1> QED
  BY <1>2, <1>3 DEF SavedMatches

LEMMA InvClientsOwned ==
    ASSUME RegistryInv
    PROVE  ClientsOwned
<1>1. TypeOK /\ RecordsInv /\ SocketsOwned /\ MainConnected
  BY InvParts
<1>2. ClientOwnsRecord
  BY <1>1 DEF ClientOwnsRecord, SocketsOwned, OwnsSocket, Login
<1>3. ASSUME NEW u \in Slots, Settled(u), rec[Root(u)].insock # 0, sock[rec[Root(u)].insock] # 0
      PROVE  owner[rec[Root(u)].insock] = Login(u)
  <2>1. PICK r, f : r = Root(u) /\ f = rec[r].insock
    OBVIOUS
  <2>2. r \in Slots /\ Login(r) = Login(u) /\ Parent(r) = 0 /\ Settled(r)
    BY <1>1, <1>3, <2>1, RootFacts DEF Settled
  <2>3. Connected(rec[r], sock, r) /\ rec[r] \in Rec
    BY <1>1, <2>2, Types DEF MainConnected
  <2>4. f \in Fds /\ sock[f] = r
    BY <1>3, <2>1, <2>3 DEF Connected, Rec
  <2>5. OwnsSocket(rec, r, owner[f])
    BY <1>1, <1>3, <2>1, <2>4 DEF SocketsOwned
  <2> QED
    BY <2>1, <2>2, <2>5 DEF OwnsSocket, Login
<1>4. RelayedToOwner
  BY <1>3 DEF RelayedToOwner
<1> QED
  BY <1>2, <1>4 DEF ClientsOwned

(* The registry's invariant is kept by every command, login, line, rehash and *)
(* restart.                                                                  *)
THEOREM Invariance ==
    ASSUME DeleteSwitched = FALSE
    PROVE  Spec => []RegistryInv
<1>1. Init => RegistryInv
  BY InitInv
<1>2. RegistryInv /\ [Next]_vars => RegistryInv'
  BY StepInv
<1> QED
  BY <1>1, <1>2, PTL DEF Spec

(* loadusers(), checkparents(), ADDUSER, DELUSER and the network commands:    *)
(* whatever records are deleted and given out again, the parent of a network *)
(* is a main record of the same user with the same rights, and logins and    *)
(* names of networks stay unique.                                            *)
THEOREM RegistryConsistent ==
    ASSUME DeleteSwitched = FALSE
    PROVE  Spec => []Consistent
<1>1. RegistryInv => Consistent
  BY InvConsistent
<1> QED
  BY <1>1, Invariance, PTL

(* What the commands write to the configuration is what loaduser() would      *)
(* read: a restart after any command finds the records as they were, and no  *)
(* entry of a deleted record.                                                *)
THEOREM SavedIsLoaded ==
    ASSUME DeleteSwitched = FALSE
    PROVE  Spec => []SavedMatches
<1>1. RegistryInv => SavedMatches
  BY InvSavedMatches
<1> QED
  BY <1>1, Invariance, PTL

(* linkpeer(), quitclient(), deluser() and the refresh of insock in           *)
(* userinbound() and useroutbound(): a client never holds another user's     *)
(* record, and no line of a server is relayed to another user's client.      *)
THEOREM ClientsAreOwned ==
    ASSUME DeleteSwitched = FALSE
    PROVE  Spec => []ClientsOwned
<1>1. RegistryInv => ClientsOwned
  BY InvClientsOwned
<1> QED
  BY <1>1, Invariance, PTL

(* cmddeluser() spares record 1, and neither a rehash nor a restart gives it  *)
(* up: the owner stays who he is.                                            *)
THEOREM OwnerIsKept ==
    ASSUME DeleteSwitched = FALSE
    PROVE  Spec => OwnerKept
<1> DEFINE Kept == Settled(1) /\ Login(1) \notin switched' =>
                      rec'[1].saved.login = Login(1) /\ rec'[1].saved.parent = 0
<1>1. RegistryInv /\ [Next]_vars => Kept
  <2>1. SUFFICES ASSUME RegistryInv, [Next]_vars, Settled(1), Login(1) \notin switched'
                 PROVE  rec'[1].saved.login = Login(1) /\ rec'[1].saved.parent = 0
    OBVIOUS
  <2>2. RegistryInv' /\ OwnerLogin
    BY <2>1, StepInv
  <2>3. rec'[1].saved.login = Login(1) /\ Exists(1)
    BY <2>1, <2>2 DEF OwnerLogin, Settled
  <2>4. Settled(1)'
    BY <2>1, <2>3 DEF Settled, Exists, Login
  <2>5. OwnerFirst'
    BY <2>2 DEF RegistryInv, RecordsInv
  <2> QED
    BY <2>3, <2>4, <2>5 DEF OwnerFirst, Parent
<1> QED
  BY <1>1, Invariance, PTL DEF Spec, OwnerKept
=============================================================================
