------------------------- MODULE ConfigCache_proof -------------------------
(***************************************************************************)
(* Proofs about ConfigCache, for any keys, values and initial contents: no  *)
(* key is ever in the list twice, and seen through getini() the list        *)
(* implements the map of ConfigMap.                                         *)
(***************************************************************************)
EXTENDS ConfigCache, FiniteSetsExt, SequencesExt, SequenceTheorems, WellFoundedInduction, TLAPS

-----------------------------------------------------------------------------
(* Numbers and lists *)

(* A nonempty set of naturals has a least element. *)
LEMMA LeastNatural ==
    ASSUME NEW T, T \subseteq Nat, T # {}
    PROVE  \E x \in T : \A y \in T : x <= y
<1>1. PICK R : R = OpToRel(<, Nat)
  BY Zenon
<1>2. IsWellFoundedOn(R, Nat)
  BY <1>1, NatLessThanWellFounded, Zenon
<1>3. \A x, y \in Nat : x < y => <<x, y>> \in R
  BY <1>1 DEF OpToRel
<1>4. PICK x \in T : \A y \in T : ~ (<<y, x>> \in R)
  BY <1>2, WFMin, Zenon
<1>5. \A y \in T : x <= y
  <2> TAKE y \in T
  <2>1. x \in Nat /\ y \in Nat
    BY <1>4
  <2>2. ~ (y < x)
    BY <1>3, <1>4, <2>1
  <2> QED
    BY <2>1, <2>2
<1> QED
  BY <1>4, <1>5

(* Min picks an element of a nonempty set of naturals, so a descriptor or   *)
(* slot chosen with it is a free one.                                       *)
LEMMA MinMember ==
    ASSUME NEW T, T \subseteq Nat, T # {}
    PROVE  Min(T) \in T /\ \A y \in T : Min(T) <= y
BY LeastNatural DEF Min

(* A nonempty set of positions in a list has a last one. *)
LEMMA GreatestPosition ==
    ASSUME NEW n \in Nat, NEW T, T \subseteq 1 .. n, T # {}
    PROVE  Max(T) \in T /\ \A y \in T : Max(T) >= y
<1> DEFINE U == {m \in Nat : \A x \in T : x <= m}
<1>1. U \subseteq Nat /\ n \in U
  OBVIOUS
<1>2. PICK u \in U : \A v \in U : u <= v
  BY <1>1, LeastNatural
<1>3. u \in T
  <2>1. SUFFICES ASSUME u \notin T PROVE FALSE
    OBVIOUS
  <2>2. PICK x \in T : TRUE
    OBVIOUS
  <2>3. u # 0 /\ u \in Nat
    BY <1>2, <2>2
  <2>4. \A y \in T : y <= u /\ y # u /\ y \in Nat
    BY <1>2, <2>1
  <2>5. \A y \in T : y <= u - 1
    BY <2>3, <2>4
  <2>6. u - 1 \in U
    BY <2>3, <2>5
  <2> QED
    BY <1>2, <2>3, <2>6
<1>4. \A y \in T : u >= y
  BY <1>2
<1> QED
  BY <1>3, <1>4 DEF Max

(* Every natural number has a property that 0 has and that passes from each  *)
(* number to the next: stated for the set of the numbers that have it.       *)
LEMMA NatSetInduction ==
    ASSUME NEW T, 0 \in T, \A n \in Nat : n \in T => n + 1 \in T
    PROVE  \A n \in Nat : n \in T
<1> DEFINE U == {n \in Nat : n \notin T}
<1>1. SUFFICES ASSUME U # {} PROVE FALSE
  OBVIOUS
<1>2. PICK u \in U : \A v \in U : u <= v
  BY <1>1, LeastNatural
<1>3. u \in Nat /\ u # 0 /\ u \notin T
  BY <1>2
<1>4. u - 1 \in Nat /\ u - 1 \in T
  BY <1>2, <1>3
<1> QED
  BY <1>3, <1>4

(* Taking an element out of a list moves the ones behind it up. *)
LEMMA RemoveAtFacts ==
    ASSUME NEW S, NEW s \in Seq(S), NEW p \in 1 .. Len(s)
    PROVE  /\ RemoveAt(s, p) \in Seq(S)
           /\ Len(RemoveAt(s, p)) = Len(s) - 1
           /\ \A i \in 1 .. Len(s) - 1 :
                RemoveAt(s, p)[i] = IF i < p THEN s[i] ELSE s[i + 1]
<1>1. PICK a, b : a = SubSeq(s, 1, p - 1) /\ b = SubSeq(s, p + 1, Len(s))
  OBVIOUS
<1>2. /\ a \in Seq(S) /\ Len(a) = p - 1 /\ \A i \in 1 .. p - 1 : a[i] = s[i]
      /\ b \in Seq(S) /\ Len(b) = Len(s) - p /\ \A i \in 1 .. Len(s) - p : b[i] = s[p + i]
  BY <1>1
<1>3. /\ a \o b \in Seq(S) /\ Len(a \o b) = Len(s) - 1
      /\ \A i \in 1 .. Len(s) - 1 :
           (a \o b)[i] = IF i <= p - 1 THEN a[i] ELSE b[i - (p - 1)]
  <2>1. /\ a \o b \in Seq(S) /\ Len(a \o b) = Len(a) + Len(b)
        /\ \A i \in 1 .. Len(a) + Len(b) :
             (a \o b)[i] = IF i <= Len(a) THEN a[i] ELSE b[i - Len(a)]
    BY <1>2, ConcatProperties, Zenon
  <2>2. Len(a) + Len(b) = Len(s) - 1
    BY <1>2
  <2> QED
    BY <1>2, <2>1, <2>2
<1>4. RemoveAt(s, p) = a \o b
  BY <1>1 DEF RemoveAt
<1>5. ASSUME NEW i \in 1 .. Len(s) - 1
      PROVE  (a \o b)[i] = IF i < p THEN s[i] ELSE s[i + 1]
  <2>1. CASE i < p
    BY <1>2, <1>3, <2>1
  <2>2. CASE i >= p
    <3>1. i - (p - 1) \in 1 .. Len(s) - p /\ p + (i - (p - 1)) = i + 1
      BY <2>2
    <3>2. (a \o b)[i] = b[i - (p - 1)]
      BY <1>3, <2>2
    <3> QED
      BY <1>2, <2>2, <3>1, <3>2
  <2>3. i < p \/ i >= p
    OBVIOUS
  <2> QED
    BY <2>1, <2>2, <2>3, Zenon
<1> QED
  BY <1>3, <1>4, <1>5

(* Putting one in moves the ones behind it down. *)
LEMMA InsertAtFacts ==
    ASSUME NEW S, NEW s \in Seq(S), NEW p \in 1 .. Len(s) + 1, NEW e \in S
    PROVE  /\ InsertAt(s, p, e) \in Seq(S)
           /\ Len(InsertAt(s, p, e)) = Len(s) + 1
           /\ \A i \in 1 .. Len(s) + 1 :
                InsertAt(s, p, e)[i] =
                  IF i < p THEN s[i] ELSE IF i = p THEN e ELSE s[i - 1]
<1>1. PICK a, b : a = SubSeq(s, 1, p - 1) /\ b = SubSeq(s, p, Len(s))
  OBVIOUS
<1>2. /\ a \in Seq(S) /\ Len(a) = p - 1 /\ \A i \in 1 .. p - 1 : a[i] = s[i]
      /\ b \in Seq(S) /\ Len(b) = Len(s) - p + 1
      /\ \A i \in 1 .. Len(s) - p + 1 : b[i] = s[p + i - 1]
  BY <1>1
<1>3. PICK c : c = a \o <<e>>
  OBVIOUS
<1>4. /\ c \in Seq(S) /\ Len(c) = p /\ \A i \in 1 .. p - 1 : c[i] = s[i]
      /\ c[p] = e
  BY <1>2, <1>3
<1>5. /\ c \o b \in Seq(S) /\ Len(c \o b) = Len(s) + 1
      /\ \A i \in 1 .. Len(s) + 1 :
           (c \o b)[i] = IF i <= p THEN c[i] ELSE b[i - p]
  <2>1. /\ c \o b \in Seq(S) /\ Len(c \o b) = Len(c) + Len(b)
        /\ \A i \in 1 .. Len(c) + Len(b) :
             (c \o b)[i] = IF i <= Len(c) THEN c[i] ELSE b[i - Len(c)]
    BY <1>2, <1>4, ConcatProperties, Zenon
  <2>2. Len(c) + Len(b) = Len(s) + 1
    BY <1>2, <1>4
  <2> QED
    BY <1>2, <1>4, <2>1, <2>2
<1>6. InsertAt(s, p, e) = c \o b
  BY <1>1, <1>3 DEF InsertAt
<1>7. ASSUME NEW i \in 1 .. Len(s) + 1
      PROVE  (c \o b)[i] = IF i < p THEN s[i] ELSE IF i = p THEN e ELSE s[i - 1]
  <2>1. CASE i <= p
    <3>1. (c \o b)[i] = c[i]
      BY <1>5, <2>1
    <3>2. i \in 1 .. p - 1 \/ i = p
      BY <2>1
    <3> QED
      BY <1>4, <3>1, <3>2
  <2>2. CASE ~ (i <= p)
    <3>1. (c \o b)[i] = b[i - p]
      BY <1>5, <2>2
    <3>2. i - p \in 1 .. Len(s) - p + 1 /\ p + (i - p) - 1 = i - 1 /\ ~ (i < p) /\ i # p
      BY <2>2
    <3>3. b[i - p] = s[p + (i - p) - 1]
      BY <1>2, <3>2
    <3> QED
      BY <3>1, <3>2, <3>3
  <2> QED
    BY <2>1, <2>2
<1> QED
  BY <1>5, <1>6, <1>7

-----------------------------------------------------------------------------
(* Lists of entries *)

(* No key has two entries in the list. *)
Unique(c) == \A i, j \in DOMAIN c : c[i].key = c[j].key => i = j

(* The entries of the list d are those of the list c whose keys are not in G. *)
Without(d, c, G) ==
    /\ \A i \in DOMAIN d : d[i].key \notin G /\ \E j \in DOMAIN c : c[j] = d[i]
    /\ \A j \in DOMAIN c : c[j].key \notin G => \E i \in DOMAIN d : d[i] = c[j]

(* The recursion of Kept has a solution, and Kept is its last value. *)
LEMMA KeptFunction ==
    ASSUME NEW c \in Seq(Entry), NEW G
    PROVE  \E h : /\ h[0] = <<>>
                  /\ \A i \in 1 .. Len(c) :
                       h[i] = IF c[i].key \in G THEN h[i - 1] ELSE Append(h[i - 1], c[i])
                  /\ Kept(c, G) = h[Len(c)]
<1> DEFINE Body(h, i) == IF i = 0 THEN <<>>
                         ELSE IF c[i].key \in G THEN h[i - 1] ELSE Append(h[i - 1], c[i])
           Solves(h, n) == h = [i \in 0 .. n |-> Body(h, i)]
           T == {n \in Nat : \E h : Solves(h, n)}
<1>1. 0 \in T
  <2> DEFINE g == [i \in 0 .. 0 |-> <<>>]
  <2>1. Solves(g, 0)
    OBVIOUS
  <2> QED
    BY <2>1
<1>2. ASSUME NEW n \in Nat, n \in T PROVE n + 1 \in T
  <2>0. PICK h : Solves(h, n)
    BY <1>2
  <2>1. \A i \in 0 .. n : h[i] = Body(h, i)
    BY <2>0, Zenon
  <2> DEFINE g == [i \in 0 .. n + 1 |-> IF i <= n THEN h[i] ELSE Body(h, n + 1)]
  <2>2. ASSUME NEW i \in 0 .. n + 1 PROVE g[i] = Body(g, i)
    <3>1. CASE i = 0
      BY <2>1, <3>1
    <3>2. CASE i \in 1 .. n
      <4>1. g[i] = h[i] /\ g[i - 1] = h[i - 1] /\ h[i] = Body(h, i)
        <5>1. i <= n /\ i - 1 <= n /\ i - 1 \in 0 .. n + 1 /\ i \in 0 .. n
          BY <3>2
        <5> HIDE DEF Body
        <5> QED
          BY <2>1, <5>1
      <4> QED
        BY <3>2, <4>1
    <3>3. CASE i = n + 1
      <4>1. g[i] = Body(h, i) /\ g[i - 1] = h[i - 1]
        BY <3>3
      <4> QED
        BY <3>3, <4>1
    <3> QED
      BY <3>1, <3>2, <3>3
  <2>3. Solves(g, n + 1)
    BY <2>2
  <2> HIDE DEF g, Solves
  <2> QED
    BY <2>3
<1>3. Len(c) \in T
  <2> HIDE DEF T
  <2>1. \A n \in Nat : n \in T
    BY <1>1, <1>2, NatSetInduction
  <2> QED
    BY <2>1
<1>4. PICK h : h = CHOOSE g : Solves(g, Len(c))
  OBVIOUS
<1>5. Solves(h, Len(c))
  BY <1>3, <1>4
<1>6. Kept(c, G) = h[Len(c)]
  BY <1>4 DEF Kept
<1>7. \A i \in 0 .. Len(c) : h[i] = Body(h, i)
  BY <1>5, Zenon
<1>8. Len(c) \in Nat
  OBVIOUS
<1> QED
  BY <1>6, <1>7, <1>8

(* What the loop of clearsectionconfig() leaves: the entries that are not in *)
(* the group, none of them twice.                                            *)
LEMMA KeptFacts ==
    ASSUME NEW c \in Seq(Entry), Unique(c), NEW G
    PROVE  /\ Kept(c, G) \in Seq(Entry)
           /\ Unique(Kept(c, G))
           /\ Without(Kept(c, G), c, G)
<1>1. PICK h : /\ h[0] = <<>>
               /\ \A i \in 1 .. Len(c) :
                    h[i] = IF c[i].key \in G THEN h[i - 1] ELSE Append(h[i - 1], c[i])
               /\ Kept(c, G) = h[Len(c)]
  BY KeptFunction
<1> DEFINE Upto(n) ==
             n <= Len(c) =>
               /\ h[n] \in Seq(Entry)
               /\ Unique(h[n])
               /\ \A i \in DOMAIN h[n] :
                    h[n][i].key \notin G /\ \E j \in 1 .. n : c[j] = h[n][i]
               /\ \A j \in 1 .. n : c[j].key \notin G => \E i \in DOMAIN h[n] : h[n][i] = c[j]
           T == {n \in Nat : Upto(n)}
<1>2. Len(c) \in Nat /\ DOMAIN c = 1 .. Len(c)
  OBVIOUS
<1>3. 0 \in T
  <2>1. PICK r : r = h[0]
    OBVIOUS
  <2>2. r \in Seq(Entry) /\ DOMAIN r = {}
    BY <1>1, <2>1
  <2>3. Unique(r)
    BY <2>2 DEF Unique
  <2>4. 1 .. 0 = {}
    OBVIOUS
  <2> QED
    BY <2>1, <2>2, <2>3, <2>4
<1>4. ASSUME NEW n \in Nat, n \in T PROVE n + 1 \in T
  <2> SUFFICES ASSUME n + 1 <= Len(c) PROVE Upto(n + 1)
    BY DEF Upto
  <2>1. Upto(n) /\ n <= Len(c) /\ n + 1 \in 1 .. Len(c)
    BY <1>4
  <2>2. h[n + 1] = IF c[n + 1].key \in G THEN h[n] ELSE Append(h[n], c[n + 1])
    <3>1. (n + 1) - 1 = n
      OBVIOUS
    <3> QED
      BY <1>1, <2>1, <3>1, Zenon
  <2>3. CASE c[n + 1].key \in G
    <3>1. h[n + 1] = h[n]
      BY <2>2, <2>3
    <3>2. \A j \in 1 .. n + 1 : j \in 1 .. n \/ j = n + 1
      OBVIOUS
    <3> QED
      BY <2>1, <2>3, <3>1, <3>2
  <2>4. CASE c[n + 1].key \notin G
    <3>1. PICK r, e : r = h[n] /\ e = c[n + 1]
      OBVIOUS
    <3>2. /\ r \in Seq(Entry) /\ e \in Entry /\ Unique(r) /\ e.key \notin G
          /\ \A i \in DOMAIN r : r[i].key \notin G /\ \E j \in 1 .. n : c[j] = r[i]
          /\ \A j \in 1 .. n : c[j].key \notin G => \E i \in DOMAIN r : r[i] = c[j]
      BY <2>1, <2>4, <3>1
    <3>3. /\ Append(r, e) \in Seq(Entry) /\ DOMAIN Append(r, e) = 1 .. Len(r) + 1
          /\ \A i \in 1 .. Len(r) : Append(r, e)[i] = r[i]
          /\ Append(r, e)[Len(r) + 1] = e
          /\ DOMAIN r = 1 .. Len(r) /\ Len(r) \in Nat
      BY <3>2
    <3>4. ASSUME NEW i \in 1 .. Len(r), r[i].key = e.key PROVE FALSE
      <4>1. PICK j \in 1 .. n : c[j] = r[i]
        BY <3>2, <3>3
      <4>2. j \in DOMAIN c /\ n + 1 \in DOMAIN c /\ j # n + 1 /\ c[j].key = c[n + 1].key
        BY <1>2, <2>1, <3>1, <3>4, <4>1
      <4> QED
        BY <4>2, Zenon DEF Unique
    <3>5. PICK q : q = Append(r, e)
      OBVIOUS
    <3>6. Unique(q)
      <4>1. ASSUME NEW i \in 1 .. Len(r) + 1, NEW j \in 1 .. Len(r) + 1, q[i].key = q[j].key
            PROVE  i = j
        <5>1. CASE i \in 1 .. Len(r) /\ j \in 1 .. Len(r)
          BY <3>2, <3>3, <3>5, <4>1, <5>1 DEF Unique
        <5>2. CASE ~(i \in 1 .. Len(r) /\ j \in 1 .. Len(r))
          BY <3>3, <3>4, <3>5, <4>1, <5>2
        <5> QED
          BY <5>1, <5>2
      <4> QED
        BY <3>3, <3>5, <4>1 DEF Unique
    <3>7. ASSUME NEW i \in DOMAIN q
          PROVE  q[i].key \notin G /\ \E j \in 1 .. n + 1 : c[j] = q[i]
      <4>1. CASE i \in 1 .. Len(r)
        <5>1. q[i] = r[i]
          BY <3>3, <3>5, <4>1
        <5>2. PICK j \in 1 .. n : c[j] = r[i]
          BY <3>2, <3>3, <4>1
        <5> QED
          BY <3>2, <3>3, <4>1, <5>1, <5>2
      <4>2. CASE i = Len(r) + 1
        BY <3>1, <3>2, <3>3, <3>5, <4>2
      <4> QED
        BY <3>3, <3>5, <4>1, <4>2
    <3>8. ASSUME NEW j \in 1 .. n + 1, c[j].key \notin G
          PROVE  \E i \in DOMAIN q : q[i] = c[j]
      <4>1. CASE j = n + 1
        <5>1. Len(r) + 1 \in DOMAIN q /\ q[Len(r) + 1] = c[j]
          BY <3>1, <3>3, <3>5, <4>1
        <5> QED
          BY <5>1
      <4>2. CASE j \in 1 .. n
        <5>1. PICK i \in DOMAIN r : r[i] = c[j]
          BY <3>2, <3>8, <4>2
        <5> QED
          BY <3>3, <3>5, <5>1
      <4> QED
        BY <4>1, <4>2
    <3>9. h[n + 1] = q /\ q \in Seq(Entry)
      BY <2>2, <2>4, <3>1, <3>3, <3>5
    <3> QED
      BY <3>6, <3>7, <3>8, <3>9
  <2> QED
    BY <2>3, <2>4
<1>5. Len(c) \in T
  <2> HIDE DEF T
  <2>1. \A n \in Nat : n \in T
    BY <1>3, <1>4, NatSetInduction
  <2> QED
    BY <2>1
<1>6. PICK r : r = Kept(c, G)
  OBVIOUS
<1>7. /\ r \in Seq(Entry) /\ Unique(r)
      /\ \A i \in DOMAIN r : r[i].key \notin G /\ \E j \in 1 .. Len(c) : c[j] = r[i]
      /\ \A j \in 1 .. Len(c) : c[j].key \notin G => \E i \in DOMAIN r : r[i] = c[j]
  BY <1>1, <1>2, <1>5, <1>6
<1> QED
  BY <1>2, <1>6, <1>7 DEF Without

-----------------------------------------------------------------------------
(* What getini() finds *)

(* getini() in the list c. *)
Get(c, k) ==
    LET S == {i \in DOMAIN c : c[i].key = k}
    IN  IF S = {} THEN NoValue ELSE c[Min(S)].val

(* The same entries of the key k are in both lists. *)
Agree(c, d, k) ==
    /\ \A i \in DOMAIN c : c[i].key = k => \E j \in DOMAIN d : d[j] = c[i]
    /\ \A j \in DOMAIN d : d[j].key = k => \E i \in DOMAIN c : c[i] = d[j]

(* In a list without second entries it is the value of any entry of the key. *)
LEMMA GetFacts ==
    ASSUME NEW c \in Seq(Entry), Unique(c), NEW k
    PROVE  /\ \A i \in DOMAIN c : c[i].key = k => Get(c, k) = c[i].val
           /\ (\A i \in DOMAIN c : c[i].key # k) => Get(c, k) = NoValue
<1> DEFINE S == {i \in DOMAIN c : c[i].key = k}
<1>1. ASSUME NEW i \in DOMAIN c, c[i].key = k
      PROVE  Get(c, k) = c[i].val
  <2>1. S \subseteq Nat /\ i \in S
    BY <1>1
  <2>2. Min(S) \in S
    BY <2>1, MinMember
  <2>3. Min(S) = i
    BY <1>1, <2>2 DEF Unique
  <2> QED
    BY <2>1, <2>3 DEF Get
<1>2. ASSUME \A i \in DOMAIN c : c[i].key # k
      PROVE  Get(c, k) = NoValue
  BY <1>2 DEF Get
<1> QED
  BY <1>1, <1>2

LEMMA AgreeGet ==
    ASSUME NEW c \in Seq(Entry), Unique(c), NEW d \in Seq(Entry), Unique(d), NEW k,
           Agree(c, d, k)
    PROVE  Get(c, k) = Get(d, k)
<1>1. CASE \E i \in DOMAIN c : c[i].key = k
  <2>1. PICK i \in DOMAIN c : c[i].key = k
    BY <1>1
  <2>2. PICK j \in DOMAIN d : d[j] = c[i]
    BY <2>1 DEF Agree
  <2>3. Get(c, k) = c[i].val
    BY <2>1, GetFacts
  <2>4. Get(d, k) = d[j].val
    BY <2>1, <2>2, GetFacts
  <2> QED
    BY <2>2, <2>3, <2>4
<1>2. CASE \A i \in DOMAIN c : c[i].key # k
  <2>1. \A j \in DOMAIN d : d[j].key # k
    BY <1>2 DEF Agree
  <2> QED
    BY <1>2, <2>1, GetFacts
<1> QED
  BY <1>1, <1>2

(* A value that is found is a value. *)
LEMMA GetType ==
    ASSUME NEW c \in Seq(Entry), Unique(c), NEW k
    PROVE  Get(c, k) \in Values \cup {NoValue}
<1>1. \A i \in DOMAIN c : c[i] \in Entry
  OBVIOUS
<1>2. CASE \E i \in DOMAIN c : c[i].key = k
  BY <1>1, <1>2, GetFacts DEF Entry
<1>3. CASE \A i \in DOMAIN c : c[i].key # k
  BY <1>3, GetFacts
<1> QED
  BY <1>2, <1>3

-----------------------------------------------------------------------------
(* The list after an operation *)

(* writeini(): the key has the value, and of the other keys the list has the *)
(* entries it had.                                                           *)
LEMMA WrittenFacts ==
    ASSUME Consistent, NEW k \in Keys, NEW v \in Values \cup {NoValue}
    PROVE  /\ Written(k, v) \in Seq(Entry)
           /\ Unique(Written(k, v))
           /\ Get(Written(k, v), k) = v
           /\ \A m \in Keys : m # k => Agree(conf, Written(k, v), m)
<1> DEFINE new == [key |-> k, val |-> v]
           n == Len(conf)
           d == Written(k, v)
<1>1. conf \in Seq(Entry) /\ Unique(conf) /\ n \in Nat /\ DOMAIN conf = 1 .. n
  BY DEF Consistent, TypeOK, KeysUnique, Unique
<1>2. At(k) \subseteq 1 .. n /\ InSection(k) \subseteq 1 .. n
  BY <1>1 DEF At, InSection
<1>3. CASE At(k) # {}
  <2>1. PICK p \in 1 .. n : p = Min(At(k)) /\ conf[p].key = k
    <3>1. At(k) \subseteq Nat
      BY <1>2
    <3>2. Min(At(k)) \in At(k)
      BY <1>3, <3>1, MinMember
    <3> QED
      BY <1>2, <3>2 DEF At
  <2>2. \A i \in 1 .. n : conf[i].key = k => i = p
    BY <1>1, <2>1 DEF Unique
  <2>3. CASE v = NoValue
    <3>1. d = RemoveAt(conf, p)
      BY <1>3, <2>1, <2>3 DEF Written
    <3>2. /\ d \in Seq(Entry) /\ Len(d) = n - 1
          /\ \A i \in 1 .. n - 1 : d[i] = IF i < p THEN conf[i] ELSE conf[i + 1]
      BY <1>1, <3>1, RemoveAtFacts
    <3> HIDE DEF d
    <3>3. DOMAIN d = 1 .. n - 1
      BY <3>2
    <3>4. Unique(d)
      <4>1. ASSUME NEW i \in 1 .. n - 1, NEW j \in 1 .. n - 1, d[i].key = d[j].key
            PROVE  i = j
        <5> DEFINE a == IF i < p THEN i ELSE i + 1
                   b == IF j < p THEN j ELSE j + 1
        <5>1. a \in 1 .. n /\ b \in 1 .. n /\ (a = b => i = j)
          BY <1>1
        <5>2. d[i] = conf[a] /\ d[j] = conf[b]
          BY <3>2
        <5> HIDE DEF a, b
        <5> QED
          BY <1>1, <4>1, <5>1, <5>2 DEF Unique
      <4> QED
        BY <3>3, <4>1 DEF Unique
    <3>5. \A i \in DOMAIN d : d[i].key # k
      BY <2>1, <2>2, <3>2, <3>3
    <3>6. Get(d, k) = v
      BY <2>3, <3>2, <3>4, <3>5, GetFacts
    <3>7. ASSUME NEW m \in Keys, m # k PROVE Agree(conf, d, m)
      <4>1. ASSUME NEW i \in 1 .. n, conf[i].key = m
            PROVE  \E j \in 1 .. n - 1 : d[j] = conf[i]
        <5>1. i # p
          BY <2>1, <3>7, <4>1
        <5>2. CASE i < p
          <6>1. i \in 1 .. n - 1 /\ d[i] = conf[i]
            BY <3>2, <5>2
          <6> QED
            BY <6>1
        <5>3. CASE i > p
          <6>1. i - 1 \in 1 .. n - 1 /\ ~(i - 1 < p) /\ (i - 1) + 1 = i
            BY <5>3
          <6>2. d[i - 1] = conf[i]
            BY <3>2, <6>1
          <6> QED
            BY <6>1, <6>2
        <5> QED
          BY <5>1, <5>2, <5>3
      <4>2. ASSUME NEW j \in 1 .. n - 1
            PROVE  \E i \in 1 .. n : conf[i] = d[j]
        <5>1. j \in 1 .. n /\ j + 1 \in 1 .. n
          OBVIOUS
        <5> QED
          BY <3>2, <5>1
      <4> QED
        BY <1>1, <3>3, <4>1, <4>2 DEF Agree
    <3> QED
      BY <3>2, <3>4, <3>6, <3>7 DEF d
  <2>4. CASE v # NoValue
    <3>1. d = [conf EXCEPT ![p] = new] /\ new \in Entry
      BY <1>3, <2>1, <2>4 DEF Written, Entry
    <3>2. /\ d \in Seq(Entry) /\ DOMAIN d = 1 .. n
          /\ \A i \in 1 .. n : d[i] = IF i = p THEN new ELSE conf[i]
      BY <1>1, <3>1
    <3> HIDE DEF d
    <3>3. Unique(d)
      BY <1>1, <2>1, <3>2 DEF Unique
    <3>4. Get(d, k) = v
      BY <3>2, <3>3, GetFacts
    <3>5. ASSUME NEW m \in Keys, m # k PROVE Agree(conf, d, m)
      <4>1. \A i \in 1 .. n : conf[i].key = m => d[i] = conf[i]
        BY <2>1, <3>2, <3>5
      <4>2. \A i \in 1 .. n : d[i].key = m => d[i] = conf[i]
        BY <3>2, <3>5
      <4> QED
        BY <1>1, <3>2, <4>1, <4>2 DEF Agree
    <3> QED
      BY <3>2, <3>3, <3>4, <3>5 DEF d
  <2> QED
    BY <2>3, <2>4
<1>4. CASE At(k) = {}
  <2>1. \A i \in 1 .. n : conf[i].key # k
    BY <1>1, <1>4 DEF At
  <2>2. CASE v = NoValue
    <3>1. d = conf
      BY <1>4, <2>2 DEF Written
    <3>2. Get(conf, k) = v
      BY <1>1, <2>1, <2>2, GetFacts
    <3> QED
      BY <1>1, <3>1, <3>2 DEF Agree
  <2>3. CASE v # NoValue
    <3>1. PICK q \in 1 .. n + 1 :
            /\ d \in Seq(Entry) /\ Len(d) = n + 1
            /\ \A i \in 1 .. n + 1 :
                 d[i] = IF i < q THEN conf[i] ELSE IF i = q THEN new ELSE conf[i - 1]
      <4>0. new \in Entry
        BY <2>3 DEF Entry
      <4>1. CASE InSection(k) = {}
        <5>1. d = Append(conf, new)
          BY <1>4, <2>3, <4>1 DEF Written
        <5>2. /\ Append(conf, new) \in Seq(Entry) /\ Len(Append(conf, new)) = n + 1
              /\ \A i \in 1 .. n : Append(conf, new)[i] = conf[i]
              /\ Append(conf, new)[n + 1] = new
          BY <1>1, <4>0, AppendProperties
        <5>3. \A i \in 1 .. n + 1 :
                Append(conf, new)[i] =
                  IF i < n + 1 THEN conf[i] ELSE IF i = n + 1 THEN new ELSE conf[i - 1]
          BY <1>1, <5>2
        <5>4. n + 1 \in 1 .. n + 1
          BY <1>1
        <5> QED
          BY <5>1, <5>2, <5>3, <5>4
      <4>2. CASE InSection(k) # {}
        <5> DEFINE last == Max(InSection(k))
                   q == IF last = 1 THEN 2 ELSE last
        <5>1. d = InsertAt(conf, q, new)
          BY <1>4, <2>3, <4>2 DEF Written
        <5>2. last \in 1 .. n
          BY <1>1, <1>2, <4>2, GreatestPosition
        <5>3. q \in 1 .. n + 1
          BY <1>1, <5>2
        <5> HIDE DEF q, d, new
        <5>4. /\ d \in Seq(Entry) /\ Len(d) = n + 1
              /\ \A i \in 1 .. n + 1 :
                   d[i] = IF i < q THEN conf[i] ELSE IF i = q THEN new ELSE conf[i - 1]
          <6>1. \A p \in 1 .. Len(conf) + 1, e \in Entry :
                  /\ InsertAt(conf, p, e) \in Seq(Entry)
                  /\ Len(InsertAt(conf, p, e)) = Len(conf) + 1
                  /\ \A i \in 1 .. Len(conf) + 1 :
                       InsertAt(conf, p, e)[i] =
                         IF i < p THEN conf[i] ELSE IF i = p THEN e ELSE conf[i - 1]
            BY <1>1, InsertAtFacts
          <6> QED
            BY <4>0, <5>1, <5>3, <6>1
        <5> QED
          BY <5>3, <5>4
      <4> QED
        BY <4>1, <4>2
    <3> HIDE DEF d
    <3>2. DOMAIN d = 1 .. n + 1
      BY <3>1
    <3>3. d[q] = new
      BY <3>1
    <3>4. \A i \in 1 .. n + 1 :
            i # q => \E j \in 1 .. n : d[i] = conf[j] /\ j = IF i < q THEN i ELSE i - 1
      BY <3>1
    <3>5. Unique(d)
      <4>1. ASSUME NEW i \in 1 .. n + 1, NEW j \in 1 .. n + 1, d[i].key = d[j].key
            PROVE  i = j
        <5>1. CASE i = q \/ j = q
          BY <2>1, <3>3, <3>4, <4>1, <5>1
        <5>2. CASE i # q /\ j # q
          <6> DEFINE a == IF i < q THEN i ELSE i - 1
                     b == IF j < q THEN j ELSE j - 1
          <6>1. a \in 1 .. n /\ b \in 1 .. n /\ (a = b => i = j)
            BY <1>1, <5>2
          <6>2. d[i] = conf[a] /\ d[j] = conf[b]
            BY <3>1, <5>2
          <6> HIDE DEF a, b
          <6> QED
            BY <1>1, <4>1, <6>1, <6>2 DEF Unique
        <5> QED
          BY <5>1, <5>2
      <4> QED
        BY <3>2, <4>1 DEF Unique
    <3>6. Get(d, k) = v
      BY <3>1, <3>2, <3>3, <3>5, GetFacts
    <3>7. ASSUME NEW m \in Keys, m # k PROVE Agree(conf, d, m)
      <4>1. ASSUME NEW i \in 1 .. n PROVE \E j \in 1 .. n + 1 : d[j] = conf[i]
        <5>1. i \in 1 .. n + 1 /\ i + 1 \in 1 .. n + 1 /\ (i + 1) - 1 = i
          BY <1>1
        <5>2. CASE i < q
          BY <3>1, <5>1, <5>2
        <5>3. CASE ~(i < q)
          <6>1. ~(i + 1 < q) /\ i + 1 # q
            BY <5>3
          <6> QED
            BY <3>1, <5>1, <6>1
        <5> QED
          BY <5>2, <5>3
      <4>2. ASSUME NEW j \in 1 .. n + 1, d[j].key = m PROVE \E i \in 1 .. n : conf[i] = d[j]
        BY <3>3, <3>4, <3>7, <4>2
      <4> QED
        BY <1>1, <3>2, <4>1, <4>2 DEF Agree
    <3> QED
      BY <3>1, <3>5, <3>6, <3>7 DEF d
  <2> QED
    BY <2>2, <2>3
<1> QED
  BY <1>3, <1>4

(* clearsectionconfig(): of the keys outside the group the list has the      *)
(* entries it had, of those of the group none but the one behind an erased   *)
(* head.                                                                     *)
LEMMA ErasedFacts ==
    ASSUME Consistent, Len(conf) > 1, NEW G
    PROVE  /\ Erased(G) \in Seq(Entry)
           /\ Unique(Erased(G))
           /\ \E left : /\ left = {} \/ \E l \in G : left = {l}
                        /\ \A k \in Keys : k \notin G \/ k \in left => Agree(conf, Erased(G), k)
                        /\ \A k \in G : k \notin left => Get(Erased(G), k) = NoValue
<1> DEFINE n == Len(conf)
           d == Erased(G)
<1>1. conf \in Seq(Entry) /\ Unique(conf) /\ n \in Nat /\ DOMAIN conf = 1 .. n /\ n >= 2
  BY DEF Consistent, TypeOK, KeysUnique, Unique
<1>2. CASE conf[1].key \notin G
  <2>1. d = Kept(conf, G)
    BY <1>1, <1>2 DEF Erased
  <2>2. d \in Seq(Entry) /\ Unique(d) /\ Without(d, conf, G)
    BY <1>1, <2>1, KeptFacts
  <2> HIDE DEF d
  <2>3. \A k \in Keys : k \notin G => Agree(conf, d, k)
    BY <2>2 DEF Agree, Without
  <2>4. \A k \in G : Get(d, k) = NoValue
    BY <2>2, GetFacts DEF Without
  <2>5. PICK left : left = {}
    OBVIOUS
  <2>6. /\ \A k \in Keys : k \notin G \/ k \in left => Agree(conf, d, k)
        /\ \A k \in G : k \notin left => Get(d, k) = NoValue
    BY <2>3, <2>4, <2>5
  <2> QED
    BY <2>2, <2>5, <2>6, Zenon DEF d
<1>3. CASE conf[1].key \in G
  <2>1. PICK a, b, r : a = SubSeq(conf, 2, 2) /\ b = SubSeq(conf, 3, n) /\ r = Kept(b, G)
    OBVIOUS
  <2>2. /\ a \in Seq(Entry) /\ Len(a) = 1 /\ a[1] = conf[2]
        /\ b \in Seq(Entry) /\ Len(b) = n - 2 /\ \A i \in 1 .. n - 2 : b[i] = conf[i + 2]
    BY <1>1, <2>1
  <2>3. Unique(b)
    <3>1. ASSUME NEW i \in 1 .. n - 2, NEW j \in 1 .. n - 2, b[i].key = b[j].key
          PROVE  i = j
      <4>1. i + 2 \in 1 .. n /\ j + 2 \in 1 .. n /\ b[i] = conf[i + 2] /\ b[j] = conf[j + 2]
        BY <1>1, <2>2
      <4> QED
        BY <1>1, <3>1, <4>1 DEF Unique
    <3>2. DOMAIN b = 1 .. n - 2
      BY <2>2
    <3> QED
      BY <3>1, <3>2 DEF Unique
  <2>4. r \in Seq(Entry) /\ Unique(r) /\ Without(r, b, G)
    BY <2>1, <2>2, <2>3, KeptFacts
  <2>5. d = a \o r
    BY <1>1, <1>3, <2>1 DEF Erased
  <2>6. /\ d \in Seq(Entry) /\ Len(d) = 1 + Len(r) /\ d[1] = conf[2]
        /\ \A i \in 1 .. Len(r) : d[i + 1] = r[i]
        /\ DOMAIN d = 1 .. Len(r) + 1 /\ DOMAIN r = 1 .. Len(r) /\ Len(r) \in Nat
    <3>1. /\ a \o r \in Seq(Entry) /\ Len(a \o r) = Len(a) + Len(r)
          /\ \A i \in 1 .. Len(a) + Len(r) :
               (a \o r)[i] = IF i <= Len(a) THEN a[i] ELSE r[i - Len(a)]
      BY <2>2, <2>4, ConcatProperties, Zenon
    <3> HIDE DEF d
    <3>2. Len(r) \in Nat /\ DOMAIN r = 1 .. Len(r)
      BY <2>4
    <3>3. d \in Seq(Entry) /\ Len(d) = 1 + Len(r)
      BY <2>2, <2>5, <3>1
    <3>4. d[1] = conf[2]
      BY <2>2, <2>5, <3>1, <3>2
    <3>5. ASSUME NEW i \in 1 .. Len(r) PROVE d[i + 1] = r[i]
      <4>1. i + 1 \in 1 .. Len(a) + Len(r) /\ ~(i + 1 <= Len(a)) /\ (i + 1) - Len(a) = i
        BY <2>2, <3>2
      <4> QED
        BY <2>5, <3>1, <4>1
    <3> QED
      BY <3>2, <3>3, <3>4, <3>5
  <2> HIDE DEF d
  <2>7. \A i \in 1 .. Len(r) : \E j \in 3 .. n : r[i] = conf[j] /\ conf[j].key \notin G
    <3>1. ASSUME NEW i \in 1 .. Len(r)
          PROVE  \E j \in 3 .. n : r[i] = conf[j] /\ conf[j].key \notin G
      <4>0. DOMAIN b = 1 .. n - 2 /\ i \in DOMAIN r
        BY <2>2, <2>6
      <4>1. PICK j \in 1 .. n - 2 : b[j] = r[i] /\ r[i].key \notin G
        BY <2>4, <4>0, Zenon DEF Without
      <4>2. j + 2 \in 3 .. n /\ conf[j + 2] = r[i]
        BY <1>1, <2>2, <4>1
      <4> QED
        BY <4>1, <4>2
    <3> QED
      BY <3>1
  <2>8. ASSUME NEW j \in 3 .. n, conf[j].key \notin G
        PROVE  \E i \in 1 .. Len(r) : r[i] = conf[j]
    <3>1. j - 2 \in 1 .. n - 2 /\ b[j - 2] = conf[j]
      BY <1>1, <2>2
    <3> QED
      BY <2>2, <2>4, <2>6, <2>8, <3>1 DEF Without
  <2>9. \A i \in 1 .. Len(r) + 1 : i = 1 \/ \E m \in 1 .. Len(r) : i = m + 1
    <3>1. ASSUME NEW i \in 1 .. Len(r) + 1, i # 1
          PROVE  \E m \in 1 .. Len(r) : i = m + 1
      <4>1. i - 1 \in 1 .. Len(r) /\ i = (i - 1) + 1
        BY <2>6, <3>1
      <4> QED
        BY <4>1
    <3> QED
      BY <3>1
  <2>10. \A i \in 1 .. Len(r) : r[i].key # conf[2].key
    <3>1. ASSUME NEW i \in 1 .. Len(r), r[i].key = conf[2].key PROVE FALSE
      <4>1. PICK j \in 3 .. n : r[i] = conf[j]
        BY <2>7
      <4>2. j \in DOMAIN conf /\ 2 \in DOMAIN conf /\ j # 2
        BY <1>1
      <4> QED
        BY <1>1, <3>1, <4>1, <4>2 DEF Unique
    <3> QED
      BY <3>1
  <2>11. Unique(d)
    <3>1. ASSUME NEW i \in 1 .. Len(r) + 1, NEW j \in 1 .. Len(r) + 1, d[i].key = d[j].key
          PROVE  i = j
      <4>1. CASE i = 1 \/ j = 1
        BY <2>6, <2>9, <2>10, <3>1, <4>1
      <4>2. CASE i # 1 /\ j # 1
        <5>1. PICK m \in 1 .. Len(r), l \in 1 .. Len(r) : i = m + 1 /\ j = l + 1
          BY <2>9, <4>2
        <5>2. m = l
          <6>1. d[i] = r[m] /\ d[j] = r[l]
            BY <2>6, <5>1
          <6>2. m \in DOMAIN r /\ l \in DOMAIN r /\ r[m].key = r[l].key
            BY <2>6, <3>1, <6>1
          <6> QED
            BY <2>4, <6>2, Zenon DEF Unique
        <5> QED
          BY <5>1, <5>2
      <4> QED
        BY <4>1, <4>2
    <3> QED
      BY <2>6, <3>1 DEF Unique
  <2> DEFINE left == {conf[2].key} \cap G
  <2>12. left = {} \/ \E l \in G : left = {l}
    OBVIOUS
  <2>13. ASSUME NEW k \in Keys, k \notin G \/ k \in left PROVE Agree(conf, d, k)
    <3>1. ASSUME NEW i \in 1 .. n, conf[i].key = k PROVE \E j \in 1 .. Len(r) + 1 : d[j] = conf[i]
      <4>1. CASE i = 2
        BY <2>6, <4>1
      <4>2. CASE i # 2
        <5>1. k \notin left
          BY <1>1, <3>1, <4>2 DEF Unique
        <5>2. i \in 3 .. n
          BY <1>1, <1>3, <2>13, <3>1, <4>2, <5>1
        <5>3. PICK m \in 1 .. Len(r) : r[m] = conf[i]
          BY <2>8, <2>13, <3>1, <5>1, <5>2
        <5>4. m + 1 \in 1 .. Len(r) + 1 /\ d[m + 1] = conf[i]
          BY <2>6, <5>3
        <5> QED
          BY <5>4
      <4> QED
        BY <4>1, <4>2
    <3>2. ASSUME NEW j \in 1 .. Len(r) + 1 PROVE \E i \in 1 .. n : conf[i] = d[j]
      <4>1. CASE j = 1
        BY <1>1, <2>6, <4>1
      <4>2. CASE j # 1
        <5>1. PICK m \in 1 .. Len(r) : j = m + 1
          BY <2>9, <4>2
        <5>2. PICK i \in 3 .. n : r[m] = conf[i]
          BY <2>7
        <5> QED
          BY <1>1, <2>6, <5>1, <5>2
      <4> QED
        BY <4>1, <4>2
    <3> QED
      BY <1>1, <2>6, <3>1, <3>2 DEF Agree
  <2>14. ASSUME NEW k \in G, k \notin left PROVE Get(d, k) = NoValue
    <3>1. ASSUME NEW j \in 1 .. Len(r) + 1, d[j].key = k PROVE FALSE
      <4>1. CASE j = 1
        BY <2>6, <2>14, <3>1, <4>1
      <4>2. CASE j # 1
        <5>1. PICK m \in 1 .. Len(r) : j = m + 1
          BY <2>9, <4>2
        <5> QED
          BY <2>6, <2>7, <3>1, <5>1
      <4> QED
        BY <4>1, <4>2
    <3> QED
      BY <2>6, <2>11, <3>1, GetFacts
  <2> QED
    BY <2>6, <2>11, <2>12, <2>13, <2>14 DEF d
<1> QED
  BY <1>2, <1>3

-----------------------------------------------------------------------------
(* The theorems *)

LEMMA StepConsistent == Consistent /\ [Next]_conf => Consistent'
<1> SUFFICES ASSUME Consistent, [Next]_conf PROVE Consistent'
  OBVIOUS
<1>1. ASSUME NEW k \in Keys, NEW v \in Values \cup {NoValue}, writeini(k, v)
      PROVE  conf' \in Seq(Entry) /\ Unique(conf')
  BY <1>1, WrittenFacts DEF writeini
<1>2. ASSUME NEW G \in Groups, clearsectionconfig(G)
      PROVE  conf' \in Seq(Entry) /\ Unique(conf')
  BY <1>2, ErasedFacts DEF clearsectionconfig
<1>3. CASE UNCHANGED conf
  BY <1>3 DEF Consistent, TypeOK, KeysUnique
<1>4. CASE Next
  BY <1>1, <1>2, <1>4 DEF Next, Consistent, TypeOK, KeysUnique, Unique
<1> QED
  BY <1>3, <1>4

(* The list always holds entries, and none of its keys twice: no sequence of *)
(* writeini() and clearsectionconfig() leaves a second line of a key.        *)
THEOREM ListConsistent == Spec => []Consistent
<1>1. Init => Consistent
  BY ConfigCacheAssumption DEF Init, Consistent, TypeOK, KeysUnique
<1> QED
  BY <1>1, StepConsistent, PTL DEF Spec

(* Seen through getini() the list is the map of ConfigMap: writeini() changes *)
(* the value of one key, clearsectionconfig() takes the keys of its group and *)
(* no other, and may leave one of them.                                       *)
THEOREM CacheImplementsMap == Spec => ImplementsMap
<1> DEFINE bar == [k \in Keys |-> getini(k)]
<1>1. ASSUME Consistent
      PROVE  bar = [k \in Keys |-> Get(conf, k)]
  BY DEF getini, Get, At
<1>2. ASSUME Consistent'
      PROVE  bar' = [k \in Keys |-> Get(conf', k)]
  BY DEF getini, Get, At
<1>3. ASSUME Consistent PROVE conf \in Seq(Entry) /\ Unique(conf)
  BY <1>3 DEF Consistent, TypeOK, KeysUnique, Unique
<1>4. Consistent /\ Init => Map!Init
  BY <1>1, <1>3, GetType DEF Map!Init
<1>5. Consistent /\ Consistent' /\ [Next]_conf => [Map!Next]_bar
  <2> SUFFICES ASSUME Consistent, Consistent', [Next]_conf
               PROVE  Map!Next \/ bar' = bar
    OBVIOUS
  <2>0. bar = [k \in Keys |-> Get(conf, k)] /\ bar' = [k \in Keys |-> Get(conf', k)]
    BY <1>1, <1>2
  <2> HIDE DEF bar
  <2>1. ASSUME NEW k \in Keys, NEW v \in Values \cup {NoValue}, writeini(k, v)
        PROVE  bar' = [bar EXCEPT ![k] = v]
    <3>1. /\ conf' \in Seq(Entry) /\ Unique(conf')
          /\ Get(conf', k) = v /\ \A m \in Keys : m # k => Agree(conf, conf', m)
      BY <2>1, WrittenFacts DEF writeini
    <3>2. \A m \in Keys : m # k => Get(conf', m) = Get(conf, m)
      BY <1>3, <3>1, AgreeGet
    <3> QED
      BY <2>0, <3>1, <3>2
  <2>2. ASSUME NEW G \in Groups, clearsectionconfig(G)
        PROVE  \E left \in SUBSET G :
                 /\ \A k, l \in left : k = l
                 /\ bar' = [k \in Keys |-> IF k \in G \ left THEN NoValue ELSE bar[k]]
    <3>1. PICK left : /\ conf' \in Seq(Entry) /\ Unique(conf')
                      /\ left = {} \/ \E l \in G : left = {l}
                      /\ \A k \in Keys : k \notin G \/ k \in left => Agree(conf, conf', k)
                      /\ \A k \in G : k \notin left => Get(conf', k) = NoValue
      BY <2>2, ErasedFacts DEF clearsectionconfig
    <3>2. \A k \in Keys : k \notin G \/ k \in left => Get(conf', k) = Get(conf, k)
      BY <1>3, <3>1, AgreeGet
    <3>3. left \in SUBSET G
      BY <3>1
    <3>4. \A k, l \in left : k = l
      BY <3>1
    <3>5. bar' = [k \in Keys |-> IF k \in G \ left THEN NoValue ELSE bar[k]]
      BY <2>0, <3>1, <3>2
    <3> QED
      BY <3>3, <3>4, <3>5
  <2>3. CASE UNCHANGED conf
    BY <2>0, <2>3
  <2>4. CASE Next
    BY <2>1, <2>2, <2>4 DEF Next, Map!Next, Map!Write, Map!Erase, bar
  <2> QED
    BY <2>3, <2>4
<1> QED
  BY <1>4, <1>5, ListConsistent, PTL DEF Spec, ImplementsMap, Map!Spec
=============================================================================
