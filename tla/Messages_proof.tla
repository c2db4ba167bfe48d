--------------------------- MODULE Messages_proof ---------------------------
(***************************************************************************)
(* Proofs about Messages, for any lists, correspondents, passwords, salts   *)
(* and limits: lists come back from the configuration as far as its lines   *)
(* have room, coded passwords are read as they were given, no query is lost *)
(* and no line played twice, PRIVMSG text to a correspondent with a key goes *)
(* out under a key, and a translation has a socket of its own.              *)
(***************************************************************************)
EXTENDS Messages, SequencesExt, SequenceTheorems, WellFoundedInduction, FiniteSetTheorems, TLAPS

-----------------------------------------------------------------------------
(* Numbers and lists *)

(* A nonempty set of naturals has a least element. *)
LEMMA LeastNatural ==
    ASSUME NEW T, T \subseteq Nat, T # {}
    PROVE  \E x \in T : \A y \in T : x <= y
<1>1. PICK R : R = OpToRel(<, Nat)
  BY Zenon
<1>2. IsWellFoundedOn(R, Nat)
  BY <1>1, NatLessThanWellFounded, Zenon
<1>3. \A x, y \in Nat : x < y => <<x, y>> \in R
  BY <1>1 DEF OpToRel
<1>4. PICK x \in T : \A y \in T : ~ (<<y, x>> \in R)
  BY <1>2, WFMin, Zenon
<1>5. \A y \in T : x <= y
  <2> TAKE y \in T
  <2>1. x \in Nat /\ y \in Nat
    BY <1>4
  <2>2. ~ (y < x)
    BY <1>3, <1>4, <2>1
  <2> QED
    BY <2>1, <2>2
<1> QED
  BY <1>4, <1>5

(* Min picks an element of a nonempty set of naturals, so a descriptor or   *)
(* slot chosen with it is a free one.                                       *)
LEMMA MinMember ==
    ASSUME NEW T, T \subseteq Nat, T # {}
    PROVE  Min(T) \in T /\ \A y \in T : Min(T) <= y
BY LeastNatural DEF Min

(* Max picks an element of a set that has a greatest one. *)
LEMMA MaxMember ==
    ASSUME NEW T, \E x \in T : \A y \in T : x >= y
    PROVE  Max(T) \in T /\ \A y \in T : Max(T) >= y
BY DEF Max

(* Every natural number has a property that 0 has and that passes from each  *)
(* number to the next: stated for the set of the numbers that have it.       *)
LEMMA NatSetInduction ==
    ASSUME NEW T, 0 \in T, \A n \in Nat : n \in T => n + 1 \in T
    PROVE  \A n \in Nat : n \in T
<1> DEFINE U == {n \in Nat : n \notin T}
<1>1. SUFFICES ASSUME U # {} PROVE FALSE
  OBVIOUS
<1>2. PICK u \in U : \A v \in U : u <= v
  BY <1>1, LeastNatural
<1>3. u \in Nat /\ u # 0 /\ u \notin T
  BY <1>2
<1>4. u - 1 \in Nat /\ u - 1 \in T
  BY <1>2, <1>3
<1> QED
  BY <1>3, <1>4

(* The intermediate results h of a loop over n positions, which starts with  *)
(* base and makes F[i][x] of the result x at position i.                     *)
LoopOf(h, X, n, base, F) ==
    /\ h \in [0 .. n -> X] /\ h[0] = base
    /\ \A i \in 1 .. n : h[i] = F[i][h[i - 1]]

(* Every loop has such results. *)
LEMMA LoopResults ==
    ASSUME NEW X, NEW n \in Nat, NEW base \in X, NEW F \in [1 .. n -> [X -> X]]
    PROVE  \E h : LoopOf(h, X, n, base, F)
<1> DEFINE Upto(h, k) == /\ h \in [0 .. k -> X] /\ h[0] = base
                         /\ \A i \in 1 .. k : h[i] = F[i][h[i - 1]]
           T == {k \in Nat : k <= n => \E h : Upto(h, k)}
<1>1. 0 \in T
  <2>1. PICK g : g = [i \in 0 .. 0 |-> base]
    OBVIOUS
  <2>2. Upto(g, 0)
    BY <2>1
  <2> QED
    BY <2>2
<1>2. ASSUME NEW k \in Nat, k \in T PROVE k + 1 \in T
  <2> SUFFICES ASSUME k + 1 <= n PROVE \E h : Upto(h, k + 1)
    BY DEF T
  <2>1. PICK h : Upto(h, k)
    BY <1>2
  <2>2. PICK g : g = [i \in 0 .. k + 1 |-> IF i <= k THEN h[i] ELSE F[k + 1][h[k]]]
    OBVIOUS
  <2>3. F[k + 1] \in [X -> X] /\ h[k] \in X
    BY <2>1
  <2>4. g \in [0 .. k + 1 -> X] /\ g[0] = base
    BY <2>1, <2>2, <2>3
  <2>5. ASSUME NEW i \in 1 .. k + 1 PROVE g[i] = F[i][g[i - 1]]
    <3>1. i - 1 \in 0 .. k + 1 /\ i - 1 <= k /\ g[i - 1] = h[i - 1]
      BY <2>2
    <3>2. CASE i <= k
      BY <2>1, <2>2, <3>1, <3>2
    <3>3. CASE i = k + 1
      <4>1. i - 1 = k /\ ~(i <= k)
        BY <3>3
      <4> QED
        BY <2>2, <3>1, <3>3, <4>1
    <3> QED
      BY <3>2, <3>3
  <2> QED
    BY <2>4, <2>5
<1>3. n \in T
  <2> HIDE DEF T
  <2>1. \A k \in Nat : k \in T
    BY <1>1, <1>2, NatSetInduction
  <2> QED
    BY <2>1
<1> QED
  BY <1>3 DEF LoopOf

(* Taking an element out of a list moves the ones behind it up. *)
LEMMA RemoveAtFacts ==
    ASSUME NEW S, NEW s \in Seq(S), NEW p \in 1 .. Len(s)
    PROVE  /\ RemoveAt(s, p) \in Seq(S)
           /\ Len(RemoveAt(s, p)) = Len(s) - 1
           /\ \A i \in 1 .. Len(s) - 1 :
                RemoveAt(s, p)[i] = IF i < p THEN s[i] ELSE s[i + 1]
<1>1. PICK a, b : a = SubSeq(s, 1, p - 1) /\ b = SubSeq(s, p + 1, Len(s))
  OBVIOUS
<1>2. /\ a \in Seq(S) /\ Len(a) = p - 1 /\ \A i \in 1 .. p - 1 : a[i] = s[i]
      /\ b \in Seq(S) /\ Len(b) = Len(s) - p /\ \A i \in 1 .. Len(s) - p : b[i] = s[p + i]
  BY <1>1
<1>3. /\ a \o b \in Seq(S) /\ Len(a \o b) = Len(s) - 1
      /\ \A i \in 1 .. Len(s) - 1 :
           (a \o b)[i] = IF i <= p - 1 THEN a[i] ELSE b[i - (p - 1)]
  <2>1. /\ a \o b \in Seq(S) /\ Len(a \o b) = Len(a) + Len(b)
        /\ \A i \in 1 .. Len(a) + Len(b) :
             (a \o b)[i] = IF i <= Len(a) THEN a[i] ELSE b[i - Len(a)]
    BY <1>2, ConcatProperties, Zenon
  <2>2. Len(a) + Len(b) = Len(s) - 1
    BY <1>2
  <2> QED
    BY <1>2, <2>1, <2>2
<1>4. RemoveAt(s, p) = a \o b
  BY <1>1 DEF RemoveAt
<1>5. ASSUME NEW i \in 1 .. Len(s) - 1
      PROVE  (a \o b)[i] = IF i < p THEN s[i] ELSE s[i + 1]
  <2>1. CASE i < p
    BY <1>2, <1>3, <2>1
  <2>2. CASE i >= p
    <3>1. i - (p - 1) \in 1 .. Len(s) - p /\ p + (i - (p - 1)) = i + 1
      BY <2>2
    <3>2. (a \o b)[i] = b[i - (p - 1)]
      BY <1>3, <2>2
    <3> QED
      BY <1>2, <2>2, <3>1, <3>2
  <2>3. i < p \/ i >= p
    OBVIOUS
  <2> QED
    BY <2>1, <2>2, <2>3, Zenon
<1> QED
  BY <1>3, <1>4, <1>5

(* The beginning of a list. *)
LEMMA PrefixFacts ==
    ASSUME NEW S, NEW q \in Seq(S), NEW n \in 0 .. Len(q)
    PROVE  /\ SubSeq(q, 1, n) \in Seq(S) /\ Len(SubSeq(q, 1, n)) = n
           /\ \A i \in 1 .. n : SubSeq(q, 1, n)[i] = q[i]
OBVIOUS

-----------------------------------------------------------------------------
(* Collected entries *)

(* h are the intermediate results of Collected(f, D, n). *)
Collects(h, f, D, n, S) ==
    /\ h \in [0 .. n -> Seq(S)] /\ h[0] = <<>>
    /\ \A i \in 1 .. n : h[i] = IF i - 1 \in D THEN Append(h[i - 1], f[i - 1]) ELSE h[i - 1]

LEMMA CollectedFunction ==
    ASSUME NEW f, NEW D, NEW n \in Nat, NEW S, \A i \in D : f[i] \in S
    PROVE  \E h : Collects(h, f, D, n, S) /\ Collected(f, D, n) = h[n]
<1> DEFINE Body(h, i) == IF i = 0 THEN <<>>
                         ELSE IF i - 1 \in D THEN Append(h[i - 1], f[i - 1]) ELSE h[i - 1]
           Solves(h) == h = [i \in 0 .. n |-> Body(h, i)]
           X == Seq(S)
           F == [i \in 1 .. n |-> [x \in X |-> IF i - 1 \in D THEN Append(x, f[i - 1]) ELSE x]]
<1>1. \A i \in D : \A x \in X : Append(x, f[i]) \in X
  OBVIOUS
<1>2. F \in [1 .. n -> [X -> X]] /\ <<>> \in X
  <2> HIDE DEF X
  <2>1. F \in [1 .. n -> [X -> X]]
    BY <1>1
  <2> QED
    BY <2>1 DEF X
<1>3. PICK g : LoopOf(g, X, n, <<>>, F)
  <2> HIDE DEF F, X
  <2> QED
    BY <1>2, LoopResults, Zenon
<1> USE DEF LoopOf
<1>4. Solves(g)
  <2>1. ASSUME NEW i \in 0 .. n PROVE g[i] = Body(g, i)
    <3>1. CASE i = 0
      BY <1>3, <3>1
    <3>2. CASE i \in 1 .. n
      <4>1. i - 1 \in 0 .. n
        BY <3>2
      <4>2. g[i - 1] \in X
        BY <1>3, <4>1
      <4> HIDE DEF X
      <4> QED
        BY <1>3, <3>2, <4>2
    <3> QED
      BY <3>1, <3>2
  <2> HIDE DEF Body
  <2> QED
    BY <1>3, <2>1
<1>5. PICK h : h = CHOOSE r : Solves(r)
  OBVIOUS
<1>6. Solves(h)
  <2> HIDE DEF Solves
  <2> QED
    BY <1>4, <1>5
<1>7. Collected(f, D, n) = h[n]
  BY <1>5 DEF Collected
<1>8. \A i \in 0 .. n : h[i] = Body(h, i)
  BY <1>6, Zenon
<1>9. h[0] = <<>> /\ \A i \in 1 .. n :
                       h[i] = IF i - 1 \in D THEN Append(h[i - 1], f[i - 1]) ELSE h[i - 1]
  BY <1>8
<1>10. \A i \in 0 .. n : h[i] \in X
  <2> DEFINE T == {i \in Nat : i <= n => h[i] \in X}
  <2>1. 0 \in T
    BY <1>2, <1>9
  <2>2. ASSUME NEW i \in Nat, i \in T PROVE i + 1 \in T
    <3>1. i + 1 <= n => i + 1 \in 1 .. n /\ (i + 1) - 1 = i /\ h[i] \in X
      BY <2>2
    <3> HIDE DEF X
    <3> QED
      BY <1>1, <1>9, <3>1
  <2>3. \A i \in Nat : i \in T
    <3> HIDE DEF T
    <3> QED
      BY <2>1, <2>2, NatSetInduction
  <2> QED
    BY <2>3
<1>11. h \in [0 .. n -> X]
  <2> HIDE DEF X, Body
  <2> QED
    BY <1>6, <1>10
<1> QED
  BY <1>7, <1>9, <1>11 DEF Collects

(* r are the values of f at the numbers of D below n, in order; p says at    *)
(* which number each was found.                                              *)
Picks(r, p, f, D, n) ==
    /\ DOMAIN p = 1 .. Len(r)
    /\ \A i \in 1 .. Len(r) : p[i] \in D /\ p[i] \in 0 .. n - 1 /\ r[i] = f[p[i]]
    /\ \A i, j \in 1 .. Len(r) : i < j => p[i] < p[j]
    /\ \A x \in D : x \in 0 .. n - 1 => \E i \in 1 .. Len(r) : p[i] = x

LEMMA CollectedFacts ==
    ASSUME NEW f, NEW D, NEW n \in Nat, NEW S, \A i \in D : f[i] \in S
    PROVE  /\ Collected(f, D, n) \in Seq(S)
           /\ \E p : Picks(Collected(f, D, n), p, f, D, n)
<1>1. PICK h : Collects(h, f, D, n, S) /\ Collected(f, D, n) = h[n]
  BY CollectedFunction
<1> DEFINE T == {k \in Nat : k <= n => \E p : Picks(h[k], p, f, D, k)}
<1>2. 0 \in T
  <2>1. PICK e : e = <<>>
    OBVIOUS
  <2>2. Len(e) = 0 /\ DOMAIN e = 1 .. Len(e) /\ 1 .. Len(e) = {}
    BY <2>1
  <2>3. 0 .. 0 - 1 = {}
    OBVIOUS
  <2>4. Picks(e, e, f, D, 0)
    BY <2>2, <2>3 DEF Picks
  <2> QED
    BY <1>1, <2>1, <2>4 DEF Collects
<1>3. ASSUME NEW k \in Nat, k \in T PROVE k + 1 \in T
  <2> SUFFICES ASSUME k + 1 <= n PROVE \E p : Picks(h[k + 1], p, f, D, k + 1)
    BY DEF T
  <2>1. k + 1 \in 1 .. n /\ (k + 1) - 1 = k /\ k \in 0 .. n
    OBVIOUS
  <2>2. PICK r : r = h[k]
    OBVIOUS
  <2>3. PICK p : Picks(r, p, f, D, k)
    BY <1>3, <2>1, <2>2
  <2>4. r \in Seq(S) /\ Len(r) \in Nat /\ h[k + 1] = IF k \in D THEN Append(r, f[k]) ELSE r
    BY <1>1, <2>1, <2>2 DEF Collects
  <2>5. CASE k \notin D
    <3>1. \A x \in D : x \in 0 .. (k + 1) - 1 => x \in 0 .. k - 1
      BY <2>5
    <3>2. \A x \in 0 .. k - 1 : x \in 0 .. (k + 1) - 1
      OBVIOUS
    <3>3. Picks(r, p, f, D, k + 1)
      BY <2>3, <3>1, <3>2 DEF Picks
    <3> QED
      BY <2>4, <2>5, <3>3
  <2>6. CASE k \in D
    <3>1. PICK a, q, m : /\ a = Append(r, f[k]) /\ m = Len(r)
                         /\ q = [i \in 1 .. Len(r) + 1 |-> IF i <= Len(r) THEN p[i] ELSE k]
      OBVIOUS
    <3>2. /\ Len(a) = m + 1 /\ m \in Nat /\ a[m + 1] = f[k] /\ \A i \in 1 .. m : a[i] = r[i]
      BY <2>4, <2>6, <3>1
    <3>3. /\ DOMAIN q = 1 .. m + 1 /\ q[m + 1] = k /\ \A i \in 1 .. m : q[i] = p[i]
      BY <2>4, <3>1
    <3>4. \A i \in 1 .. m + 1 : i \in 1 .. m \/ i = m + 1
      BY <3>2
    <3>5. ASSUME NEW i \in 1 .. m + 1
          PROVE  q[i] \in D /\ q[i] \in 0 .. (k + 1) - 1 /\ a[i] = f[q[i]]
      <4>1. CASE i \in 1 .. m
        <5>1. p[i] \in D /\ p[i] \in 0 .. k - 1 /\ r[i] = f[p[i]]
          BY <2>3, <3>1, <4>1 DEF Picks
        <5> QED
          BY <3>2, <3>3, <4>1, <5>1
      <4>2. CASE i = m + 1
        BY <2>6, <3>2, <3>3, <4>2
      <4> QED
        BY <3>4, <4>1, <4>2
    <3>6. ASSUME NEW i \in 1 .. m + 1, NEW j \in 1 .. m + 1, i < j PROVE q[i] < q[j]
      <4>1. i \in 1 .. m
        BY <3>2, <3>6
      <4>2. p[i] \in 0 .. k - 1
        BY <2>3, <3>1, <4>1 DEF Picks
      <4>3. CASE j \in 1 .. m
        <5>1. p[i] < p[j]
          BY <2>3, <3>1, <3>6, <4>1, <4>3 DEF Picks
        <5> QED
          BY <3>3, <4>1, <4>3, <5>1
      <4>4. CASE j = m + 1
        BY <3>3, <4>1, <4>2, <4>4
      <4> QED
        BY <3>4, <4>3, <4>4
    <3>7. ASSUME NEW x \in D, x \in 0 .. (k + 1) - 1 PROVE \E i \in 1 .. m + 1 : q[i] = x
      <4>1. CASE x = k
        <5>1. m + 1 \in 1 .. m + 1
          BY <3>2
        <5> QED
          BY <3>3, <4>1, <5>1
      <4>2. CASE x # k
        <5>1. x \in 0 .. k - 1
          BY <3>7, <4>2
        <5>2. PICK i \in 1 .. m : p[i] = x
          BY <2>3, <3>1, <5>1 DEF Picks
        <5>3. i \in 1 .. m + 1
          BY <3>2
        <5> QED
          BY <3>3, <5>2, <5>3
      <4> QED
        BY <4>1, <4>2
    <3>8. Picks(a, q, f, D, k + 1)
      BY <3>2, <3>3, <3>5, <3>6, <3>7 DEF Picks
    <3> QED
      BY <2>4, <2>6, <3>1, <3>8
  <2> QED
    BY <2>5, <2>6
<1>4. n \in T
  <2> HIDE DEF T
  <2>1. \A k \in Nat : k \in T
    BY <1>2, <1>3, NatSetInduction
  <2> QED
    BY <2>1
<1> QED
  BY <1>1, <1>4 DEF Collects

Lesser(a, b) == IF a < b THEN a ELSE b

(* The entries 0 to m - 1 are there: the first n of them are collected. *)
LEMMA CollectedFirst ==
    ASSUME NEW f, NEW m \in Nat, NEW n \in Nat, NEW S, \A i \in 0 .. m - 1 : f[i] \in S
    PROVE  /\ Collected(f, 0 .. m - 1, n) \in Seq(S)
           /\ Len(Collected(f, 0 .. m - 1, n)) = Lesser(m, n)
           /\ \A i \in 1 .. Lesser(m, n) : Collected(f, 0 .. m - 1, n)[i] = f[i - 1]
<1>1. PICK h : Collects(h, f, 0 .. m - 1, n, S) /\ Collected(f, 0 .. m - 1, n) = h[n]
  BY CollectedFunction
<1> DEFINE Good(r, k) == Len(r) = Lesser(m, k) /\ \A i \in 1 .. Lesser(m, k) : r[i] = f[i - 1]
           T == {k \in Nat : k <= n => Good(h[k], k)}
<1>2. 0 \in T
  <2>1. PICK e : e = <<>>
    OBVIOUS
  <2>2. Len(e) = 0 /\ Lesser(m, 0) = 0 /\ 1 .. 0 = {}
    BY <2>1 DEF Lesser
  <2>3. Good(e, 0)
    BY <2>2
  <2> QED
    BY <1>1, <2>1, <2>3 DEF Collects
<1>3. ASSUME NEW k \in Nat, k \in T PROVE k + 1 \in T
  <2> SUFFICES ASSUME k + 1 <= n PROVE Good(h[k + 1], k + 1)
    BY DEF T
  <2>1. k + 1 \in 1 .. n /\ (k + 1) - 1 = k /\ k \in 0 .. n
    OBVIOUS
  <2>2. PICK r : r = h[k]
    OBVIOUS
  <2>3. Good(r, k)
    BY <1>3, <2>1, <2>2
  <2>4. r \in Seq(S) /\ h[k + 1] = IF k \in 0 .. m - 1 THEN Append(r, f[k]) ELSE r
    BY <1>1, <2>1, <2>2 DEF Collects
  <2>5. CASE k \notin 0 .. m - 1
    <3>1. Lesser(m, k) = m /\ Lesser(m, k + 1) = m
      BY <2>5 DEF Lesser
    <3> QED
      BY <2>3, <2>4, <2>5, <3>1
  <2>6. CASE k \in 0 .. m - 1
    <3>1. Lesser(m, k) = k /\ Lesser(m, k + 1) = k + 1
      BY <2>6 DEF Lesser
    <3>2. PICK a, v : a = Append(r, v) /\ v = f[k]
      OBVIOUS
    <3>3. Len(r) = k /\ \A i \in 1 .. k : r[i] = f[i - 1]
      BY <2>3, <3>1
    <3>4. v \in S
      BY <2>6, <3>2
    <3>5. Len(a) = k + 1 /\ a[k + 1] = v /\ \A i \in 1 .. k : a[i] = r[i]
      BY <2>4, <3>2, <3>3, <3>4
    <3>6. \A i \in 1 .. k + 1 : a[i] = f[i - 1]
      <4> TAKE i \in 1 .. k + 1
      <4>1. CASE i \in 1 .. k
        BY <3>3, <3>5, <4>1
      <4>2. CASE i = k + 1
        <5>1. i - 1 = k
          BY <4>2
        <5> QED
          BY <3>2, <3>5, <4>2, <5>1
      <4> QED
        BY <4>1, <4>2
    <3> QED
      BY <2>4, <2>6, <3>1, <3>2, <3>5, <3>6
  <2> QED
    BY <2>5, <2>6
<1>4. n \in T
  <2> HIDE DEF T
  <2>1. \A k \in Nat : k \in T
    BY <1>2, <1>3, NatSetInduction
  <2> QED
    BY <2>1
<1> QED
  BY <1>1, <1>4 DEF Collects

-----------------------------------------------------------------------------
(* Passwords *)

(* The running state of psycrypt(). *)
Code == [p1 : Nat, p2 : Nat, t1 : Int, t2 : Int, out : Seq(Int)]

(* It differs in what has been written only. *)
Alike(a, b) == a.p1 = b.p1 /\ a.p2 = b.p2 /\ a.t1 = b.t1 /\ a.t2 = b.t2

LEMMA WrappedFacts ==
    ASSUME NEW s \in Code
    PROVE  /\ Wrapped(s) \in Code /\ Wrapped(s).out = s.out
           /\ Wrapped(s).t1 = IF s.t1 \in 0 .. 255 THEN s.t1 ELSE CODE1
           /\ Wrapped(s).t2 = IF s.t2 \in 0 .. 255 THEN s.t2 ELSE CODE2
           /\ Wrapped(s).p1 = IF s.p1 < Len(slt1) THEN s.p1 ELSE 0
           /\ Wrapped(s).p2 = IF s.p2 < Len(slt2) THEN s.p2 ELSE 0
           /\ Shift(Wrapped(s)) \in Int
           /\ Wrapped(s).t1 \in 0 .. 255 /\ Wrapped(s).t2 \in 0 .. 255
           /\ Wrapped(s).p1 + 1 \in DOMAIN slt1 /\ Wrapped(s).p2 + 1 \in DOMAIN slt2
<1>1. PICK a, b, c, d, o : /\ a = s.p1 /\ b = s.p2 /\ c = s.t1 /\ d = s.t2 /\ o = s.out
  OBVIOUS
<1>2. a \in Nat /\ b \in Nat /\ c \in Int /\ d \in Int /\ o \in Seq(Int)
  BY <1>1 DEF Code
<1>3. PICK w : w = [p1 |-> IF a < Len(slt1) THEN a ELSE 0, p2 |-> IF b < Len(slt2) THEN b ELSE 0,
                    t1 |-> IF c \in 0 .. 255 THEN c ELSE CODE1,
                    t2 |-> IF d \in 0 .. 255 THEN d ELSE CODE2, out |-> o]
  OBVIOUS
<1>4. Wrapped(s) = w
  BY <1>1, <1>3, Zenon DEF Wrapped
<1>5. /\ slt1 \in Seq(1 .. 127) /\ slt2 \in Seq(1 .. 127) /\ Len(slt1) > 0 /\ Len(slt2) > 0
      /\ Len(slt1) \in Nat /\ Len(slt2) \in Nat
      /\ CODE1 \in 0 .. 255 /\ CODE2 \in 0 .. 255
  BY PsyCryptAssumption, EmptySeq
<1>6. /\ w.t1 = (IF c \in 0 .. 255 THEN c ELSE CODE1) /\ w.t1 \in 0 .. 255
      /\ w.t2 = (IF d \in 0 .. 255 THEN d ELSE CODE2) /\ w.t2 \in 0 .. 255
      /\ w.p1 = (IF a < Len(slt1) THEN a ELSE 0) /\ w.p1 \in 0 .. Len(slt1) - 1
      /\ w.p2 = (IF b < Len(slt2) THEN b ELSE 0) /\ w.p2 \in 0 .. Len(slt2) - 1
      /\ w.out = o
  BY <1>2, <1>3, <1>5
<1>7. w.p1 + 1 \in DOMAIN slt1 /\ w.p2 + 1 \in DOMAIN slt2
  BY <1>5, <1>6
<1>8. slt1[w.p1 + 1] \in 1 .. 127 /\ slt2[w.p2 + 1] \in 1 .. 127
  BY <1>5, <1>7
<1>9. Shift(w) \in Int
  <2>1. PICK x, y : x = slt1[w.p1 + 1] /\ y = slt2[w.p2 + 1]
    OBVIOUS
  <2>2. x \in 1 .. 127 /\ y \in 1 .. 127 /\ w.t1 \in 0 .. 255 /\ w.t2 \in 0 .. 255
    BY <1>6, <1>8, <2>1, Zenon
  <2>3. PICK t, u : t = w.t1 /\ u = w.t2
    OBVIOUS
  <2>4. Shift(w) = x + t - y + u
    BY <2>1, <2>3 DEF Shift
  <2>5. x \in Int /\ y \in Int /\ t \in Int /\ u \in Int
    BY <2>2, <2>3
  <2> QED
    BY <2>4, <2>5
<1>10. w \in Code
  BY <1>2, <1>3, <1>5 DEF Code
<1> QED
  BY <1>1, <1>4, <1>6, <1>7, <1>9, <1>10

LEMMA MovedFacts ==
    ASSUME NEW s \in Code, NEW res \in Int, NEW o \in Seq(Int)
    PROVE  /\ Moved(s, res, o) \in Code /\ Moved(s, res, o).out = s.out \o o
           /\ Moved(s, res, o).t1 = s.t1 - 1 /\ Moved(s, res, o).t2 = s.t2 + res \div 10
           /\ Moved(s, res, o).p1 = s.p1 + 1 /\ Moved(s, res, o).p2 = s.p2 + 1
<1>1. PICK a, b, c, d, q, x : /\ a = s.p1 /\ b = s.p2 /\ c = s.t1 /\ d = s.t2 /\ q = s.out
                              /\ x = res \div 10
  OBVIOUS
<1>2. a \in Nat /\ b \in Nat /\ c \in Int /\ d \in Int /\ q \in Seq(Int) /\ x \in Int
  BY <1>1 DEF Code
<1>3. PICK w : w = [p1 |-> a + 1, p2 |-> b + 1, t1 |-> c - 1, t2 |-> d + x, out |-> q \o o]
  OBVIOUS
<1>4. Moved(s, res, o) = w
  BY <1>1, <1>3, Zenon DEF Moved
<1>5. q \o o \in Seq(Int)
  BY <1>2
<1>6. w \in Code
  BY <1>2, <1>3, <1>5 DEF Code
<1> QED
  BY <1>1, <1>3, <1>4, <1>6

LEMMA AlikeShift ==
    ASSUME NEW a \in Code, NEW b \in Code, Alike(a, b)
    PROVE  Alike(Wrapped(a), Wrapped(b)) /\ Shift(Wrapped(a)) = Shift(Wrapped(b))
<1>1. Alike(Wrapped(a), Wrapped(b))
  <2>1. PICK v, w : v = Wrapped(a) /\ w = Wrapped(b)
    OBVIOUS
  <2>2. /\ v.t1 = IF a.t1 \in 0 .. 255 THEN a.t1 ELSE CODE1
        /\ v.t2 = IF a.t2 \in 0 .. 255 THEN a.t2 ELSE CODE2
        /\ v.p1 = IF a.p1 < Len(slt1) THEN a.p1 ELSE 0
        /\ v.p2 = IF a.p2 < Len(slt2) THEN a.p2 ELSE 0
    BY <2>1, WrappedFacts
  <2>3. /\ w.t1 = IF b.t1 \in 0 .. 255 THEN b.t1 ELSE CODE1
        /\ w.t2 = IF b.t2 \in 0 .. 255 THEN b.t2 ELSE CODE2
        /\ w.p1 = IF b.p1 < Len(slt1) THEN b.p1 ELSE 0
        /\ w.p2 = IF b.p2 < Len(slt2) THEN b.p2 ELSE 0
    BY <2>1, WrappedFacts
  <2> QED
    BY <2>1, <2>2, <2>3, Zenon DEF Alike
<1> QED
  BY <1>1 DEF Alike, Shift

(* The numbers two digits of base 67 can write. *)
TwoDigits == 0 .. 4488

(* Two digits give the number back. *)
LEMMA HashdotFacts ==
    ASSUME NEW r \in Int
    PROVE  /\ hashdot(r) \in Seq(Int) /\ Len(hashdot(r)) = 2
           /\ hashdot(r)[1] = r \div 67 /\ hashdot(r)[2] = r % 67
           /\ unhashdot(hashdot(r)[1], hashdot(r)[2]) = r
           /\ r \in TwoDigits => hashdot(r)[1] \in 0 .. 66 /\ hashdot(r)[2] \in 0 .. 66
<1>1. PICK a, b, d : a = r \div 67 /\ b = r % 67 /\ d = <<a, b>>
  OBVIOUS
<1>2. a \in Int /\ b \in 0 .. 66 /\ r = 67 * a + b
  BY <1>1
<1>3. d \in Seq(Int) /\ Len(d) = 2 /\ d[1] = a /\ d[2] = b
  BY <1>1, <1>2
<1>4. hashdot(r) = d
  BY <1>1 DEF hashdot, baselen
<1>5. unhashdot(a, b) = r
  BY <1>2 DEF unhashdot, baselen
<1>6. r \in TwoDigits => a \in 0 .. 66
  BY <1>2 DEF TwoDigits
<1>7. hashdot(r) \in Seq(Int) /\ Len(hashdot(r)) = 2 /\ hashdot(r)[1] = a /\ hashdot(r)[2] = b
  BY <1>3, <1>4
<1>8. unhashdot(hashdot(r)[1], hashdot(r)[2]) = r
  BY <1>5, <1>7, Zenon
<1>9. r \in TwoDigits => hashdot(r)[1] \in 0 .. 66 /\ hashdot(r)[2] \in 0 .. 66
  <2>1. b \in 0 .. 66
    BY <1>2
  <2> QED
    BY <1>6, <1>7, <2>1, SMT
<1> QED
  BY <1>1, <1>7, <1>8, <1>9, Zenon

(* The number psycrypt() makes of a character. *)
Coded(s, ch) == ch + Shift(Wrapped(s))

(* One character: encrypting and decrypting move the state alike. *)
LEMMA CipherStep ==
    ASSUME NEW s \in Code, NEW ch \in 1 .. 127
    PROVE  /\ Coded(s, ch) \in Int /\ Ciphered(s, ch) \in Code
           /\ Ciphered(s, ch).out = s.out \o hashdot(Coded(s, ch))
           /\ s.t2 >= CODE2 => Coded(s, ch) \in TwoDigits /\ Ciphered(s, ch).t2 >= CODE2
<1>0. PICK r : r = ch + Shift(Wrapped(s))
  OBVIOUS
<1>1. PICK w, d, x : w = Wrapped(s) /\ d = hashdot(r) /\ x = Ciphered(s, ch) /\ r = ch + Shift(w)
  BY <1>0
<1>2. w \in Code /\ Shift(w) \in Int /\ w.out = s.out
  BY <1>1, WrappedFacts
<1>3. r \in Int /\ ch \in Int
  BY <1>1, <1>2
<1>4. d \in Seq(Int)
  BY <1>1, <1>3, HashdotFacts
<1>5. x = Moved(w, ch, d)
  BY <1>1 DEF Ciphered
<1>6. x \in Code /\ x.out = w.out \o d /\ x.t2 = w.t2 + ch \div 10
  BY <1>2, <1>3, <1>4, <1>5, MovedFacts
<1>7. ASSUME s.t2 >= CODE2 PROVE r \in TwoDigits /\ x.t2 >= CODE2
  <2>1. /\ w.t1 \in 0 .. 255 /\ w.t2 \in 0 .. 255
        /\ w.t2 = IF s.t2 \in 0 .. 255 THEN s.t2 ELSE CODE2
        /\ w.p1 + 1 \in DOMAIN slt1 /\ w.p2 + 1 \in DOMAIN slt2
    BY <1>1, WrappedFacts
  <2>2. PICK a, b : a = slt1[w.p1 + 1] /\ b = slt2[w.p2 + 1]
    OBVIOUS
  <2>3. a \in 1 .. 127 /\ b \in 1 .. 127 /\ b <= a + CODE2 /\ CODE2 \in 0 .. 255
    BY <2>1, <2>2, PsyCryptAssumption
  <2>4. r = ch + (a + w.t1 - b + w.t2)
    BY <1>1, <2>2 DEF Shift
  <2>5. w.t2 >= CODE2
    BY <1>7, <2>1, <2>3
  <2>6. ch \div 10 \in 0 .. 12
    OBVIOUS
  <2>7. PICK t, u, z : t = w.t1 /\ u = w.t2 /\ z = ch \div 10
    OBVIOUS
  <2>8. r = ch + (a + t - b + u) /\ t \in 0 .. 255 /\ u \in 0 .. 255 /\ u >= CODE2
        /\ x.t2 = u + z /\ z \in 0 .. 12
    BY <1>6, <2>1, <2>4, <2>5, <2>6, <2>7
  <2>9. r \in TwoDigits
    BY <2>3, <2>8 DEF TwoDigits
  <2>10. x.t2 >= CODE2
    BY <2>3, <2>8
  <2> QED
    BY <2>9, <2>10
<1>8. Coded(s, ch) = r
  BY <1>0 DEF Coded
<1> QED
  BY <1>1, <1>2, <1>3, <1>6, <1>7, <1>8, Zenon

LEMMA DecipherStep ==
    ASSUME NEW s \in Code, NEW c \in Code, Alike(s, c), NEW ch \in 1 .. 127, NEW d,
           d = hashdot(Coded(c, ch))
    PROVE  /\ Deciphered(s, d) \in Code /\ Alike(Deciphered(s, d), Ciphered(c, ch))
           /\ Deciphered(s, d).out = Append(s.out, ch)
<1>1. PICK w, v, r : w = Wrapped(s) /\ v = Wrapped(c) /\ r = ch + Shift(v)
  OBVIOUS
<1>2. /\ w \in Code /\ v \in Code /\ Shift(w) \in Int /\ Shift(v) = Shift(w) /\ w.out = s.out
      /\ Alike(w, v)
  BY <1>1, WrappedFacts, AlikeShift
<1>3. r \in Int /\ ch \in Int
  BY <1>1, <1>2
<1>4. d \in Seq(Int) /\ unhashdot(d[1], d[2]) = r
  <2>1. d = hashdot(r)
    BY <1>1, Zenon DEF Coded
  <2> QED
    BY <1>3, <2>1, HashdotFacts, Zenon
<1>5. r - Shift(w) = ch
  BY <1>1, <1>2, <1>3
<1>6. PICK x, y, o : x = Deciphered(s, d) /\ y = Ciphered(c, ch) /\ o = <<ch>>
  OBVIOUS
<1>7. x = Moved(w, ch, o) /\ y = Moved(v, ch, d)
  <2>1. x = Moved(w, ch, o)
    BY <1>1, <1>4, <1>5, <1>6 DEF Deciphered
  <2>2. d = hashdot(ch + Shift(v))
    BY <1>1, Zenon DEF Coded
  <2>3. y = Moved(v, ch, d)
    BY <1>1, <1>6, <2>2 DEF Ciphered
  <2> QED
    BY <2>1, <2>3
<1>8. o \in Seq(Int)
  BY <1>3, <1>6
<1>9. x \in Code /\ x.out = w.out \o o /\ Alike(x, y)
  <2>1. /\ x \in Code /\ x.out = w.out \o o
        /\ x.t1 = w.t1 - 1 /\ x.t2 = w.t2 + ch \div 10 /\ x.p1 = w.p1 + 1 /\ x.p2 = w.p2 + 1
    BY <1>2, <1>3, <1>7, <1>8, MovedFacts
  <2>2. y.t1 = v.t1 - 1 /\ y.t2 = v.t2 + ch \div 10 /\ y.p1 = v.p1 + 1 /\ y.p2 = v.p2 + 1
    BY <1>2, <1>3, <1>4, <1>7, MovedFacts
  <2> QED
    BY <1>2, <2>1, <2>2, Zenon DEF Alike
<1>10. s.out \o o = Append(s.out, ch)
  <2>1. s.out \in Seq(Int)
    BY DEF Code
  <2> QED
    BY <1>3, <1>6, <2>1
<1> QED
  BY <1>2, <1>6, <1>9, <1>10

(* The states h of psycrypt() while it encrypts seq, or decrypts it. *)
Runs(h, de, seq, n) ==
    /\ h \in [0 .. n -> Code] /\ h[0] = Started
    /\ \A i \in 1 .. n : h[i] = IF de THEN Deciphered(h[i - 1], seq[i])
                                ELSE Ciphered(h[i - 1], seq[i])

LEMMA StartedFacts == Started \in Code /\ Started.t2 >= CODE2 /\ Started.out = <<>>
<1>1. PICK a, b : a = CODE1 /\ b = CODE2
  OBVIOUS
<1>2. a \in Int /\ b \in Int /\ SA1 \in Nat /\ SA2 \in Nat
  BY <1>1, PsyCryptAssumption
<1>3. Started = [p1 |-> SA1, p2 |-> SA2, t1 |-> a, t2 |-> b, out |-> <<>>]
  BY <1>1, Zenon DEF Started
<1>4. <<>> \in Seq(Int)
  OBVIOUS
<1> QED
  BY <1>1, <1>2, <1>3, <1>4 DEF Code

(* The loop has these states: what it makes of a state is a state. *)
LEMMA LoopFunction ==
    ASSUME NEW de \in BOOLEAN, NEW seq, NEW n \in Nat, Len(seq) = n,
           \A i \in 1 .. n : \A s \in Code :
             IF de THEN Deciphered(s, seq[i]) \in Code ELSE Ciphered(s, seq[i]) \in Code
    PROVE  \E h : Runs(h, de, seq, n) /\ Loop(de, seq) = h[n]
<1> DEFINE Next1(s, i) == IF de THEN Deciphered(s, seq[i]) ELSE Ciphered(s, seq[i])
           Body(h, i) == IF i = 0 THEN Started ELSE Next1(h[i - 1], i)
           Solves(h) == h = [i \in 0 .. n |-> Body(h, i)]
           F == [i \in 1 .. n |-> [s \in Code |-> Next1(s, i)]]
<1>1. \A i \in 1 .. n : \A s \in Code : Next1(s, i) \in Code
  OBVIOUS
<1>2. F \in [1 .. n -> [Code -> Code]] /\ Started \in Code
  <2> HIDE DEF Next1
  <2> QED
    BY <1>1, StartedFacts
<1>3. PICK g : LoopOf(g, Code, n, Started, F)
  <2> HIDE DEF F
  <2> QED
    BY <1>2, LoopResults, Zenon
<1>4. Solves(g)
  <2> HIDE DEF Next1
  <2>1. ASSUME NEW i \in 0 .. n PROVE g[i] = Body(g, i)
    <3>1. CASE i = 0
      BY <1>3, <3>1 DEF LoopOf
    <3>2. CASE i \in 1 .. n
      <4>1. i - 1 \in 0 .. n /\ i # 0
        BY <3>2
      <4>2. g[i - 1] \in Code
        BY <1>3, <4>1 DEF LoopOf
      <4>3. g[i] = F[i][g[i - 1]]
        BY <1>3, <3>2 DEF LoopOf
      <4> QED
        BY <3>2, <4>1, <4>2, <4>3
    <3> QED
      BY <3>1, <3>2
  <2> HIDE DEF Body
  <2> QED
    BY <1>3, <2>1 DEF LoopOf
<1>5. PICK h : h = CHOOSE r : Solves(r)
  OBVIOUS
<1>6. Solves(h)
  <2> HIDE DEF Solves
  <2> QED
    BY <1>4, <1>5
<1>7. Loop(de, seq) = h[n]
  BY <1>5, Zenon DEF Loop
<1>8. \A i \in 0 .. n : h[i] = Body(h, i)
  BY <1>6, Zenon
<1>9. h[0] = Started /\ \A i \in 1 .. n : h[i] = Next1(h[i - 1], i)
  <2> HIDE DEF Next1
  <2> QED
    BY <1>8
<1>10. \A i \in 0 .. n : h[i] \in Code
  <2> DEFINE T == {i \in Nat : i <= n => h[i] \in Code}
  <2>1. 0 \in T
    BY <1>2, <1>9
  <2>2. ASSUME NEW i \in Nat, i \in T PROVE i + 1 \in T
    <3>1. i + 1 <= n => i + 1 \in 1 .. n /\ (i + 1) - 1 = i /\ h[i] \in Code
      BY <2>2
    <3> HIDE DEF Next1
    <3> QED
      BY <1>1, <1>9, <3>1
  <2>3. \A i \in Nat : i \in T
    <3> HIDE DEF T
    <3> QED
      BY <2>1, <2>2, NatSetInduction
  <2> QED
    BY <2>3
<1>11. h \in [0 .. n -> Code]
  <2> HIDE DEF Body
  <2> QED
    BY <1>6, <1>10
<1> QED
  BY <1>7, <1>9, <1>11, Zenon DEF Runs

(* What encrypting has written of the characters before. *)
Digits(s, h, p, k) ==
    /\ Len(s.out) = 2 * k /\ s.t2 >= CODE2
    /\ \A i \in 1 .. k :
         /\ s.out[2 * i - 1] = hashdot(Coded(h[i - 1], p[i]))[1]
         /\ s.out[2 * i] = hashdot(Coded(h[i - 1], p[i]))[2]
         /\ s.out[2 * i - 1] \in 0 .. 66 /\ s.out[2 * i] \in 0 .. 66

LEMMA AppendedPair ==
    ASSUME NEW k \in Nat, NEW o \in Seq(Int), Len(o) = 2 * k, NEW d \in Seq(Int), Len(d) = 2
    PROVE  /\ Len(o \o d) = 2 * (k + 1)
           /\ (o \o d)[2 * (k + 1) - 1] = d[1] /\ (o \o d)[2 * (k + 1)] = d[2]
           /\ \A i \in 1 .. k : (o \o d)[2 * i - 1] = o[2 * i - 1] /\ (o \o d)[2 * i] = o[2 * i]
<1>1. PICK c, m : c = o \o d /\ m = 2 * k
  OBVIOUS
<1>2. m \in Nat /\ 2 * (k + 1) = m + 2
  BY <1>1
<1>3. /\ Len(c) = m + 2
      /\ \A j \in 1 .. m + 2 : c[j] = IF j <= m THEN o[j] ELSE d[j - m]
  <2>1. Len(o) = m
    BY <1>1
  <2>2. /\ Len(c) = Len(o) + Len(d)
        /\ \A j \in 1 .. Len(o) + Len(d) : c[j] = IF j <= Len(o) THEN o[j] ELSE d[j - Len(o)]
    BY <1>1, ConcatProperties, Zenon
  <2> QED
    BY <2>1, <2>2
<1>4. c[m + 1] = d[1] /\ c[m + 2] = d[2]
  <2>1. m + 1 \in 1 .. m + 2 /\ m + 2 \in 1 .. m + 2 /\ ~ (m + 1 <= m) /\ ~ (m + 2 <= m)
        /\ (m + 1) - m = 1 /\ (m + 2) - m = 2
    BY <1>2
  <2> QED
    BY <1>3, <2>1
<1>5. \A i \in 1 .. k : c[2 * i - 1] = o[2 * i - 1] /\ c[2 * i] = o[2 * i]
  <2> TAKE i \in 1 .. k
  <2>1. PICK j : j = 2 * i
    OBVIOUS
  <2>2. j \in 2 .. m
    BY <1>1, <2>1
  <2>3. j \in 1 .. m + 2 /\ j - 1 \in 1 .. m + 2 /\ j <= m /\ j - 1 <= m
    BY <1>2, <2>2
  <2> QED
    BY <1>3, <2>1, <2>3
<1>6. 2 * (k + 1) - 1 = m + 1
  BY <1>1, <1>2
<1> QED
  BY <1>1, <1>2, <1>3, <1>4, <1>5, <1>6

LEMMA Encrypts ==
    ASSUME NEW n \in Nat, NEW p \in Seq(1 .. 127), Len(p) = n
    PROVE  \E h : /\ Runs(h, FALSE, p, n) /\ Loop(FALSE, p) = h[n]
                  /\ Digits(h[n], h, p, n)
<1>1. \A i \in 1 .. n : p[i] \in 1 .. 127
  BY ElementOfSeq, Zenon
<1>2. \A i \in 1 .. n : \A s \in Code : Ciphered(s, p[i]) \in Code
  <2> TAKE i \in 1 .. n
  <2> TAKE s \in Code
  <2> QED
    BY <1>1, CipherStep, Zenon
<1>3. PICK h : Runs(h, FALSE, p, n) /\ Loop(FALSE, p) = h[n]
  BY <1>2, LoopFunction
<1> DEFINE T == {k \in Nat : k <= n => Digits(h[k], h, p, k)}
<1>4. 0 \in T
  <2>1. h[0].out = <<>> /\ h[0].t2 >= CODE2
    BY <1>3, StartedFacts DEF Runs
  <2>2. Len(h[0].out) = 2 * 0 /\ 1 .. 0 = {}
    BY <2>1
  <2> QED
    BY <2>1, <2>2 DEF Digits
<1>5. ASSUME NEW k \in Nat, k \in T PROVE k + 1 \in T
  <2> SUFFICES ASSUME k + 1 <= n PROVE Digits(h[k + 1], h, p, k + 1)
    OBVIOUS
  <2>1. k + 1 \in 1 .. n /\ (k + 1) - 1 = k /\ k \in 0 .. n
    OBVIOUS
  <2>2. PICK s, x, ch : s = h[k] /\ x = h[k + 1] /\ ch = p[k + 1]
    OBVIOUS
  <2>3. PICK r : r = Coded(s, ch)
    OBVIOUS
  <2>4. s \in Code /\ ch \in 1 .. 127 /\ x = Ciphered(s, ch)
    BY <1>1, <1>3, <2>1, <2>2 DEF Runs
  <2>5. Digits(s, h, p, k)
    BY <1>5, <2>1, <2>2
  <2>6. s.t2 >= CODE2 /\ Len(s.out) = 2 * k /\ s.out \in Seq(Int)
    BY <2>4, <2>5 DEF Digits, Code
  <2>7. r \in TwoDigits /\ x.t2 >= CODE2 /\ x.out = s.out \o hashdot(r)
    BY <2>3, <2>4, <2>6, CipherStep, Zenon
  <2>8. PICK d, o, q : d = hashdot(r) /\ o = s.out /\ q = x.out
    OBVIOUS
  <2>9. d \in Seq(Int) /\ Len(d) = 2 /\ d[1] \in 0 .. 66 /\ d[2] \in 0 .. 66
    <3>1. r \in Int
      BY <2>7 DEF TwoDigits
    <3> QED
      BY <2>7, <2>8, <3>1, HashdotFacts, Zenon
  <2>10. q = o \o d /\ o \in Seq(Int) /\ Len(o) = 2 * k
    BY <2>6, <2>7, <2>8
  <2>11. /\ Len(q) = 2 * (k + 1) /\ q[2 * (k + 1) - 1] = d[1] /\ q[2 * (k + 1)] = d[2]
         /\ \A i \in 1 .. k : q[2 * i - 1] = o[2 * i - 1] /\ q[2 * i] = o[2 * i]
    BY <2>9, <2>10, AppendedPair
  <2>12. d = hashdot(Coded(h[(k + 1) - 1], p[k + 1]))
    BY <2>1, <2>2, <2>3, <2>8
  <2>13. ASSUME NEW i \in 1 .. k + 1
         PROVE  /\ q[2 * i - 1] = hashdot(Coded(h[i - 1], p[i]))[1]
                /\ q[2 * i] = hashdot(Coded(h[i - 1], p[i]))[2]
                /\ q[2 * i - 1] \in 0 .. 66 /\ q[2 * i] \in 0 .. 66
    <3>1. CASE i = k + 1
      BY <2>9, <2>11, <2>12, <3>1, Zenon
    <3>2. CASE i \in 1 .. k
      <4>1. /\ o[2 * i - 1] = hashdot(Coded(h[i - 1], p[i]))[1]
            /\ o[2 * i] = hashdot(Coded(h[i - 1], p[i]))[2]
            /\ o[2 * i - 1] \in 0 .. 66 /\ o[2 * i] \in 0 .. 66
        BY <2>5, <2>8, <3>2 DEF Digits
      <4>2. q[2 * i - 1] = o[2 * i - 1] /\ q[2 * i] = o[2 * i]
        BY <2>11, <3>2
      <4> QED
        BY <4>1, <4>2, Zenon
    <3>3. i = k + 1 \/ i \in 1 .. k
      OBVIOUS
    <3> QED
      BY <3>1, <3>2, <3>3, Zenon
  <2>14. Digits(x, h, p, k + 1)
    <3>1. Len(x.out) = 2 * (k + 1) /\ x.t2 >= CODE2
      BY <2>7, <2>8, <2>11
    <3>2. \A i \in 1 .. k + 1 :
             /\ x.out[2 * i - 1] = hashdot(Coded(h[i - 1], p[i]))[1]
             /\ x.out[2 * i] = hashdot(Coded(h[i - 1], p[i]))[2]
             /\ x.out[2 * i - 1] \in 0 .. 66 /\ x.out[2 * i] \in 0 .. 66
      BY <2>8, <2>13, Zenon
    <3> QED
      BY <3>1, <3>2, Zenon DEF Digits
  <2> QED
    BY <2>2, <2>14
<1>6. n \in T
  <2> HIDE DEF T
  <2>1. \A k \in Nat : k \in T
    BY <1>4, <1>5, NatSetInduction
  <2> QED
    BY <2>1
<1>7. Digits(h[n], h, p, n)
  <2>1. n <= n
    OBVIOUS
  <2> QED
    BY <1>6, <2>1, Zenon
<1> QED
  BY <1>3, <1>7, Zenon

(* What decrypting has written so far is the beginning of the text. *)
Plaintext(s, p, k) == Len(s.out) = k /\ \A i \in 1 .. k : s.out[i] = p[i]

LEMMA DecipherType ==
    ASSUME NEW s \in Code, NEW a \in Int, NEW b \in Int
    PROVE  Deciphered(s, <<a, b>>) \in Code
<1>1. PICK w, e : w = Wrapped(s) /\ e = unhashdot(a, b) - Shift(w)
  OBVIOUS
<1>2. w \in Code /\ Shift(w) \in Int
  BY <1>1, WrappedFacts
<1>3. e \in Int
  BY <1>1, <1>2 DEF unhashdot, baselen
<1>4. Deciphered(s, <<a, b>>) = Moved(w, e, <<e>>)
  BY <1>1 DEF Deciphered
<1>5. <<e>> \in Seq(Int)
  BY <1>3
<1> QED
  BY <1>2, <1>3, <1>4, <1>5, MovedFacts

(* h are the states while p was encrypted, d the pairs of digits it wrote. *)
Codes(d, h, p, n) ==
    /\ n \in Nat /\ p \in Seq(1 .. 127) /\ Len(p) = n /\ Len(d) = n
    /\ h \in [0 .. n -> Code] /\ h[0] = Started
    /\ \A i \in 1 .. n : /\ h[i] = Ciphered(h[i - 1], p[i])
                         /\ d[i] = hashdot(Coded(h[i - 1], p[i]))

LEMMA Decrypts ==
    ASSUME NEW n, NEW p, NEW h, NEW d, Codes(d, h, p, n)
    PROVE  Loop(TRUE, d).out = p
<1>0. n \in Nat /\ p \in Seq(1 .. 127) /\ Len(p) = n /\ Len(d) = n /\ h[0] = Started
  BY DEF Codes
<1>1. \A i \in 1 .. n : p[i] \in 1 .. 127 /\ h[i - 1] \in Code /\ h[i] = Ciphered(h[i - 1], p[i])
  <2> TAKE i \in 1 .. n
  <2>1. p[i] \in 1 .. 127
    BY <1>0, ElementOfSeq, Zenon
  <2>2. i - 1 \in 0 .. n
    BY <1>0
  <2> QED
    BY <2>1, <2>2, Zenon DEF Codes
<1>2. ASSUME NEW i \in 1 .. n, NEW s \in Code PROVE Deciphered(s, d[i]) \in Code
  <2>1. PICK c, r, ch : c = h[i - 1] /\ ch = p[i] /\ r = Coded(c, ch)
    OBVIOUS
  <2>2. c \in Code /\ ch \in 1 .. 127
    BY <1>1, <2>1
  <2>3. r \in Int
    BY <2>1, <2>2, CipherStep
  <2>4. PICK a, b : a = r \div 67 /\ b = r % 67
    OBVIOUS
  <2>5. a \in Int /\ b \in Int
    BY <2>3, <2>4
  <2>6. d[i] = <<a, b>>
    <3>1. d[i] = hashdot(r)
      BY <2>1, Zenon DEF Codes
    <3> QED
      BY <2>4, <3>1, Zenon DEF hashdot, baselen
  <2> QED
    BY <2>5, <2>6, DecipherType
<1>3. PICK g : Runs(g, TRUE, d, n) /\ Loop(TRUE, d) = g[n]
  BY <1>0, <1>2, LoopFunction
<1> DEFINE T == {k \in Nat : k <= n => Alike(g[k], h[k]) /\ Plaintext(g[k], p, k)}
<1>4. 0 \in T
  <2>1. g[0] = Started /\ h[0] = Started
    BY <1>0, <1>3 DEF Runs
  <2>2. Len(Started.out) = 0 /\ 1 .. 0 = {}
    BY StartedFacts
  <2> QED
    BY <2>1, <2>2 DEF Alike, Plaintext
<1>5. ASSUME NEW k \in Nat, k \in T PROVE k + 1 \in T
  <2> SUFFICES ASSUME k + 1 <= n PROVE Alike(g[k + 1], h[k + 1]) /\ Plaintext(g[k + 1], p, k + 1)
    BY <1>0
  <2>1. k + 1 \in 1 .. n /\ (k + 1) - 1 = k /\ k \in 0 .. n
    BY <1>0
  <2>2. PICK s, c, ch, e : s = g[k] /\ c = h[k] /\ ch = p[k + 1] /\ e = d[k + 1]
    OBVIOUS
  <2>3. /\ s \in Code /\ c \in Code /\ ch \in 1 .. 127
        /\ g[k + 1] = Deciphered(s, e) /\ h[k + 1] = Ciphered(c, ch)
        /\ e = hashdot(Coded(c, ch))
    BY <1>1, <1>3, <2>1, <2>2 DEF Runs, Codes
  <2>4. Alike(s, c) /\ Plaintext(s, p, k)
    BY <1>0, <1>5, <2>1, <2>2
  <2>5. PICK x, o : x = Deciphered(s, e) /\ o = s.out
    OBVIOUS
  <2>6. Alike(x, Ciphered(c, ch)) /\ x.out = Append(o, ch)
    BY <2>3, <2>4, <2>5, DecipherStep
  <2>7. o \in Seq(Int) /\ Len(o) = k /\ ch \in Int /\ \A i \in 1 .. k : o[i] = p[i]
    BY <2>3, <2>4, <2>5 DEF Code, Plaintext
  <2>8. PICK q : q = Append(o, ch)
    OBVIOUS
  <2>9. Len(q) = k + 1 /\ q[k + 1] = p[k + 1] /\ \A i \in 1 .. k : q[i] = p[i]
    BY <2>2, <2>7, <2>8
  <2>10. \A i \in 1 .. k + 1 : i = k + 1 \/ i \in 1 .. k
    OBVIOUS
  <2>11. Plaintext(x, p, k + 1)
    BY <2>6, <2>8, <2>9, <2>10, Zenon DEF Plaintext
  <2> QED
    BY <2>3, <2>5, <2>6, <2>11, Zenon
<1>6. n \in T
  <2> HIDE DEF T
  <2>1. \A k \in Nat : k \in T
    BY <1>4, <1>5, NatSetInduction
  <2> QED
    BY <1>0, <2>1
<1>7. PICK o : o = g[n].out
  OBVIOUS
<1>8. o \in Seq(Int) /\ Len(o) = n /\ \A i \in 1 .. n : o[i] = p[i]
  BY <1>0, <1>3, <1>6, <1>7 DEF Plaintext, Runs, Code
<1>9. p \in Seq(Int)
  <2>1. 1 .. 127 \subseteq Int
    OBVIOUS
  <2> QED
    BY <1>0, <2>1, SeqMonotonic, Zenon
<1>10. o = p
  BY <1>0, <1>8, <1>9, SeqEqual
<1> QED
  BY <1>3, <1>7, <1>10

(* What cryptit() makes of a text: the mark and two digits a character; and  *)
(* what decryptit() makes of the mark and the digits of the first characters. *)
LEMMA CryptitFacts ==
    ASSUME NEW p \in Texts
    PROVE  /\ cryptit(p) \in Seq(0 .. 66) /\ Len(cryptit(p)) = 2 * Len(p) + 1
           /\ Head(cryptit(p)) = PLUS
           /\ \A k \in 1 .. Len(p) : decryptit(SubSeq(cryptit(p), 1, 2 * k + 1)) = SubSeq(p, 1, k)
<1>1. p \in Seq(1 .. 127) /\ p # <<>> /\ Head(p) # PLUS
  BY DEF Texts
<1>2. PICK n : n = Len(p) /\ n \in Nat
  BY <1>1
<1>3. PICK h : /\ Runs(h, FALSE, p, n) /\ Loop(FALSE, p) = h[n]
               /\ Digits(h[n], h, p, n)
  BY <1>1, <1>2, Encrypts
<1>4. PICK o, c, e : o = h[n].out /\ c = <<PLUS>> \o o /\ e = <<PLUS>>
  OBVIOUS
<1>5. cryptit(p) = c
  BY <1>1, <1>3, <1>4, Zenon DEF cryptit, psycrypt
<1>6. /\ o \in Seq(Int) /\ Len(o) = 2 * n
      /\ \A i \in 1 .. n : /\ o[2 * i - 1] = hashdot(Coded(h[i - 1], p[i]))[1]
                           /\ o[2 * i] = hashdot(Coded(h[i - 1], p[i]))[2]
                           /\ o[2 * i - 1] \in 0 .. 66 /\ o[2 * i] \in 0 .. 66
  <2>1. n \in 0 .. n
    BY <1>2
  <2>2. h[n] \in Code
    BY <1>3, <2>1, Zenon DEF Runs
  <2>3. o \in Seq(Int)
    BY <1>4, <2>2 DEF Code
  <2> QED
    BY <1>3, <1>4, <2>3, Zenon DEF Digits
<1>7. e \in Seq(Int) /\ Len(e) = 1 /\ e[1] = 43
  BY <1>4 DEF PLUS
<1>8. /\ c \in Seq(Int) /\ Len(c) = 2 * n + 1 /\ c[1] = 43
      /\ \A j \in 2 .. 2 * n + 1 : c[j] = o[j - 1]
  <2>1. PICK m : m = 2 * n /\ m \in Nat
    BY <1>2
  <2>2. c = e \o o
    BY <1>4
  <2>3. /\ c \in Seq(Int) /\ Len(c) = Len(e) + Len(o)
        /\ \A j \in 1 .. Len(e) + Len(o) : c[j] = IF j <= Len(e) THEN e[j] ELSE o[j - Len(e)]
    BY <1>6, <1>7, <2>2, ConcatProperties, Zenon
  <2>4. Len(c) = m + 1 /\ \A j \in 1 .. m + 1 : c[j] = IF j <= 1 THEN e[j] ELSE o[j - 1]
    BY <1>6, <1>7, <2>1, <2>3
  <2> QED
    BY <1>7, <2>1, <2>3, <2>4
<1>9. ASSUME NEW i \in 1 .. n PROVE c[2 * i] = o[2 * i - 1] /\ c[2 * i + 1] = o[2 * i]
  <2>1. PICK j, m : j = 2 * i /\ m = 2 * n
    OBVIOUS
  <2>2. j \in 2 .. m + 1 /\ j + 1 \in 2 .. m + 1 /\ (j + 1) - 1 = j
    BY <1>2, <2>1
  <2> QED
    BY <1>8, <2>1, <2>2
<1>10. c \in Seq(0 .. 66)
  <2>1. ASSUME NEW j \in 1 .. Len(c) PROVE c[j] \in 0 .. 66
    <3>1. CASE j = 1
      BY <1>8, <3>1
    <3>2. CASE j # 1
      <4>1. j \in 2 .. 2 * n + 1 /\ c[j] = o[j - 1]
        BY <1>2, <1>8, <3>2
      <4>2. PICK k : k = (j - 1) \div 2
        OBVIOUS
      <4>3. k \in Int /\ (j - 1 = 2 * k \/ j - 1 = 2 * k + 1)
        BY <4>1, <4>2
      <4>4. CASE j - 1 = 2 * k
        <5>1. k \in 1 .. n
          BY <1>2, <4>1, <4>3, <4>4
        <5> QED
          BY <1>6, <4>1, <4>4, <5>1
      <4>5. CASE j - 1 = 2 * k + 1
        <5>1. k + 1 \in 1 .. n /\ 2 * (k + 1) - 1 = j - 1
          BY <1>2, <4>1, <4>3, <4>5
        <5> QED
          BY <1>6, <4>1, <5>1
      <4> QED
        BY <4>3, <4>4, <4>5
    <3> QED
      BY <3>1, <3>2
  <2>2. c \in [1 .. Len(c) -> Int] /\ Len(c) \in Nat
    BY <1>8, LenProperties
  <2>3. c \in [1 .. Len(c) -> 0 .. 66]
    BY <2>1, <2>2
  <2> QED
    BY <2>2, <2>3, SeqDef
<1>11. Head(c) = PLUS
  <2>1. c # <<>> /\ Head(c) = c[1]
    BY <1>2, <1>8
  <2> QED
    BY <1>8, <2>1 DEF PLUS
<1>12. ASSUME NEW k \in 1 .. n
       PROVE  decryptit(SubSeq(c, 1, 2 * k + 1)) = SubSeq(p, 1, k)
  <2>1. PICK b, q : b = SubSeq(c, 1, 2 * k + 1) /\ q = SubSeq(p, 1, k)
    OBVIOUS
  <2>2. /\ k \in Nat /\ q \in Seq(1 .. 127) /\ Len(q) = k
        /\ \A i \in 1 .. k : i \in 1 .. n /\ q[i] = p[i]
    <3>1. k \in 0 .. Len(p)
      BY <1>2
    <3>2. q \in Seq(1 .. 127) /\ Len(q) = k /\ \A i \in 1 .. k : q[i] = p[i]
      BY <1>1, <2>1, <3>1, PrefixFacts
    <3> QED
      BY <1>2, <3>2
  <2>3. /\ b \in Seq(Int) /\ Len(b) = 2 * k + 1
        /\ \A j \in 1 .. 2 * k + 1 : b[j] = c[j]
    <3>1. PICK l : l = 2 * k + 1
      OBVIOUS
    <3>2. l \in 0 .. Len(c) /\ c \in Seq(Int)
      BY <1>2, <1>8, <3>1
    <3>3. SubSeq(c, 1, l) \in Seq(Int) /\ Len(SubSeq(c, 1, l)) = l
          /\ \A i \in 1 .. l : SubSeq(c, 1, l)[i] = c[i]
      BY <3>2, PrefixFacts
    <3> QED
      BY <2>1, <3>1, <3>3
  <2>4. PICK m, d : m = (Len(b) - 1) \div 2 /\ d = [i \in 1 .. m |-> <<b[2 * i], b[2 * i + 1]>>]
    OBVIOUS
  <2>5. m = k
    BY <2>2, <2>3, <2>4
  <2>6. \A i \in 1 .. k : b[2 * i] = c[2 * i] /\ b[2 * i + 1] = c[2 * i + 1]
                          /\ b[2 * i] \in Int /\ b[2 * i + 1] \in Int
    <3> TAKE i \in 1 .. k
    <3>1. PICK j : j = 2 * i
      OBVIOUS
    <3>2. j \in 1 .. 2 * k + 1 /\ j + 1 \in 1 .. 2 * k + 1
      BY <2>2, <3>1
    <3>3. b[j] \in Int /\ b[j + 1] \in Int
      BY <2>3, <3>2, ElementOfSeq
    <3> QED
      BY <2>3, <3>1, <3>2, <3>3
  <2>7. d \in Seq(Seq(Int)) /\ Len(d) = k /\ DOMAIN d = 1 .. k
    <3>1. \A i \in 1 .. k : <<b[2 * i], b[2 * i + 1]>> \in Seq(Int)
      <4> TAKE i \in 1 .. k
      <4>1. PICK x, y : x = b[2 * i] /\ y = b[2 * i + 1]
        OBVIOUS
      <4>2. x \in Int /\ y \in Int
        BY <2>6, <4>1
      <4> QED
        BY <4>1, <4>2
    <3>2. d \in [1 .. k -> Seq(Int)]
      BY <2>4, <2>5, <3>1
    <3>3. d \in Seq(Seq(Int))
      BY <2>2, <3>2, SeqDef
    <3> QED
      BY <2>2, <3>2, <3>3, LenProperties
  <2>8. ASSUME NEW i \in 1 .. k PROVE d[i] = hashdot(Coded(h[i - 1], q[i]))
    <3>1. PICK r, x, y : r = Coded(h[i - 1], p[i]) /\ x = r \div baselen /\ y = r % baselen
      OBVIOUS
    <3>2. hashdot(r) = <<x, y>>
      BY <3>1, Zenon DEF hashdot
    <3>3. hashdot(r)[1] = x /\ hashdot(r)[2] = y
      BY <3>2
    <3>4. i \in 1 .. n /\ q[i] = p[i]
      BY <2>2
    <3>5. c[2 * i] = x /\ c[2 * i + 1] = y
      BY <1>6, <1>9, <3>1, <3>3, <3>4, Zenon
    <3>6. d[i] = <<b[2 * i], b[2 * i + 1]>>
      BY <2>4, <2>5
    <3>7. d[i] = <<x, y>>
      BY <2>6, <3>5, <3>6, Zenon
    <3> QED
      BY <3>1, <3>2, <3>4, <3>7, Zenon
  <2>9. Loop(TRUE, d).out = q
    <3>1. PICK g : g = [i \in 0 .. k |-> h[i]]
      OBVIOUS
    <3>2. /\ h \in [0 .. n -> Code] /\ h[0] = Started
          /\ \A i \in 1 .. n : h[i] = Ciphered(h[i - 1], p[i])
      BY <1>3 DEF Runs
    <3>3. g \in [0 .. k -> Code] /\ g[0] = Started
      BY <1>2, <3>1, <3>2
    <3>4. \A i \in 1 .. k : g[i] = h[i] /\ g[i - 1] = h[i - 1]
      BY <2>2, <3>1
    <3>5. \A i \in 1 .. k : /\ g[i] = Ciphered(g[i - 1], q[i])
                            /\ d[i] = hashdot(Coded(g[i - 1], q[i]))
      <4> TAKE i \in 1 .. k
      <4>1. i \in 1 .. n /\ q[i] = p[i] /\ g[i] = h[i] /\ g[i - 1] = h[i - 1]
        BY <2>2, <3>4
      <4>2. h[i] = Ciphered(h[i - 1], p[i])
        BY <3>2, <4>1, Zenon
      <4>3. d[i] = hashdot(Coded(h[i - 1], q[i]))
        BY <2>8, Zenon
      <4> QED
        BY <4>1, <4>2, <4>3, Zenon
    <3>6. Codes(d, g, q, k)
      BY <2>2, <2>7, <3>3, <3>5, Zenon DEF Codes
    <3> QED
      BY <3>6, Decrypts
  <2>10. Head(b) = PLUS
    <3>1. 1 \in 1 .. 2 * k + 1 /\ b # <<>> /\ Head(b) = b[1]
      BY <2>2, <2>3
    <3> QED
      BY <1>8, <2>3, <3>1 DEF PLUS
  <2>11. decryptit(b) = q
    BY <2>4, <2>9, <2>10, Zenon DEF decryptit, psycrypt
  <2> QED
    BY <2>1, <2>11
<1> QED
  BY <1>2, <1>5, <1>8, <1>10, <1>11, <1>12

(* What is whole is read whole. *)
LEMMA ReadWhole ==
    ASSUME NEW p \in Texts
    PROVE  decryptit(cryptit(p)) = p
<1>1. p \in Seq(1 .. 127) /\ p # <<>>
  BY DEF Texts
<1>2. PICK n, c : n = Len(p) /\ c = cryptit(p)
  OBVIOUS
<1>3. n \in Nat /\ n \in 1 .. n
  BY <1>1, <1>2, EmptySeq
<1>4. c \in Seq(0 .. 66) /\ Len(c) = 2 * n + 1 /\ decryptit(SubSeq(c, 1, 2 * n + 1)) = SubSeq(p, 1, n)
  BY <1>2, <1>3, CryptitFacts
<1>5. \A S : \A q \in Seq(S) : SubSeq(q, 1, Len(q)) = q
  <2> TAKE S
  <2> TAKE q \in Seq(S)
  <2>1. PICK r : r = SubSeq(q, 1, Len(q))
    OBVIOUS
  <2>2. r \in Seq(S) /\ Len(r) = Len(q) /\ \A i \in 1 .. Len(q) : r[i] = q[i]
    BY <2>1, PrefixFacts
  <2>3. r = q
    BY <2>2, SeqEqual
  <2> QED
    BY <2>1, <2>3
<1>6. SubSeq(c, 1, 2 * n + 1) = c /\ SubSeq(p, 1, n) = p
  BY <1>1, <1>2, <1>4, <1>5
<1> QED
  BY <1>2, <1>4, <1>6

(* A password, of any length psycrypt() takes and under any salts of text,   *)
(* is stored as a mark and digits and read back as it was given, though the  *)
(* offsets leave their range and the salts wrap on the way; where the digits *)
(* are cut, the characters before are read as they were given.               *)
THEOREM PasswordsReadBack ==
    \A p \in Texts :
      /\ cryptit(p) \in Seq(0 .. 66) /\ decryptit(cryptit(p)) = p
      /\ \A k \in 1 .. Len(p) : decryptit(SubSeq(cryptit(p), 1, 2 * k + 1)) = SubSeq(p, 1, k)
BY CryptitFacts, ReadWhole

-----------------------------------------------------------------------------
(* Lists and their sections *)

(* What list k may hold: the parameters of lists of passwords are coded. *)
EntryOf(k) == {e \in Entry : k \in Secret => e.param \in Params}

(* The section c has the entries 0 to n - 1, and unless it is full the ones  *)
(* that are read are the first ones of the list, as far as they fit.         *)
Mirrors(list, c, n) ==
    /\ \A i \in 0 .. n - 1 : i < LOADED => i < Len(list) /\ Cut(list[i + 1]) = Cut(c[i])
    /\ n < LOADED => Len(list) = n
    /\ n >= LOADED => Len(list) >= LOADED

Section(k, list, c, n) ==
    /\ n \in Nat /\ DOMAIN c = 0 .. n - 1
    /\ \A i \in 0 .. n - 1 : c[i] \in EntryOf(k)
    /\ n < MAXITEML => Mirrors(list, c, n)

ListOK(k, list, c) ==
    /\ list \in Seq(EntryOf(k))
    /\ \E n : Section(k, list, c, n)

ListsInv ==
    /\ lists = [k \in Kinds |-> lists[k]] /\ conf = [k \in Kinds |-> conf[k]]
    /\ \A k \in Kinds : ListOK(k, lists[k], conf[k])

(* What is cut once is not cut again, and only forms of passwords are cut. *)
LEMMA KeptFacts ==
    ASSUME NEW t \in Params
    PROVE  Kept(t) \in Params /\ Kept(Kept(t)) = Kept(t)
<1>1. PICK n : n = 2 * KEPT + 1 /\ n \in Nat
  BY MessagesAssumption
<1>2. \A x : Kept(x) = IF Len(x) > n THEN SubSeq(x, 1, n) ELSE x
  BY <1>1, Zenon DEF Kept
<1>3. ASSUME NEW x \in Range(Stored) PROVE Kept(x) \in Params /\ Kept(Kept(x)) = Kept(x)
  <2>1. Kept(x) \in Params
    BY Zenon DEF Params
  <2>2. CASE Len(x) > n
    <3>1. PICK S : x \in Seq(S)
      <4>1. DOMAIN Stored = Passwords /\ \A p \in Passwords : Stored[p] = cryptit(p)
        BY DEF Stored
      <4>2. PICK p \in Passwords : x = cryptit(p)
        BY <4>1 DEF Range
      <4> QED
        BY <4>2, CryptitFacts, MessagesAssumption
    <3>2. PICK y : y = SubSeq(x, 1, n)
      OBVIOUS
    <3>3. Len(y) = n
      BY <1>1, <2>2, <3>1, <3>2
    <3>4. Kept(x) = y /\ ~ (Len(y) > n)
      BY <1>1, <1>2, <2>2, <3>2, <3>3
    <3>5. Kept(y) = y
      BY <1>2, <3>4, Zenon
    <3> QED
      BY <2>1, <3>4, <3>5
  <2>3. CASE ~ (Len(x) > n)
    <3>1. Kept(x) = x
      BY <1>2, <2>3, Zenon
    <3> QED
      BY <2>1, <3>1
  <2> QED
    BY <2>2, <2>3
<1>4. t \in Range(Stored) \/ \E x \in Range(Stored) : t = Kept(x)
  BY Zenon DEF Params
<1> QED
  BY <1>3, <1>4

LEMMA KeptNothing ==
    ASSUME NEW e, e = <<>>
    PROVE  Kept(e) = e
<1>1. PICK n : n = 2 * KEPT + 1 /\ n \in Nat
  BY MessagesAssumption
<1>2. Kept(e) = IF Len(e) > n THEN SubSeq(e, 1, n) ELSE e
  BY <1>1, Zenon DEF Kept
<1>3. ~ (Len(e) > n)
  BY <1>1
<1> QED
  BY <1>2, <1>3, Zenon

LEMMA CutFacts ==
    ASSUME NEW k, NEW e \in EntryOf(k)
    PROVE  Cut(e) \in EntryOf(k) /\ Cut(Cut(e)) = Cut(e) /\ Cut(e).host = e.host
           /\ Cut(e).param = Kept(e.param)
<1>1. PICK h, t, x : h = e.host /\ t = e.param /\ x = Kept(t)
  OBVIOUS
<1>2. h \in Hosts /\ t \in Params \cup {<<>>} /\ (k \in Secret => t \in Params)
  BY <1>1 DEF EntryOf, Entry
<1>3. x \in Params \cup {<<>>} /\ (t \in Params => x \in Params) /\ Kept(x) = x
  <2>1. CASE t \in Params
    BY <1>1, <2>1, KeptFacts
  <2>2. CASE t \notin Params
    <3>1. t = <<>>
      BY <1>2, <2>2
    <3>2. Kept(t) = t
      BY <3>1, KeptNothing
    <3> QED
      BY <1>1, <1>2, <2>2, <3>2
  <2> QED
    BY <2>1, <2>2
<1>4. PICK c : c = [host |-> h, param |-> x]
  OBVIOUS
<1>5. Cut(e) = c /\ c.host = h /\ c.param = x
  BY <1>1, <1>4 DEF Cut
<1>6. c \in Entry
  BY <1>2, <1>3, <1>4 DEF Entry
<1>7. c \in EntryOf(k)
  BY <1>2, <1>3, <1>5, <1>6 DEF EntryOf
<1>8. Cut(c) = c
  BY <1>3, <1>4, <1>5 DEF Cut
<1> QED
  BY <1>1, <1>5, <1>7, <1>8

(* getini() reads entries of the list. *)
LEMMA GetiniFacts ==
    ASSUME NEW k, NEW c, \A i \in DOMAIN c : c[i] \in EntryOf(k)
    PROVE  DOMAIN getini(c) = DOMAIN c
           /\ \A i \in DOMAIN c : getini(c)[i] = Cut(c[i]) /\ getini(c)[i] \in EntryOf(k)
<1>1. \A i \in DOMAIN c : Cut(c[i]) \in EntryOf(k)
  BY CutFacts
<1>2. DOMAIN getini(c) = DOMAIN c /\ \A i \in DOMAIN c : getini(c)[i] = Cut(c[i])
  BY DEF getini
<1> QED
  BY <1>1, <1>2

(* loadlist() reads entries of the list. *)
LEMMA LoadedType ==
    ASSUME ListsInv, NEW k \in Kinds
    PROVE  loadlist(k) \in Seq(EntryOf(k))
<1>1. PICK n : Section(k, lists[k], conf[k], n)
  BY DEF ListsInv, ListOK
<1>2. PICK c, D : c = getini(conf[k]) /\ D = DOMAIN conf[k]
  OBVIOUS
<1>3. \A i \in D : c[i] \in EntryOf(k)
  <2>1. \A i \in DOMAIN conf[k] : conf[k][i] \in EntryOf(k)
    BY <1>1 DEF Section
  <2> QED
    BY <1>2, <2>1, GetiniFacts
<1>4. Collected(c, D, LOADED) \in Seq(EntryOf(k))
  BY <1>3, CollectedFacts, MessagesAssumption
<1> QED
  BY <1>2, <1>4 DEF loadlist

LEMMA LoadedFirst ==
    ASSUME NEW k \in Kinds, NEW n, NEW list, Section(k, list, conf[k], n)
    PROVE  /\ Len(loadlist(k)) = Lesser(n, LOADED)
           /\ \A i \in 1 .. Lesser(n, LOADED) : loadlist(k)[i] = Cut(conf[k][i - 1])
           /\ loadlist(k) \in Seq(EntryOf(k))
<1>1. n \in Nat /\ LOADED \in Nat /\ DOMAIN conf[k] = 0 .. n - 1
      /\ \A i \in 0 .. n - 1 : conf[k][i] \in EntryOf(k)
  BY MessagesAssumption DEF Section
<1>2. PICK c, r, S : c = getini(conf[k]) /\ r = Collected(c, 0 .. n - 1, LOADED) /\ S = EntryOf(k)
  OBVIOUS
<1>0. \A i \in 0 .. n - 1 : c[i] = Cut(conf[k][i]) /\ c[i] \in S
  BY <1>1, <1>2, GetiniFacts
<1>3. r \in Seq(S) /\ Len(r) = Lesser(n, LOADED)
      /\ \A i \in 1 .. Lesser(n, LOADED) : r[i] = c[i - 1]
  <2>1. \A i \in 0 .. n - 1 : c[i] \in S
    BY <1>0
  <2> QED
    BY <1>1, <1>2, <2>1, CollectedFirst
<1>4. loadlist(k) = r
  BY <1>1, <1>2 DEF loadlist
<1>5. \A i \in 1 .. Lesser(n, LOADED) : i - 1 \in 0 .. n - 1
  BY <1>1 DEF Lesser
<1> QED
  BY <1>0, <1>2, <1>3, <1>4, <1>5

LEMMA EmptySection ==
    ASSUME NEW k \in Kinds
    PROVE  ListOK(k, <<>>, <<>>)
<1>1. PICK e, n : e = <<>> /\ n = 0
  OBVIOUS
<1>2. e \in Seq(EntryOf(k)) /\ Len(e) = 0 /\ DOMAIN e = 0 .. n - 1 /\ 0 .. n - 1 = {} /\ n \in Nat
  BY <1>1
<1>3. Mirrors(e, e, n)
  BY <1>1, <1>2, MessagesAssumption DEF Mirrors
<1>4. Section(k, e, e, n)
  BY <1>2, <1>3 DEF Section
<1> QED
  BY <1>1, <1>2, <1>4 DEF ListOK

(* A list that is read from its section. *)
LEMMA ReadSection ==
    ASSUME ListsInv, NEW k \in Kinds
    PROVE  ListOK(k, loadlist(k), conf[k])
<1>1. PICK n : Section(k, lists[k], conf[k], n)
  BY DEF ListsInv, ListOK
<1>2. PICK r, c : r = loadlist(k) /\ c = conf[k]
  OBVIOUS
<1>3. n \in Nat /\ LOADED \in Nat
  BY <1>1, MessagesAssumption DEF Section
<1>4. /\ Len(r) = Lesser(n, LOADED) /\ r \in Seq(EntryOf(k))
      /\ \A i \in 1 .. Lesser(n, LOADED) : r[i] = Cut(c[i - 1])
  BY <1>1, <1>2, LoadedFirst
<1>5. ASSUME NEW i \in 0 .. n - 1, i < LOADED PROVE i < Len(r) /\ Cut(r[i + 1]) = Cut(c[i])
  <2>1. i + 1 \in 1 .. Lesser(n, LOADED) /\ (i + 1) - 1 = i
    BY <1>3, <1>5 DEF Lesser
  <2>2. r[i + 1] = Cut(c[i])
    BY <1>4, <2>1
  <2>3. c[i] \in EntryOf(k)
    BY <1>1, <1>2 DEF Section
  <2>4. i < Len(r)
    BY <1>3, <1>4, <2>1
  <2> QED
    BY <2>2, <2>3, <2>4, CutFacts
<1>6. (n < LOADED => Len(r) = n) /\ (n >= LOADED => Len(r) >= LOADED)
  BY <1>3, <1>4 DEF Lesser
<1>7. Section(k, r, c, n)
  BY <1>1, <1>2, <1>5, <1>6 DEF Section, Mirrors
<1> QED
  BY <1>2, <1>4, <1>7 DEF ListOK

(* eraselist() writes the section anew. *)
LEMMA NumberedSection ==
    ASSUME NEW k, NEW list \in Seq(EntryOf(k))
    PROVE  ListOK(k, list, Numbered(list))
<1>1. PICK c, n : c = Numbered(list) /\ n = Len(list)
  OBVIOUS
<1>2. n \in Nat /\ DOMAIN c = 0 .. n - 1 /\ \A i \in 0 .. n - 1 : c[i] = list[i + 1]
  BY <1>1 DEF Numbered
<1>3. \A i \in 0 .. n - 1 : i + 1 \in 1 .. n /\ list[i + 1] \in EntryOf(k)
  BY <1>1, <1>2
<1>4. Mirrors(list, c, n)
  BY <1>1, <1>2, MessagesAssumption DEF Mirrors
<1>5. Section(k, list, c, n)
  BY <1>2, <1>3, <1>4 DEF Section
<1> QED
  BY <1>1, <1>5 DEF ListOK

(* writelist(): the list and, unless it is full, the section get one more. *)
LEMMA WrittenSection ==
    ASSUME ListsInv, NEW k \in Kinds, NEW e \in EntryOf(k)
    PROVE  ListOK(k, Append(lists[k], e), With(conf[k], lastfree(k), e))
<1>1. PICK n : Section(k, lists[k], conf[k], n)
  BY DEF ListsInv, ListOK
<1>2. PICK list, c, x, a, w : /\ list = lists[k] /\ c = conf[k] /\ x = lastfree(k)
                              /\ a = Append(list, e) /\ w = With(c, x, e)
  OBVIOUS
<1>3. /\ n \in Nat /\ LOADED \in Nat /\ MAXITEML \in Nat /\ DOMAIN c = 0 .. n - 1
      /\ list \in Seq(EntryOf(k))
      /\ \A i \in 0 .. n - 1 : c[i] \in EntryOf(k)
  BY <1>1, <1>2, MessagesAssumption DEF Section, ListsInv, ListOK
<1>4. /\ a \in Seq(EntryOf(k)) /\ Len(a) = Len(list) + 1 /\ a[Len(list) + 1] = e
      /\ \A i \in 1 .. Len(list) : a[i] = list[i]
  BY <1>2, <1>3
<1>5. DOMAIN w = 0 .. n - 1 \cup {x} /\ \A i \in DOMAIN w : w[i] = IF i = x THEN e ELSE c[i]
  BY <1>2, <1>3 DEF With
<1>6. PICK free : free = {i \in 0 .. MAXITEML - 1 : i \notin DOMAIN conf[k]}
  OBVIOUS
<1>7. x = IF free = {} THEN 0 ELSE Min(free)
  BY <1>2, <1>6 DEF lastfree
<1>8. free \subseteq Nat /\ \A i \in Nat : i \in free <=> n <= i /\ i < MAXITEML
  BY <1>2, <1>3, <1>6
<1>9. CASE n < MAXITEML
  <2>1. n \in free
    BY <1>3, <1>8, <1>9
  <2>2. x \in free /\ x <= n
    BY <1>7, <1>8, <2>1, MinMember
  <2>3. x = n
    BY <1>3, <1>8, <2>2
  <2>4. DOMAIN w = 0 .. (n + 1) - 1 /\ n + 1 \in Nat
    BY <1>3, <1>5, <2>3
  <2>5. \A i \in 0 .. (n + 1) - 1 : w[i] \in EntryOf(k)
    BY <1>3, <1>5, <2>3, <2>4
  <2>6. Mirrors(list, c, n)
    BY <1>1, <1>2, <1>9 DEF Section
  <2>7. Mirrors(a, w, n + 1)
    <3>1. ASSUME NEW i \in 0 .. (n + 1) - 1, i < LOADED
          PROVE  i < Len(a) /\ Cut(a[i + 1]) = Cut(w[i])
      <4>1. CASE i = n
        <5>1. Len(list) = n
          BY <2>6, <3>1, <4>1 DEF Mirrors
        <5> QED
          BY <1>3, <1>4, <1>5, <2>3, <2>4, <4>1, <5>1
      <4>2. CASE i # n
        <5>1. i \in 0 .. n - 1 /\ i < Len(list) /\ Cut(list[i + 1]) = Cut(c[i])
          BY <1>3, <2>6, <3>1, <4>2 DEF Mirrors
        <5>2. i + 1 \in 1 .. Len(list) /\ Len(list) \in Nat
          BY <1>3, <5>1
        <5> QED
          BY <1>4, <1>5, <2>3, <2>4, <4>2, <5>1, <5>2
      <4> QED
        BY <4>1, <4>2
    <3>2. Len(list) \in Nat /\ (n < LOADED => Len(list) = n) /\ (n >= LOADED => Len(list) >= LOADED)
      BY <1>3, <2>6 DEF Mirrors
    <3>3. (n + 1 < LOADED => Len(a) = n + 1) /\ (n + 1 >= LOADED => Len(a) >= LOADED)
      BY <1>3, <1>4, <3>2
    <3> QED
      BY <3>1, <3>3 DEF Mirrors
  <2>8. Section(k, a, w, n + 1)
    BY <2>4, <2>5, <2>7 DEF Section
  <2> QED
    BY <1>2, <1>4, <2>8 DEF ListOK
<1>10. CASE n >= MAXITEML
  <2>1. free = {} /\ x = 0
    BY <1>3, <1>7, <1>8, <1>10
  <2>2. PICK m : m = IF n = 0 THEN 1 ELSE n
    OBVIOUS
  <2>3. m \in Nat /\ DOMAIN w = 0 .. m - 1 /\ ~ (m < MAXITEML)
    BY <1>3, <1>5, <1>10, <2>1, <2>2
  <2>4. \A i \in 0 .. m - 1 : w[i] \in EntryOf(k)
    <3> TAKE i \in 0 .. m - 1
    <3>1. i = 0 \/ i \in 0 .. n - 1
      BY <1>3, <2>2
    <3> QED
      BY <1>3, <1>5, <2>1, <2>3, <3>1
  <2>5. Section(k, a, w, m)
    BY <2>3, <2>4 DEF Section
  <2> QED
    BY <1>2, <1>4, <2>5 DEF ListOK
<1> QED
  BY <1>3, <1>9, <1>10

(* The actions on lists. *)
LEMMA WriteLists ==
    ASSUME ListsInv, NEW k \in Kinds, NEW e \in EntryOf(k), writelist(k, e)
    PROVE  ListsInv'
<1>1. PICK a, w : a = Append(lists[k], e) /\ w = With(conf[k], lastfree(k), e)
  OBVIOUS
<1>2. ListOK(k, a, w)
  BY <1>1, WrittenSection
<1>3. lists' = [lists EXCEPT ![k] = a] /\ conf' = [conf EXCEPT ![k] = w]
  BY <1>1 DEF writelist
<1>4. ListOK(k, lists'[k], conf'[k])
  BY <1>2, <1>3 DEF ListsInv
<1>5. \A j \in Kinds : j # k => lists'[j] = lists[j] /\ conf'[j] = conf[j]
  BY <1>3 DEF ListsInv
<1>6. \A j \in Kinds : ListOK(j, lists'[j], conf'[j])
  BY <1>4, <1>5 DEF ListsInv
<1>7. lists' = [j \in Kinds |-> lists'[j]] /\ conf' = [j \in Kinds |-> conf'[j]]
  BY <1>3 DEF ListsInv
<1> QED
  BY <1>6, <1>7 DEF ListsInv

LEMMA DelLists ==
    ASSUME ListsInv, NEW k \in Kinds, NEW n, n \in DOMAIN Listed(k) \cup {Len(lists[k])},
           eraselist(k, n)
    PROVE  ListsInv'
<1>1. PICK list, r, w : /\ list = lists[k] /\ r = removestring(n, list) /\ w = Numbered(r)
  OBVIOUS
<1>2. list \in Seq(EntryOf(k)) /\ n \in 0 .. Len(list)
  BY <1>1 DEF ListsInv, ListOK, Listed, Numbered
<1>3. r \in Seq(EntryOf(k))
  <2>1. CASE n < Len(list)
    <3>1. n + 1 \in 1 .. Len(list) /\ r = RemoveAt(list, n + 1)
      BY <1>1, <1>2, <2>1 DEF removestring
    <3> QED
      BY <1>2, <3>1, RemoveAtFacts
  <2>2. CASE ~ (n < Len(list))
    BY <1>1, <1>2, <2>2 DEF removestring
  <2> QED
    BY <2>1, <2>2
<1>4. ListOK(k, r, w)
  BY <1>1, <1>3, NumberedSection
<1>5. lists' = [lists EXCEPT ![k] = r] /\ conf' = [conf EXCEPT ![k] = w]
  BY <1>1 DEF eraselist
<1>6. ListOK(k, lists'[k], conf'[k])
  BY <1>4, <1>5 DEF ListsInv
<1>7. \A j \in Kinds : j # k => lists'[j] = lists[j] /\ conf'[j] = conf[j]
  BY <1>5 DEF ListsInv
<1>8. \A j \in Kinds : ListOK(j, lists'[j], conf'[j])
  BY <1>6, <1>7 DEF ListsInv
<1>9. lists' = [j \in Kinds |-> lists'[j]] /\ conf' = [j \in Kinds |-> conf'[j]]
  BY <1>5 DEF ListsInv
<1> QED
  BY <1>8, <1>9 DEF ListsInv

(* Reading some or all lists from the configuration. *)
LEMMA ReloadLists ==
    ASSUME ListsInv, NEW K \in SUBSET Kinds,
           lists' = [k \in Kinds |-> IF k \in K THEN loadlist(k) ELSE lists[k]], conf' = conf
    PROVE  ListsInv'
<1>1. ASSUME NEW k \in Kinds PROVE ListOK(k, lists'[k], conf'[k])
  <2>1. CASE k \in K
    <3>1. lists'[k] = loadlist(k) /\ conf'[k] = conf[k]
      BY <2>1
    <3> QED
      BY <3>1, ReadSection
  <2>2. CASE k \notin K
    BY <2>2 DEF ListsInv
  <2> QED
    BY <2>1, <2>2
<1>2. lists' = [k \in Kinds |-> lists'[k]] /\ conf' = [k \in Kinds |-> conf'[k]]
  BY DEF ListsInv
<1> QED
  BY <1>1, <1>2 DEF ListsInv

(* What a section that is not full gives back. *)
LEMMA MirrorsLoaded ==
    ASSUME ListsInv, NEW k \in Kinds, Cardinality(DOMAIN conf[k]) < MAXITEML
    PROVE  /\ loadlist(k) = [i \in 1 .. Min({LOADED, Len(lists[k])}) |-> Cut(lists[k][i])]
           /\ Min({LOADED, Len(lists[k])}) \in 0 .. Len(lists[k])
<1>1. PICK n : Section(k, lists[k], conf[k], n)
  BY DEF ListsInv, ListOK
<1>2. PICK list, c, r, m, s : /\ list = lists[k] /\ c = conf[k] /\ r = loadlist(k)
                              /\ m = Min({LOADED, Len(list)}) /\ s = [i \in 1 .. m |-> Cut(list[i])]
  OBVIOUS
<1>3. /\ n \in Nat /\ LOADED \in Nat /\ MAXITEML \in Nat /\ DOMAIN c = 0 .. n - 1
      /\ list \in Seq(EntryOf(k)) /\ Len(list) \in Nat
  BY <1>1, <1>2, MessagesAssumption DEF Section, ListsInv, ListOK
<1>4. Cardinality(0 .. n - 1) = n
  <2>1. 0 \in Int /\ n - 1 \in Int
    BY <1>3
  <2>2. Cardinality(0 .. n - 1) = IF 0 > n - 1 THEN 0 ELSE n - 1 - 0 + 1
    BY <2>1, FS_Interval
  <2> QED
    BY <1>3, <2>2
<1>5. Mirrors(list, c, n)
  BY <1>1, <1>2, <1>3, <1>4 DEF Section
<1>6. /\ Len(r) = Lesser(n, LOADED) /\ r \in Seq(EntryOf(k))
      /\ \A i \in 1 .. Lesser(n, LOADED) : r[i] = Cut(c[i - 1])
  BY <1>1, <1>2, LoadedFirst
<1>7. m \in {LOADED, Len(list)} /\ m <= LOADED /\ m <= Len(list)
  <2>1. {LOADED, Len(list)} \subseteq Nat /\ {LOADED, Len(list)} # {}
    BY <1>3
  <2> QED
    BY <1>2, <2>1, MinMember
<1>8. m = Lesser(n, LOADED)
  BY <1>3, <1>5, <1>7 DEF Mirrors, Lesser
<1>9. DOMAIN r = 1 .. m /\ r = [i \in DOMAIN r |-> r[i]]
  <2>1. DOMAIN r = 1 .. m
    BY <1>6, <1>8, LenProperties
  <2>2. r \in [1 .. Len(r) -> EntryOf(k)]
    BY <1>6, LenProperties, Zenon
  <2>3. r = [i \in DOMAIN r |-> r[i]]
    BY <2>2
  <2> QED
    BY <2>1, <2>3
<1>10. \A i \in 1 .. m : r[i] = Cut(list[i])
  <2> TAKE i \in 1 .. m
  <2>1. i - 1 \in 0 .. n - 1 /\ i - 1 < LOADED /\ (i - 1) + 1 = i
    BY <1>3, <1>7, <1>8 DEF Lesser
  <2>2. Cut(list[(i - 1) + 1]) = Cut(c[i - 1])
    BY <1>5, <2>1 DEF Mirrors
  <2> QED
    BY <1>6, <1>8, <2>1, <2>2
<1>11. r = s
  <2>1. r = [i \in 1 .. m |-> r[i]]
    BY <1>9
  <2> QED
    BY <1>2, <1>10, <2>1
<1>12. m \in 0 .. Len(list)
  BY <1>3, <1>7
<1> QED
  BY <1>2, <1>11, <1>12

-----------------------------------------------------------------------------
(* Translations *)

Job == [uid : Nat \ {0}, sock : Nat, dest : Hosts \cup {"none"}, dir : {"TO", "FROM"},
        delayed : Int, parts : SUBSET Nat]

(* Jobs are numbered upwards, and sockets and the jobs that got one belong to *)
(* each other.                                                                *)
JobsOK(tr, sv) ==
    /\ tr \in Seq(Job) /\ sv \in [DOMAIN sv -> [uid : Nat, handler : Handlers]]
    /\ 0 \notin DOMAIN sv
    /\ \A i, j \in 1 .. Len(tr) : i < j => tr[i].uid < tr[j].uid
    /\ \A i \in 1 .. Len(tr) : /\ tr[i].sock # 0 => /\ tr[i].sock \in DOMAIN sv
                                                   /\ sv[tr[i].sock].uid = tr[i].uid
                               /\ tr[i].parts \subseteq {tr[i].sock} \ {0}
    /\ \A s \in DOMAIN sv : \E i \in 1 .. Len(tr) : tr[i].sock = s

JobsInv ==
    /\ overrun \in BOOLEAN /\ DOMAIN service \subseteq 1 .. count
    /\ ~overrun => JobsOK(translate, service)

LEMMA JobFields ==
    ASSUME NEW tr, NEW sv, JobsOK(tr, sv), NEW i \in 1 .. Len(tr)
    PROVE  /\ tr[i] \in Job /\ tr[i].uid \in Nat /\ tr[i].uid # 0
           /\ tr[i].sock \in Nat
<1>1. tr \in Seq(Job)
  BY DEF JobsOK
<1>2. tr[i] \in Job
  BY <1>1, ElementOfSeq, Zenon
<1> QED
  BY <1>2 DEF Job

(* Numbers and sockets tell jobs apart. *)
LEMMA JobsDiffer ==
    ASSUME NEW tr, NEW sv, JobsOK(tr, sv), NEW i \in 1 .. Len(tr), NEW j \in 1 .. Len(tr)
    PROVE  /\ tr[i].uid = tr[j].uid => i = j
           /\ tr[i].sock = tr[j].sock /\ tr[i].sock # 0 => i = j
<1>1. tr[i].uid \in Nat /\ tr[j].uid \in Nat /\ Len(tr) \in Nat
  <2>1. tr \in Seq(Job)
    BY DEF JobsOK
  <2> QED
    BY <2>1, JobFields
<1>2. (i < j => tr[i].uid < tr[j].uid) /\ (j < i => tr[j].uid < tr[i].uid)
  BY DEF JobsOK
<1>3. tr[i].uid = tr[j].uid => i = j
  BY <1>1, <1>2
<1>4. /\ tr[i].sock # 0 => sv[tr[i].sock].uid = tr[i].uid
      /\ tr[j].sock # 0 => sv[tr[j].sock].uid = tr[j].uid
  BY DEF JobsOK
<1> QED
  BY <1>3, <1>4

LEMMA JobsEmpty == JobsOK(<<>>, <<>>)
<1>1. PICK e : e = <<>>
  OBVIOUS
<1>2. e \in Seq(Job) /\ Len(e) = 0 /\ DOMAIN e = {} /\ 1 .. 0 = {}
  BY <1>1
<1>3. e \in [DOMAIN e -> [uid : Nat, handler : Handlers]]
  BY <1>1
<1>4. JobsOK(e, e)
  BY <1>2, <1>3 DEF JobsOK
<1> QED
  BY <1>1, <1>4

(* Some jobs go with their sockets. *)
LEMMA JobsLess ==
    ASSUME NEW tr, NEW sv, JobsOK(tr, sv), NEW I, I \subseteq 1 .. Len(tr), NEW S,
           S \subseteq {tr[i].sock : i \in I}, NEW tr2, NEW sv2,
           tr2 = Collected(tr, DOMAIN tr \ I, Len(tr) + 1),
           sv2 = Restrict(sv, DOMAIN sv \ ({tr[i].sock : i \in I} \cup S))
    PROVE  JobsOK(tr2, sv2)
<1>1. PICK n, D, G : n = Len(tr) /\ D = DOMAIN tr \ I /\ G = {tr[i].sock : i \in I}
  OBVIOUS
<1>2. tr \in Seq(Job) /\ n \in Nat /\ n + 1 \in Nat /\ D = (1 .. n) \ I
  BY <1>1 DEF JobsOK
<1>3. \A i \in D : tr[i] \in Job
  BY <1>1, <1>2, JobFields
<1>4. tr2 \in Seq(Job) /\ \E p : Picks(tr2, p, tr, D, n + 1)
  BY <1>1, <1>2, <1>3, CollectedFacts
<1>5. PICK p : Picks(tr2, p, tr, D, n + 1)
  BY <1>4
<1>6. PICK m : m = Len(tr2)
  OBVIOUS
<1>7. \A i \in 1 .. m : p[i] \in 1 .. n /\ p[i] \notin I /\ tr2[i] = tr[p[i]]
  BY <1>2, <1>5, <1>6 DEF Picks
<1>8. DOMAIN sv2 = DOMAIN sv \ G /\ \A s \in DOMAIN sv2 : sv2[s] = sv[s]
  <2>1. G \cup S = G
    BY <1>1
  <2>2. sv2 = [s \in DOMAIN sv \ G |-> sv[s]]
    BY <1>1, <2>1 DEF Restrict
  <2> QED
    BY <2>2
<1>9. sv2 \in [DOMAIN sv2 -> [uid : Nat, handler : Handlers]]
  <2>1. sv2 = [s \in DOMAIN sv2 |-> sv[s]]
    <3>1. G \cup S = G
      BY <1>1
    <3> QED
      BY <1>1, <1>8, <3>1 DEF Restrict
  <2>2. \A s \in DOMAIN sv2 : sv[s] \in [uid : Nat, handler : Handlers]
    BY <1>8 DEF JobsOK
  <2> QED
    BY <2>1, <2>2
<1>10. ASSUME NEW i \in 1 .. m, NEW j \in 1 .. m, i < j PROVE tr2[i].uid < tr2[j].uid
  <2>1. p[i] < p[j]
    BY <1>5, <1>6, <1>10 DEF Picks
  <2>2. tr[p[i]].uid < tr[p[j]].uid
    BY <1>1, <1>7, <2>1 DEF JobsOK
  <2> QED
    BY <1>7, <2>2
<1>11. ASSUME NEW i \in 1 .. m
       PROVE  /\ tr2[i].sock # 0 => /\ tr2[i].sock \in DOMAIN sv2
                                   /\ sv2[tr2[i].sock].uid = tr2[i].uid
              /\ tr2[i].parts \subseteq {tr2[i].sock} \ {0}
  <2>1. PICK k : k = p[i] /\ k \in 1 .. n /\ k \notin I /\ tr2[i] = tr[k]
    BY <1>7
  <2>2. /\ tr[k].sock # 0 => tr[k].sock \in DOMAIN sv /\ sv[tr[k].sock].uid = tr[k].uid
        /\ tr[k].parts \subseteq {tr[k].sock} \ {0}
    BY <1>1, <2>1 DEF JobsOK
  <2>3. tr[k].sock # 0 => tr[k].sock \notin G
    <3>1. SUFFICES ASSUME tr[k].sock # 0, NEW j \in I, tr[j].sock = tr[k].sock PROVE FALSE
      BY <1>1
    <3>2. j \in 1 .. Len(tr) /\ k \in 1 .. Len(tr)
      BY <1>1, <2>1
    <3> QED
      BY <2>1, <3>1, <3>2, JobsDiffer
  <2> QED
    BY <1>8, <2>1, <2>2, <2>3
<1>12. ASSUME NEW s \in DOMAIN sv2 PROVE \E i \in 1 .. m : tr2[i].sock = s
  <2>1. PICK k \in 1 .. n : tr[k].sock = s
    BY <1>1, <1>8 DEF JobsOK
  <2>2. k \in D /\ k \in 0 .. (n + 1) - 1
    BY <1>1, <1>2, <1>8, <2>1
  <2>3. PICK i \in 1 .. m : p[i] = k
    BY <1>5, <1>6, <2>2 DEF Picks
  <2> QED
    BY <1>7, <2>1, <2>3
<1>13. 0 \notin DOMAIN sv2
  BY <1>8 DEF JobsOK
<1> QED
  BY <1>4, <1>6, <1>9, <1>10, <1>11, <1>12, <1>13 DEF JobsOK

(* The handlers of sockets change, the sockets do not. *)
Handled(sv2, sv) ==
    /\ sv2 \in [DOMAIN sv2 -> [uid : Nat, handler : Handlers]]
    /\ DOMAIN sv2 = DOMAIN sv /\ \A s \in DOMAIN sv : sv2[s].uid = sv[s].uid

(* Jobs change in what does not tell them apart. *)
LEMMA JobsAlike ==
    ASSUME NEW tr, NEW sv, JobsOK(tr, sv), NEW tr2 \in Seq(Job), Len(tr2) = Len(tr),
           \A i \in 1 .. Len(tr) : /\ tr2[i].uid = tr[i].uid /\ tr2[i].sock = tr[i].sock
                                   /\ tr2[i].parts \subseteq {tr[i].sock} \ {0},
           NEW sv2, Handled(sv2, sv)
    PROVE  JobsOK(tr2, sv2)
<1>0. /\ sv2 \in [DOMAIN sv2 -> [uid : Nat, handler : Handlers]]
      /\ DOMAIN sv2 = DOMAIN sv /\ \A s \in DOMAIN sv : sv2[s].uid = sv[s].uid
  BY DEF Handled
<1>1. PICK n : n = Len(tr)
  OBVIOUS
<1>2. ASSUME NEW i \in 1 .. n, NEW j \in 1 .. n, i < j PROVE tr2[i].uid < tr2[j].uid
  BY <1>1, <1>2 DEF JobsOK
<1>3. ASSUME NEW i \in 1 .. n
      PROVE  /\ tr2[i].sock # 0 => tr2[i].sock \in DOMAIN sv2 /\ sv2[tr2[i].sock].uid = tr2[i].uid
             /\ tr2[i].parts \subseteq {tr2[i].sock} \ {0}
  <2>1. PICK s : s = tr[i].sock
    OBVIOUS
  <2>2. s # 0 => s \in DOMAIN sv /\ sv[s].uid = tr[i].uid
    BY <1>1, <2>1 DEF JobsOK
  <2>3. tr2[i].sock = s /\ tr2[i].uid = tr[i].uid /\ tr2[i].parts \subseteq {s} \ {0}
    BY <1>1, <2>1
  <2>4. s # 0 => sv2[s].uid = sv[s].uid
    BY <1>0, <2>2
  <2> QED
    BY <1>0, <2>2, <2>3, <2>4, Zenon
<1>4. ASSUME NEW s \in DOMAIN sv2 PROVE \E i \in 1 .. n : tr2[i].sock = s
  BY <1>0, <1>1 DEF JobsOK
<1>5. 0 \notin DOMAIN sv2
  BY <1>0 DEF JobsOK
<1> QED
  BY <1>0, <1>1, <1>2, <1>3, <1>4, <1>5 DEF JobsOK

(* A new job. *)
LEMMA JobsMore ==
    ASSUME NEW tr, NEW sv, JobsOK(tr, sv), NEW u \in Nat \ {0}, NEW n \in Nat \ {0},
           n \notin DOMAIN sv, NEW j \in Job, j.uid = u, j.sock = n, j.parts = {},
           \A i \in 1 .. Len(tr) : tr[i].uid < u, NEW tr2, NEW sv2, tr2 = Append(tr, j),
           sv2 = With(sv, n, [uid |-> u, handler |-> "part1"])
    PROVE  JobsOK(tr2, sv2)
<1>1. PICK m : m = Len(tr)
  OBVIOUS
<1>2. tr \in Seq(Job) /\ m \in Nat
  BY <1>1 DEF JobsOK
<1>3. /\ tr2 \in Seq(Job) /\ Len(tr2) = m + 1 /\ tr2[m + 1] = j
      /\ \A i \in 1 .. m : tr2[i] = tr[i]
  BY <1>1, <1>2
<1>4. /\ DOMAIN sv2 = DOMAIN sv \cup {n} /\ sv2[n] = [uid |-> u, handler |-> "part1"]
      /\ \A s \in DOMAIN sv : sv2[s] = sv[s]
  BY DEF With
<1>5. sv2 \in [DOMAIN sv2 -> [uid : Nat, handler : Handlers]]
  <2>1. [uid |-> u, handler |-> "part1"] \in [uid : Nat, handler : Handlers]
    BY DEF Handlers
  <2>2. \A s \in DOMAIN sv : sv[s] \in [uid : Nat, handler : Handlers]
    BY DEF JobsOK
  <2>3. \A s \in DOMAIN sv2 : sv2[s] \in [uid : Nat, handler : Handlers]
    BY <1>4, <2>1, <2>2
  <2>4. sv2 = [s \in DOMAIN sv2 |-> sv2[s]]
    BY <1>4 DEF With
  <2> QED
    BY <2>3, <2>4
<1>6. \A i \in 1 .. m + 1 : i = m + 1 \/ i \in 1 .. m
  BY <1>2
<1>7. ASSUME NEW i \in 1 .. m + 1, NEW k \in 1 .. m + 1, i < k PROVE tr2[i].uid < tr2[k].uid
  <2>1. i \in 1 .. m
    BY <1>2, <1>7
  <2>2. CASE k = m + 1
    BY <1>1, <1>3, <2>1, <2>2
  <2>3. CASE k \in 1 .. m
    BY <1>1, <1>3, <1>7, <2>1, <2>3 DEF JobsOK
  <2> QED
    BY <1>6, <2>2, <2>3
<1>8. ASSUME NEW i \in 1 .. m + 1
      PROVE  /\ tr2[i].sock # 0 => tr2[i].sock \in DOMAIN sv2 /\ sv2[tr2[i].sock].uid = tr2[i].uid
             /\ tr2[i].parts \subseteq {tr2[i].sock} \ {0}
  <2>1. CASE i = m + 1
    BY <1>3, <1>4, <2>1
  <2>2. CASE i \in 1 .. m
    BY <1>1, <1>3, <1>4, <2>2 DEF JobsOK
  <2> QED
    BY <1>6, <2>1, <2>2
<1>9. ASSUME NEW s \in DOMAIN sv2 PROVE \E i \in 1 .. m + 1 : tr2[i].sock = s
  <2>1. CASE s = n
    <3>1. m + 1 \in 1 .. m + 1
      BY <1>2
    <3> QED
      BY <1>3, <2>1, <3>1
  <2>2. CASE s \in DOMAIN sv
    <3>1. PICK i \in 1 .. m : tr[i].sock = s
      BY <1>1, <2>2 DEF JobsOK
    <3>2. i \in 1 .. m + 1
      BY <1>2
    <3> QED
      BY <1>3, <3>1, <3>2
  <2> QED
    BY <1>4, <2>1, <2>2
<1>10. 0 \notin DOMAIN sv2
  BY <1>4 DEF JobsOK
<1> QED
  BY <1>3, <1>5, <1>7, <1>8, <1>9, <1>10 DEF JobsOK

(* A new job that gets no socket. *)
LEMMA JobsWait ==
    ASSUME NEW tr, NEW sv, JobsOK(tr, sv), NEW u \in Nat \ {0}, NEW j \in Job, j.uid = u,
           j.sock = 0, j.parts = {}, \A i \in 1 .. Len(tr) : tr[i].uid < u, NEW tr2,
           tr2 = Append(tr, j)
    PROVE  JobsOK(tr2, sv)
<1>1. PICK m : m = Len(tr)
  OBVIOUS
<1>2. tr \in Seq(Job) /\ m \in Nat
  BY <1>1 DEF JobsOK
<1>3. /\ tr2 \in Seq(Job) /\ Len(tr2) = m + 1 /\ tr2[m + 1] = j
      /\ \A i \in 1 .. m : tr2[i] = tr[i]
  BY <1>1, <1>2
<1>4. \A i \in 1 .. m + 1 : i = m + 1 \/ i \in 1 .. m
  BY <1>2
<1>5. ASSUME NEW i \in 1 .. m + 1, NEW k \in 1 .. m + 1, i < k PROVE tr2[i].uid < tr2[k].uid
  <2>1. i \in 1 .. m
    BY <1>2, <1>5
  <2>2. CASE k = m + 1
    BY <1>1, <1>3, <2>1, <2>2
  <2>3. CASE k \in 1 .. m
    BY <1>1, <1>3, <1>5, <2>1, <2>3 DEF JobsOK
  <2> QED
    BY <1>4, <2>2, <2>3
<1>6. ASSUME NEW i \in 1 .. m + 1
      PROVE  /\ tr2[i].sock # 0 => tr2[i].sock \in DOMAIN sv /\ sv[tr2[i].sock].uid = tr2[i].uid
             /\ tr2[i].parts \subseteq {tr2[i].sock} \ {0}
  <2>1. CASE i = m + 1
    BY <1>3, <2>1
  <2>2. CASE i \in 1 .. m
    BY <1>1, <1>3, <2>2 DEF JobsOK
  <2> QED
    BY <1>4, <2>1, <2>2
<1>7. ASSUME NEW s \in DOMAIN sv PROVE \E i \in 1 .. m + 1 : tr2[i].sock = s
  <2>1. PICK i \in 1 .. m : tr[i].sock = s
    BY <1>1 DEF JobsOK
  <2>2. i \in 1 .. m + 1
    BY <1>2
  <2> QED
    BY <1>3, <2>1, <2>2
<1> QED
  BY <1>3, <1>5, <1>6, <1>7 DEF JobsOK

(* A job is found by its number, and no other has the number. *)
LEMMA FoundJob ==
    ASSUME NEW tr, NEW sv, JobsOK(tr, sv), NEW i \in 1 .. Len(tr), NEW u, tr[i].uid = u
    PROVE  gettranslate(tr, u) = i /\ \A x : Erased(tr, u, x) = {i}
<1>1. tr \in Seq(Job) /\ DOMAIN tr = 1 .. Len(tr) /\ Len(tr) \in Nat
  BY DEF JobsOK
<1>2. \A j \in 1 .. Len(tr) : tr[j].uid = u => j = i
  BY JobsDiffer
<1>3. PICK I : I = {j \in 1 .. Len(tr) : tr[j].uid = u}
  OBVIOUS
<1>4. I = {i}
  BY <1>2, <1>3
<1>5. gettranslate(tr, u) = IF I # {} THEN Min(I) ELSE 0
  BY <1>3, Zenon DEF gettranslate, SelectInSeq
<1>6. gettranslate(tr, u) = i
  <2>1. {i} \subseteq Nat /\ {i} # {}
    BY <1>1
  <2>2. Min({i}) \in {i}
    BY <2>1, MinMember
  <2> QED
    BY <1>4, <1>5, <2>2
<1>7. u # 0 /\ i # 0
  BY <1>1, JobFields
<1>8. {j \in DOMAIN tr : tr[j].uid = u} = {i}
  BY <1>1, <1>2
<1>9. ASSUME NEW x PROVE Erased(tr, u, x) = {i}
  BY <1>6, <1>7, <1>8, Zenon DEF Erased
<1> QED
  BY <1>6, <1>9, Zenon

(* So is the job of a socket. *)
LEMMA SocketJob ==
    ASSUME NEW tr, NEW sv, JobsOK(tr, sv), NEW s \in DOMAIN sv
    PROVE  \E i \in 1 .. Len(tr) :
             /\ gettranslate(tr, sv[s].uid) = i /\ tr[i].sock = s
             /\ \A x : Erased(tr, sv[s].uid, x) = {i}
<1>1. PICK i \in 1 .. Len(tr) : tr[i].sock = s
  BY DEF JobsOK
<1>2. s # 0
  BY DEF JobsOK
<1>3. tr[i].uid = sv[s].uid
  BY <1>1, <1>2 DEF JobsOK
<1>4. gettranslate(tr, sv[s].uid) = i /\ \A x : Erased(tr, sv[s].uid, x) = {i}
  BY <1>3, FoundJob
<1> QED
  BY <1>1, <1>4

LEMMA QuietJobs ==
    ASSUME JobsInv, translate' = translate, service' = service, overrun' = overrun,
           count \in Nat, count' \in Nat, count <= count'
    PROVE  JobsInv'
<1>1. DOMAIN service \subseteq 1 .. count'
  BY DEF JobsInv
<1> QED
  BY <1>1 DEF JobsInv

(* The number of a new job is higher than the ones in the list. *)
LEMMA NewNumber ==
    ASSUME NEW tr, NEW sv, JobsOK(tr, sv), NEW u,
           u = IF tr = <<>> THEN 1 ELSE Last(tr).uid + 1
    PROVE  u \in Nat \ {0} /\ \A i \in 1 .. Len(tr) : tr[i].uid < u
<1>1. tr \in Seq(Job)
  BY DEF JobsOK
<1>2. CASE tr = <<>>
  BY <1>2
<1>3. CASE tr # <<>>
  <2>1. PICK m, l : m = Len(tr) /\ l = tr[Len(tr)]
    OBVIOUS
  <2>2. m \in Nat /\ m \in 1 .. m /\ m = Len(tr)
    BY <1>1, <1>3, <2>1, EmptySeq
  <2>3. l.uid \in Nat
    BY <2>1, <2>2, JobFields
  <2>4. u = l.uid + 1
    BY <1>3, <2>1 DEF Last
  <2>5. ASSUME NEW i \in 1 .. m PROVE tr[i].uid < u
    <3>1. tr[i].uid \in Nat
      BY <2>1, JobFields
    <3>2. i < m => tr[i].uid < tr[m].uid
      BY <2>1, <2>2 DEF JobsOK
    <3>3. tr[i].uid <= l.uid
      BY <2>1, <2>2, <2>3, <3>1, <3>2
    <3> QED
      BY <2>3, <2>4, <3>1, <3>3
  <2> QED
    BY <2>1, <2>3, <2>4, <2>5
<1> QED
  BY <1>2, <1>3

(* A new text for the service, whose socket has a new number, or none. *)
LEMMA AddJob ==
    ASSUME JobsInv, count \in Nat, count' = count + 1, NEW h \in Hosts,
           NEW dir \in {"TO", "FROM"}, addtranslate(count', h, dir)
    PROVE  JobsInv'
<1>1. PICK n, u : n = count + 1 /\ u = IF translate = <<>> THEN 1 ELSE Last(translate).uid + 1
  OBVIOUS
<1>2. PICK j, w, x, y : /\ j = [uid |-> u, sock |-> n, dest |-> h, dir |-> dir,
                                delayed |-> TIMEOUT, parts |-> {}]
                        /\ w = [uid |-> u, sock |-> 0, dest |-> h, dir |-> dir,
                                delayed |-> TIMEOUT, parts |-> {}]
                        /\ x = Append(translate, j)
                        /\ y = With(service, n, [uid |-> u, handler |-> "part1"])
  OBVIOUS
<1>3. \/ overrun' = TRUE /\ service' = service
      \/ translate' = x /\ service' = y /\ overrun' = overrun
      \/ translate' = Append(translate, w) /\ service' = service /\ overrun' = overrun
      \/ Erase(x, y, Erased(x, u, n), {n})
  <2>1. newtranslate(u, n, h, dir)
    BY <1>1, Zenon DEF addtranslate
  <2>2. NewJob(u, n, h, dir) = j /\ NewJob(u, 0, h, dir) = w
    BY <1>2, Zenon DEF NewJob
  <2> QED
    BY <1>2, <2>1, <2>2, Zenon DEF newtranslate
<1>4. n \in Nat \ {0} /\ DOMAIN service \subseteq 1 .. count /\ n \notin DOMAIN service
      /\ 1 .. count \subseteq 1 .. n /\ n \in 1 .. n
  BY <1>1 DEF JobsInv
<1>5. DOMAIN y = DOMAIN service \cup {n}
  BY <1>2 DEF With
<1>6. ASSUME ~overrun
      PROVE  /\ JobsOK(translate, service) /\ translate \in Seq(Job)
             /\ u \in Nat \ {0} /\ \A i \in 1 .. Len(translate) : translate[i].uid < u
             /\ j \in Job /\ j.uid = u /\ j.sock = n /\ j.parts = {}
             /\ w \in Job /\ w.uid = u /\ w.sock = 0 /\ w.parts = {}
  <2>1. JobsOK(translate, service) /\ translate \in Seq(Job)
    BY <1>6 DEF JobsInv, JobsOK
  <2>2. u \in Nat \ {0} /\ \A i \in 1 .. Len(translate) : translate[i].uid < u
    BY <1>1, <2>1, NewNumber
  <2> QED
    BY <1>2, <1>4, <2>1, <2>2, MessagesAssumption DEF Job
<1>7. ASSUME ~overrun PROVE JobsOK(x, y)
  BY <1>2, <1>4, <1>6, <1>7, JobsMore
<1>8. CASE overrun' = TRUE /\ service' = service
  BY <1>1, <1>4, <1>8 DEF JobsInv
<1>9. CASE translate' = x /\ service' = y /\ overrun' = overrun
  <2>1. DOMAIN service' \subseteq 1 .. count'
    BY <1>1, <1>4, <1>5, <1>9
  <2> QED
    BY <1>7, <1>9, <2>1 DEF JobsInv
<1>10. CASE translate' = Append(translate, w) /\ service' = service /\ overrun' = overrun
  <2>1. DOMAIN service' \subseteq 1 .. count'
    BY <1>1, <1>4, <1>10
  <2>2. ASSUME ~overrun PROVE JobsOK(translate', service')
    BY <1>6, <1>10, <2>2, JobsWait
  <2> QED
    BY <1>10, <2>1, <2>2 DEF JobsInv
<1>11. CASE Erase(x, y, Erased(x, u, n), {n})
  <2>1. PICK I : I = Erased(x, u, n)
    OBVIOUS
  <2>2. /\ translate' = Collected(x, DOMAIN x \ I, Len(x) + 1)
        /\ service' = Restrict(y, DOMAIN y \ ({x[i].sock : i \in I} \cup {n}))
        /\ overrun' = overrun
    BY <1>11, <2>1, Zenon DEF Erase, Without
  <2>3. DOMAIN service' \subseteq 1 .. count'
    <3>1. DOMAIN service' \subseteq DOMAIN y
      BY <2>2 DEF Restrict
    <3> QED
      BY <1>1, <1>4, <1>5, <3>1
  <2>4. ASSUME ~overrun PROVE JobsOK(translate', service')
    <3>1. PICK m : m = Len(translate) + 1
      OBVIOUS
    <3>2. m \in 1 .. Len(x) /\ x[m] = j
      BY <1>2, <1>6, <2>4, <3>1
    <3>3. x[m].uid = u /\ x[m].sock = n
      BY <1>6, <2>4, <3>2
    <3>4. JobsOK(x, y)
      BY <1>7, <2>4
    <3>5. I = {m}
      BY <2>1, <3>2, <3>3, <3>4, FoundJob
    <3>6. I \subseteq 1 .. Len(x) /\ {n} \subseteq {x[i].sock : i \in I}
      BY <3>2, <3>3, <3>5
    <3> QED
      BY <2>2, <3>4, <3>6, JobsLess
  <2> QED
    BY <2>2, <2>3, <2>4 DEF JobsInv
<1> QED
  BY <1>3, <1>8, <1>9, <1>10, <1>11

(* The job of a socket goes with it. *)
LEMMA EraseJob ==
    ASSUME JobsInv, count' = count, NEW s \in DOMAIN service, NEW x, NEW S \in SUBSET {s},
           Erase(translate, service, Erased(translate, service[s].uid, x), S)
    PROVE  JobsInv'
<1>1. PICK I : I = Erased(translate, service[s].uid, x)
  OBVIOUS
<1>2. /\ translate' = Collected(translate, DOMAIN translate \ I, Len(translate) + 1)
      /\ service' = Restrict(service, DOMAIN service \ ({translate[i].sock : i \in I} \cup S))
      /\ overrun' = overrun
  BY <1>1, Zenon DEF Erase, Without
<1>3. DOMAIN service' \subseteq DOMAIN service
  BY <1>2 DEF Restrict
<1>4. ASSUME ~overrun PROVE JobsOK(translate', service')
  <2>1. JobsOK(translate, service)
    BY <1>4 DEF JobsInv
  <2>2. PICK i \in 1 .. Len(translate) :
               /\ translate[i].sock = s
               /\ \A y : Erased(translate, service[s].uid, y) = {i}
    BY <2>1, SocketJob
  <2>3. I = {i}
    BY <1>1, <2>2
  <2>4. I \subseteq 1 .. Len(translate) /\ S \subseteq {translate[k].sock : k \in I}
    BY <2>2, <2>3
  <2> QED
    BY <1>2, <2>1, <2>4, JobsLess
<1> QED
  BY <1>2, <1>3, <1>4 DEF JobsInv

(* A handler keeps a piece of its line with its job. *)
Pieced(tr, i) == [tr EXCEPT ![i].parts = @ \cup {tr[i].sock}]

LEMMA KeepPart ==
    ASSUME NEW tr, NEW sv, JobsOK(tr, sv), NEW i \in 1 .. Len(tr), tr[i].sock # 0, NEW tr2,
           tr2 = Pieced(tr, i)
    PROVE  /\ tr2 \in Seq(Job) /\ Len(tr2) = Len(tr)
           /\ \A k \in 1 .. Len(tr) : /\ tr2[k].uid = tr[k].uid /\ tr2[k].sock = tr[k].sock
                                      /\ tr2[k].parts \subseteq {tr[k].sock} \ {0}
<1>1. tr \in Seq(Job) /\ tr[i] \in Job
  <2>1. tr \in Seq(Job)
    BY DEF JobsOK
  <2> QED
    BY <2>1, JobFields
<1>2. PICK j, p : j = [tr[i] EXCEPT !.parts = p] /\ p = tr[i].parts \cup {tr[i].sock}
  OBVIOUS
<1>3. tr2 = [tr EXCEPT ![i] = j]
  BY <1>2 DEF Pieced
<1>4. tr[i].parts \subseteq {tr[i].sock} \ {0}
  BY DEF JobsOK
<1>5. p \in SUBSET Nat /\ p \subseteq {tr[i].sock} \ {0}
  BY <1>1, <1>2, <1>4 DEF Job
<1>6. j \in Job /\ j.uid = tr[i].uid /\ j.sock = tr[i].sock /\ j.parts = p
  BY <1>1, <1>2, <1>5 DEF Job
<1>7. /\ tr2 \in Seq(Job) /\ Len(tr2) = Len(tr)
      /\ \A k \in 1 .. Len(tr) : tr2[k] = IF k = i THEN j ELSE tr[k]
  <2>1. PICK n : n = Len(tr) /\ n \in Nat
    BY <1>1
  <2>2. tr \in [1 .. n -> Job]
    BY <1>1, <2>1, LenProperties
  <2>3. tr2 \in [1 .. n -> Job] /\ \A k \in 1 .. n : tr2[k] = IF k = i THEN j ELSE tr[k]
    BY <1>3, <1>6, <2>1, <2>2
  <2>4. tr2 \in Seq(Job)
    BY <2>1, <2>3, SeqDef
  <2>5. Len(tr2) = n
    BY <2>1, <2>3, <2>4, LenProperties
  <2> QED
    BY <2>1, <2>3, <2>4, <2>5
<1>8. \A k \in 1 .. Len(tr) : tr[k].parts \subseteq {tr[k].sock} \ {0}
  BY DEF JobsOK
<1> QED
  BY <1>5, <1>6, <1>7, <1>8

(* A line of the service or the end of a connection. *)
LEMMA ServiceJobs ==
    ASSUME JobsInv, count' = count, NEW s \in DOMAIN service,
           translatedpart(s) \/ translatedtext(s) \/ translatedpart4(s) \/ translatedone(s)
    PROVE  JobsInv'
<1>1. CASE translatedpart4(s) \/ translatedone(s)
  <2>1. {} \in SUBSET {s} /\ {s} \in SUBSET {s}
    OBVIOUS
  <2>2. CASE translatedpart4(s)
    BY <2>1, <2>2, EraseJob, Zenon DEF translatedpart4
  <2>3. CASE translatedone(s)
    BY <2>1, <2>3, EraseJob, Zenon DEF translatedone
  <2> QED
    BY <1>1, <2>2, <2>3
<1>2. CASE translatedtext(s)
  <2>1. service' = service /\ overrun' = overrun
    BY <1>2 DEF translatedtext
  <2>2. ASSUME ~overrun PROVE JobsOK(translate', service')
    <3>1. JobsOK(translate, service)
      BY <2>2 DEF JobsInv
    <3>2. PICK i \in 1 .. Len(translate) : /\ gettranslate(translate, service[s].uid) = i
                                           /\ translate[i].sock = s /\ s # 0
      BY <3>1, SocketJob DEF JobsOK
    <3>3. translate' = Pieced(translate, i)
      BY <1>2, <3>2 DEF translatedtext, Pieced
    <3>4. /\ translate' \in Seq(Job) /\ Len(translate') = Len(translate)
          /\ \A k \in 1 .. Len(translate) : /\ translate'[k].uid = translate[k].uid
                                            /\ translate'[k].sock = translate[k].sock
                                            /\ translate'[k].parts \subseteq {translate[k].sock} \ {0}
      <4>1. translate[i].sock # 0
        BY <3>2
      <4> QED
        BY <3>1, <3>3, <4>1, KeepPart
    <3>5. Handled(service', service)
      BY <2>1, <3>1 DEF JobsOK, Handled
    <3> QED
      BY <2>1, <3>1, <3>4, <3>5, JobsAlike
  <2> QED
    BY <2>1, <2>2 DEF JobsInv
<1>3. CASE translatedpart(s)
  <2>1. PICK i, own, hd : i = gettranslate(translate, service[s].uid) /\ own = translate[i].sock
                          /\ hd = service[s].handler
    OBVIOUS
  <2>2. CASE ~ (own \in DOMAIN service)
    <3>1. Erase(translate, service, Erased(translate, service[s].uid, 0), {}) /\ {} \in SUBSET {s}
      BY <1>3, <2>1, <2>2 DEF translatedpart
    <3> QED
      BY <3>1, EraseJob
  <2>3. CASE own \in DOMAIN service
    <3>1. /\ hd # "part4" /\ service' = [service EXCEPT ![own].handler = After[hd]]
          /\ translate' = IF hd = "part1" THEN translate
                          ELSE [translate EXCEPT ![i].parts = @ \cup {s}]
          /\ overrun' = overrun
      BY <1>3, <2>1, <2>3, Zenon DEF translatedpart
    <3>2. DOMAIN service' = DOMAIN service
      BY <3>1
    <3>3. ASSUME ~overrun PROVE JobsOK(translate', service')
      <4>1. JobsOK(translate, service)
        BY <3>3 DEF JobsInv
      <4>2. i \in 1 .. Len(translate) /\ own = s /\ own # 0
        <5>1. i \in 1 .. Len(translate) /\ own = s
          BY <2>1, <4>1, SocketJob
        <5> QED
          BY <4>1, <5>1 DEF JobsOK
      <4>3. /\ translate' \in Seq(Job) /\ Len(translate') = Len(translate)
            /\ \A k \in 1 .. Len(translate) : /\ translate'[k].uid = translate[k].uid
                                              /\ translate'[k].sock = translate[k].sock
                                              /\ translate'[k].parts \subseteq {translate[k].sock} \ {0}
        <5>1. CASE hd = "part1"
          BY <3>1, <4>1, <5>1 DEF JobsOK
        <5>2. CASE hd # "part1"
          <6>1. translate' = Pieced(translate, i)
            BY <2>1, <3>1, <4>2, <5>2 DEF Pieced
          <6>2. translate[i].sock # 0
            BY <2>1, <4>2
          <6> QED
            BY <4>1, <4>2, <6>1, <6>2, KeepPart
        <5> QED
          BY <5>1, <5>2
      <4>4. PICK a : a = After[hd]
        OBVIOUS
      <4>5. service[s] \in [uid : Nat, handler : Handlers] /\ hd \in Handlers
        BY <2>1, <4>1 DEF JobsOK
      <4>6. a \in Handlers
        BY <3>1, <4>4, <4>5 DEF After, Handlers
      <4>7. PICK r : r = [service[s] EXCEPT !.handler = a]
        OBVIOUS
      <4>8. r \in [uid : Nat, handler : Handlers] /\ r.uid = service[s].uid
        BY <4>5, <4>6, <4>7
      <4>9. service' = [service EXCEPT ![s] = r]
        BY <3>1, <4>2, <4>4, <4>7
      <4>10. service \in [DOMAIN service -> [uid : Nat, handler : Handlers]]
        BY <4>1 DEF JobsOK
      <4>11. /\ service' \in [DOMAIN service' -> [uid : Nat, handler : Handlers]]
             /\ \A t \in DOMAIN service : service'[t].uid = service[t].uid
        BY <3>2, <4>8, <4>9, <4>10
      <4> QED
        <5>1. PICK tr2, sv2 : tr2 = translate' /\ sv2 = service'
          OBVIOUS
        <5>2. /\ tr2 \in Seq(Job) /\ Len(tr2) = Len(translate)
              /\ \A k \in 1 .. Len(translate) :
                   /\ tr2[k].uid = translate[k].uid /\ tr2[k].sock = translate[k].sock
                   /\ tr2[k].parts \subseteq {translate[k].sock} \ {0}
          BY <4>3, <5>1
        <5>3. Handled(sv2, service)
          BY <3>2, <4>11, <5>1 DEF Handled
        <5>4. JobsOK(tr2, sv2)
          BY <4>1, <5>2, <5>3, JobsAlike
        <5> QED
          BY <5>1, <5>4
    <3> QED
      BY <3>1, <3>2, <3>3 DEF JobsInv
  <2> QED
    BY <2>2, <2>3
<1> QED
  BY <1>1, <1>2, <1>3

(* cleartranslates(): a job that is late goes alone. *)
LEMMA ClearJobs ==
    ASSUME JobsInv, count' = count, cleartranslates
    PROVE  JobsInv'
<1>1. PICK late : late = {i \in DOMAIN translate : translate[i].delayed - 1 <= 0}
  OBVIOUS
<1>2. PICK gone : gone = UNION {IF translate[i].uid = 0 THEN {i}
                                ELSE Erased(translate, translate[i].uid, 0) : i \in late}
  OBVIOUS
<1>3. PICK kept : kept = Without(translate, gone)
  OBVIOUS
<1>4. /\ translate' = [i \in DOMAIN kept |-> [kept[i] EXCEPT !.delayed = @ - 1]]
      /\ service' = Restrict(service, DOMAIN service \ {translate[i].sock : i \in gone})
      /\ overrun' = overrun
  BY <1>1, <1>2, <1>3, Zenon DEF cleartranslates
<1>5. DOMAIN service' \subseteq DOMAIN service
  BY <1>4 DEF Restrict
<1>6. ASSUME ~overrun PROVE JobsOK(translate', service')
  <2>1. JobsOK(translate, service) /\ translate \in Seq(Job)
        /\ DOMAIN translate = 1 .. Len(translate)
    BY <1>6 DEF JobsInv, JobsOK
  <2>2. ASSUME NEW i \in late
        PROVE  (IF translate[i].uid = 0 THEN {i} ELSE Erased(translate, translate[i].uid, 0)) = {i}
    <3>1. i \in 1 .. Len(translate)
      BY <1>1, <2>1
    <3>2. translate[i].uid # 0
      BY <2>1, <3>1, JobFields
    <3>3. Erased(translate, translate[i].uid, 0) = {i}
      <4>1. PICK u : translate[i].uid = u
        OBVIOUS
      <4>2. \A x : Erased(translate, u, x) = {i}
        BY <2>1, <3>1, <4>1, FoundJob
      <4>3. Erased(translate, u, 0) = {i}
        BY <4>2, Zenon
      <4> QED
        BY <4>1, <4>3
    <3> QED
      BY <3>2, <3>3
  <2>3. gone = late
    BY <1>2, <2>2
  <2>4. gone \subseteq 1 .. Len(translate)
    BY <1>1, <2>1, <2>3
  <2>5. PICK G, sv : G = {translate[i].sock : i \in gone} /\ sv = service'
    OBVIOUS
  <2>6. {} \subseteq {translate[i].sock : i \in gone}
        /\ {translate[i].sock : i \in gone} \cup {} = {translate[i].sock : i \in gone}
    OBVIOUS
  <2>7. JobsOK(kept, sv)
    <3>1. kept = Collected(translate, DOMAIN translate \ gone, Len(translate) + 1)
      BY <1>3 DEF Without
    <3>2. sv = Restrict(service, DOMAIN service \ ({translate[i].sock : i \in gone} \cup {}))
      BY <1>4, <2>5, <2>6
    <3> QED
      BY <2>1, <2>4, <2>6, <3>1, <3>2, JobsLess
  <2>8. kept \in Seq(Job) /\ DOMAIN kept = 1 .. Len(kept) /\ Len(kept) \in Nat
    BY <2>7 DEF JobsOK
  <2>9. ASSUME NEW i \in 1 .. Len(kept)
        PROVE  /\ translate'[i] \in Job /\ translate'[i].uid = kept[i].uid
               /\ translate'[i].sock = kept[i].sock /\ translate'[i].parts \subseteq {kept[i].sock} \ {0}
    <3>1. kept[i] \in Job
      BY <2>7, JobFields
    <3>2. PICK j, d : j = [kept[i] EXCEPT !.delayed = d] /\ d = kept[i].delayed - 1
      OBVIOUS
    <3>3. d \in Int
      BY <3>1, <3>2 DEF Job
    <3>4. j \in Job /\ j.uid = kept[i].uid /\ j.sock = kept[i].sock /\ j.parts = kept[i].parts
      BY <3>1, <3>2, <3>3 DEF Job
    <3>5. translate'[i] = j
      BY <1>4, <2>8, <3>2
    <3>6. kept[i].parts \subseteq {kept[i].sock} \ {0}
      BY <2>7 DEF JobsOK
    <3> QED
      BY <3>4, <3>5, <3>6
  <2>10. translate' \in Seq(Job) /\ Len(translate') = Len(kept)
    <3>1. translate' \in [1 .. Len(kept) -> Job]
      BY <1>4, <2>8, <2>9
    <3>2. translate' \in Seq(Job)
      BY <2>8, <3>1, SeqDef
    <3> QED
      BY <2>8, <3>1, <3>2, LenProperties
  <2>11. Handled(sv, sv)
    BY <2>7 DEF JobsOK, Handled
  <2>12. JobsOK(translate', sv)
    BY <2>7, <2>9, <2>10, <2>11, JobsAlike
  <2> QED
    BY <2>5, <2>12
<1> QED
  BY <1>4, <1>5, <1>6 DEF JobsInv

-----------------------------------------------------------------------------
(* Logs *)

Numbers(q, c) == q \in Seq(Nat) /\ \A i \in 1 .. Len(q) : q[i] \in 1 .. c

(* Messages that were not hidden are in the private log or its copy. *)
LogsOK(pr, qs, c) ==
    /\ pr = [log |-> pr.log, old |-> pr.old]
    /\ Numbers(pr.log, c) /\ Numbers(pr.old, c)
    /\ \A q \in qs : q[2] = "text" => q[1] \in ToSet(pr.log) \cup ToSet(pr.old)

Rising(q) == \A i, j \in 1 .. Len(q) : i < j => q[i] < q[j]

(* What is behind a mark, the one in memory or the saved one, is younger     *)
(* than all that has been played.                                            *)
TrafficOK(tr, mark, sv, pl, c) ==
    /\ Numbers(tr, c) /\ Numbers(pl, c) /\ Rising(tr) /\ Rising(pl)
    /\ Len(tr) <= c /\ mark \in 0 .. c /\ sv \in 0 .. c
    /\ \A i \in 1 .. Len(tr), j \in 1 .. Len(pl) : i > mark \/ i > sv => pl[j] < tr[i]

LEMMA NumbersGrow ==
    ASSUME NEW c \in Nat, NEW d \in Nat, c <= d, NEW q, Numbers(q, c)
    PROVE  Numbers(q, d)
<1>1. \A i \in 1 .. Len(q) : q[i] \in 1 .. d
  BY DEF Numbers
<1> QED
  BY <1>1 DEF Numbers

(* r is the log q with the next message d at its end. *)
Longer(r, q, d) ==
    /\ Numbers(r, d) /\ Len(r) = Len(q) + 1 /\ r[Len(q) + 1] = d
    /\ \A i \in 1 .. Len(q) : r[i] = q[i]

LEMMA NumbersMore ==
    ASSUME NEW c \in Nat, NEW d \in Nat, c < d, NEW q, Numbers(q, c)
    PROVE  Longer(Append(q, d), q, d)
<1>1. PICK m, r : m = Len(q) /\ r = Append(q, d)
  OBVIOUS
<1>2. q \in Seq(Nat) /\ m \in Nat /\ \A i \in 1 .. m : q[i] \in 1 .. c
  BY <1>1 DEF Numbers
<1>3. r \in Seq(Nat) /\ Len(r) = m + 1 /\ r[m + 1] = d /\ \A i \in 1 .. m : r[i] = q[i]
  BY <1>1, <1>2
<1>4. ASSUME NEW i \in 1 .. m + 1 PROVE r[i] \in 1 .. d
  <2>1. CASE i = m + 1
    <3>1. r[i] = d
      BY <1>3, <2>1, Zenon
    <3>2. d \in 1 .. d
      OBVIOUS
    <3> QED
      BY <3>1, <3>2, Zenon
  <2>2. CASE i \in 1 .. m
    <3>1. r[i] = q[i]
      BY <1>3, <2>2, Zenon
    <3>2. q[i] \in 1 .. c
      BY <1>2, <2>2, Zenon
    <3>3. \A x \in 1 .. c : x \in 1 .. d
      OBVIOUS
    <3> QED
      BY <3>1, <3>2, <3>3, Zenon
  <2>3. i = m + 1 \/ i \in 1 .. m
    BY <1>2
  <2> QED
    BY <2>1, <2>2, <2>3
<1>5. Numbers(r, d)
  BY <1>3, <1>4 DEF Numbers
<1> QED
  BY <1>1, <1>3, <1>5, Zenon DEF Longer

LEMMA QuietLogs ==
    ASSUME NEW c \in Nat, NEW d \in Nat, c <= d, NEW pr, NEW qs, LogsOK(pr, qs, c),
           NEW rs, \A q \in rs : q \in qs \/ q[2] # "text"
    PROVE  LogsOK(pr, rs, d)
<1>1. Numbers(pr.log, d) /\ Numbers(pr.old, d)
  BY NumbersGrow DEF LogsOK
<1> QED
  BY <1>1 DEF LogsOK

(* privatelog() *)
LEMMA LogMessage ==
    ASSUME NEW c \in Nat, NEW d \in Nat, d = c + 1, NEW pr, NEW qs, LogsOK(pr, qs, c),
           NEW rs, \A q \in rs : q \in qs \/ q[1] = d
    PROVE  LogsOK([pr EXCEPT !.log = Append(@, d)], rs, d)
<1>1. PICK a, b, r, p2 : /\ a = pr.log /\ b = pr.old /\ r = Append(a, d)
                         /\ p2 = [pr EXCEPT !.log = Append(@, d)]
  OBVIOUS
<1>2. pr = [log |-> a, old |-> b] /\ Numbers(a, c) /\ Numbers(b, c)
  BY <1>1 DEF LogsOK
<1>3. p2 = [log |-> r, old |-> b]
  BY <1>1, <1>2
<1>4. /\ Numbers(r, d) /\ Len(r) = Len(a) + 1 /\ r[Len(a) + 1] = d
      /\ \A i \in 1 .. Len(a) : r[i] = a[i]
  <2>1. c < d /\ Numbers(a, c)
    BY <1>2
  <2>2. Longer(Append(a, d), a, d)
    BY <2>1, NumbersMore
  <2> QED
    BY <1>1, <2>2 DEF Longer
<1>5. Numbers(b, d)
  <2>1. c <= d
    OBVIOUS
  <2> QED
    BY <1>2, <2>1, NumbersGrow
<1>6. DOMAIN a = 1 .. Len(a) /\ DOMAIN r = 1 .. Len(a) + 1 /\ Len(a) \in Nat
  BY <1>2, <1>4 DEF Numbers
<1>7. d \in ToSet(r) /\ ToSet(a) \subseteq ToSet(r)
  <2>1. Len(a) + 1 \in DOMAIN r /\ \A i \in DOMAIN a : i \in DOMAIN r
    BY <1>6
  <2> QED
    BY <1>4, <1>6, <2>1 DEF ToSet
<1>8. \A q \in rs : q[2] = "text" => q[1] \in ToSet(r) \cup ToSet(b)
  BY <1>1, <1>7 DEF LogsOK
<1>9. p2.log = r /\ p2.old = b
  BY <1>3
<1> QED
  BY <1>1, <1>3, <1>4, <1>5, <1>8, <1>9 DEF LogsOK

LEMMA QuietTraffic ==
    ASSUME NEW c \in Nat, NEW d \in Nat, c <= d, NEW tr, NEW mark, NEW sv, NEW pl,
           TrafficOK(tr, mark, sv, pl, c)
    PROVE  TrafficOK(tr, mark, sv, pl, d)
<1>1. Numbers(tr, d) /\ Numbers(pl, d)
  BY NumbersGrow DEF TrafficOK
<1>2. Len(tr) \in Nat
  BY <1>1 DEF Numbers
<1>3. Len(tr) <= d /\ mark \in 0 .. d /\ sv \in 0 .. d
  BY <1>2 DEF TrafficOK
<1> QED
  BY <1>1, <1>3 DEF TrafficOK

(* checklogging() *)
LEMMA LogTraffic ==
    ASSUME NEW c \in Nat, NEW d \in Nat, d = c + 1, NEW tr, NEW mark, NEW sv, NEW pl, TrafficOK(tr, mark, sv, pl, c)
    PROVE  TrafficOK(Append(tr, d), mark, sv, pl, d)
<1>1. PICK m, n, r : m = Len(tr) /\ n = Len(pl) /\ r = Append(tr, d)
  OBVIOUS
<1>2. /\ Numbers(tr, c) /\ Numbers(pl, c) /\ Rising(tr) /\ Rising(pl)
      /\ m <= c /\ mark \in 0 .. c /\ sv \in 0 .. c /\ m \in Nat
      /\ \A i \in 1 .. m : tr[i] \in 1 .. c
      /\ \A i \in 1 .. n : pl[i] \in 1 .. c
  BY <1>1 DEF TrafficOK, Numbers
<1>3. /\ Numbers(r, d) /\ Len(r) = m + 1 /\ r[m + 1] = d
      /\ \A i \in 1 .. m : r[i] = tr[i]
  <2>1. /\ Numbers(r, d) /\ Len(r) = Len(tr) + 1 /\ r[Len(tr) + 1] = d
        /\ \A i \in 1 .. Len(tr) : r[i] = tr[i]
    <3>1. c < d /\ Numbers(tr, c)
      BY <1>2
    <3>2. Longer(Append(tr, d), tr, d)
      BY <3>1, NumbersMore
    <3> QED
      BY <1>1, <3>2 DEF Longer
  <2> QED
    BY <1>1, <2>1
<1>4. Numbers(pl, d)
  <2>1. c <= d
    OBVIOUS
  <2> QED
    BY <1>2, <2>1, NumbersGrow
<1>5. \A i \in 1 .. m + 1 : i = m + 1 \/ i \in 1 .. m
  BY <1>2
<1>6. ASSUME NEW i \in 1 .. m + 1, NEW j \in 1 .. m + 1, i < j PROVE r[i] < r[j]
  <2>1. i \in 1 .. m
    BY <1>2, <1>6
  <2>2. CASE j = m + 1
    BY <1>2, <1>3, <2>1, <2>2
  <2>3. CASE j \in 1 .. m
    BY <1>1, <1>2, <1>3, <1>6, <2>1, <2>3 DEF Rising
  <2> QED
    BY <1>5, <2>2, <2>3
<1>7. ASSUME NEW i \in 1 .. m + 1, NEW j \in 1 .. n, i > mark \/ i > sv PROVE pl[j] < r[i]
  <2>1. CASE i = m + 1
    BY <1>2, <1>3, <2>1
  <2>2. CASE i \in 1 .. m
    BY <1>1, <1>3, <1>7, <2>2 DEF TrafficOK
  <2> QED
    BY <1>5, <2>1, <2>2
<1>8. m + 1 <= d /\ mark \in 0 .. d /\ sv \in 0 .. d
  BY <1>2
<1>9. Rising(r)
  BY <1>3, <1>6 DEF Rising
<1> QED
  BY <1>1, <1>2, <1>3, <1>4, <1>7, <1>8, <1>9 DEF TrafficOK

(* The end of a log, put behind what is younger. *)
LEMMA PlayedRising ==
    ASSUME NEW n \in Nat, NEW k \in Nat, NEW m \in Nat, NEW mark \in Nat, k > 0 => mark + k <= m,
           NEW pl, NEW tr, NEW p2,
           \A i, j \in 1 .. n : i < j => pl[i] < pl[j],
           \A i, j \in 1 .. m : i < j => tr[i] < tr[j],
           \A i \in 1 .. m, j \in 1 .. n : i > mark => pl[j] < tr[i],
           \A i \in 1 .. n + k : p2[i] = IF i <= n THEN pl[i] ELSE tr[mark + (i - n)],
           NEW i \in 1 .. n + k, NEW j \in 1 .. n + k, i < j
    PROVE  p2[i] < p2[j]
<1>1. PICK x : x = mark + (i - n)
  OBVIOUS
<1>2. PICK y : y = mark + (j - n)
  OBVIOUS
<1>3. p2[i] = (IF i <= n THEN pl[i] ELSE tr[x]) /\ p2[j] = (IF j <= n THEN pl[j] ELSE tr[y])
  BY <1>1, <1>2
<1>4. CASE j <= n
  BY <1>3, <1>4
<1>5. CASE ~ (j <= n)
  <2>1. y \in 1 .. m /\ y > mark /\ p2[j] = tr[y]
    BY <1>2, <1>3, <1>5
  <2>2. CASE i <= n
    BY <1>3, <2>1, <2>2
  <2>3. CASE ~ (i <= n)
    <3>1. x \in 1 .. m /\ x < y /\ p2[i] = tr[x]
      BY <1>1, <1>2, <1>3, <2>1, <2>3
    <3> QED
      BY <2>1, <3>1
  <2> QED
    BY <2>2, <2>3
<1> QED
  BY <1>4, <1>5

(* playtrafficlog() with LAST *)
LEMMA PlayTraffic ==
    ASSUME NEW c \in Nat, NEW tr, NEW mark, NEW sv, NEW pl, TrafficOK(tr, mark, sv, pl, c)
    PROVE  TrafficOK(tr, Max({mark, Len(tr)}), Max({mark, Len(tr)}),
                     pl \o SubSeq(tr, mark + 1, Len(tr)), c)
<1>0. PICK p2, m2 : p2 = pl \o SubSeq(tr, mark + 1, Len(tr)) /\ m2 = Max({mark, Len(tr)})
  OBVIOUS
<1>1. PICK m, n, s : m = Len(tr) /\ n = Len(pl) /\ s = SubSeq(tr, mark + 1, m)
  OBVIOUS
<1>2. /\ Numbers(tr, c) /\ Numbers(pl, c) /\ Rising(tr) /\ Rising(pl)
      /\ m <= c /\ mark \in 0 .. c /\ sv \in 0 .. c /\ m \in Nat /\ n \in Nat
      /\ tr \in Seq(Nat) /\ pl \in Seq(Nat)
      /\ \A i \in 1 .. m : tr[i] \in 1 .. c
      /\ \A i \in 1 .. n : pl[i] \in 1 .. c
  BY <1>1 DEF TrafficOK, Numbers
<1>3. m2 \in {mark, m} /\ m2 >= m /\ m2 >= mark
  <2>1. \E x \in {mark, m} : \A y \in {mark, m} : x >= y
    BY <1>2
  <2>2. Max({mark, m}) \in {mark, m} /\ \A y \in {mark, m} : Max({mark, m}) >= y
    BY <2>1, MaxMember
  <2> QED
    BY <1>0, <1>1, <2>2
<1>4. m2 \in 0 .. c
  BY <1>2, <1>3
<1>5. PICK k : k = IF mark + 1 <= m THEN m - mark ELSE 0
  OBVIOUS
<1>6. s \in Seq(Nat) /\ Len(s) = k /\ k \in Nat /\ \A i \in 1 .. k : s[i] = tr[mark + i]
  <2>1. mark + 1 \in Int /\ m \in Int /\ \A i \in (mark + 1) .. m : tr[i] \in Nat
    BY <1>2
  <2>2. /\ s \in Seq(Nat)
        /\ Len(s) = IF mark + 1 <= m THEN m - (mark + 1) + 1 ELSE 0
        /\ \A i \in 1 .. m - (mark + 1) + 1 : s[i] = tr[mark + 1 + i - 1]
    BY <1>1, <2>1, SubSeqProperties
  <2>3. \A i \in 1 .. k : i \in 1 .. m - (mark + 1) + 1 /\ mark + 1 + i - 1 = mark + i
    BY <1>2, <1>5
  <2> QED
    BY <1>2, <1>5, <2>2, <2>3
<1>7. /\ p2 \in Seq(Nat) /\ Len(p2) = n + k
      /\ \A i \in 1 .. n + k : p2[i] = IF i <= n THEN pl[i] ELSE s[i - n]
  <2>1. p2 = pl \o s
    BY <1>0, <1>1
  <2>2. /\ p2 \in Seq(Nat) /\ Len(p2) = Len(pl) + Len(s)
        /\ \A i \in 1 .. Len(pl) + Len(s) : p2[i] = IF i <= Len(pl) THEN pl[i] ELSE s[i - Len(pl)]
    <3>1. pl \in Seq(Nat) /\ s \in Seq(Nat)
      BY <1>2, <1>6
    <3> QED
      BY <2>1, <3>1, ConcatProperties
  <2> QED
    BY <1>1, <1>6, <2>2
<1>8. ASSUME NEW i \in 1 .. n + k
      PROVE  \/ i \in 1 .. n /\ p2[i] = pl[i]
             \/ /\ i > n /\ mark + (i - n) \in 1 .. m /\ mark + (i - n) > mark
                /\ p2[i] = tr[mark + (i - n)]
  <2>1. CASE i <= n
    BY <1>2, <1>7, <2>1
  <2>2. CASE ~ (i <= n)
    <3>1. i - n \in 1 .. k /\ i > n
      BY <1>2, <1>6, <2>2
    <3>2. p2[i] = tr[mark + (i - n)]
      BY <1>6, <1>7, <2>2, <3>1
    <3>3. mark + (i - n) \in 1 .. m /\ mark + (i - n) > mark
      BY <1>2, <1>5, <3>1
    <3> QED
      BY <3>1, <3>2, <3>3
  <2> QED
    BY <2>1, <2>2
<1>9. Numbers(p2, c)
  <2>1. \A i \in 1 .. n + k : p2[i] \in 1 .. c
    <3> TAKE i \in 1 .. n + k
    <3> QED
      BY <1>2, <1>8
  <2> QED
    BY <1>7, <2>1 DEF Numbers
<1>13. m \in Nat /\ n \in Nat /\ k \in Nat /\ mark \in Nat
  BY <1>2, <1>6
<1>10. ASSUME NEW i \in 1 .. n + k, NEW j \in 1 .. n + k, i < j PROVE p2[i] < p2[j]
  <2>1. k > 0 => mark + k <= m
    BY <1>2, <1>5
  <2>2. /\ \A a, b \in 1 .. n : a < b => pl[a] < pl[b]
        /\ \A a, b \in 1 .. m : a < b => tr[a] < tr[b]
    BY <1>1, <1>2 DEF Rising
  <2>3. \A a \in 1 .. m, b \in 1 .. n : a > mark => pl[b] < tr[a]
    BY <1>1 DEF TrafficOK
  <2>4. \A a \in 1 .. n + k : p2[a] = IF a <= n THEN pl[a] ELSE tr[mark + (a - n)]
    <3> TAKE a \in 1 .. n + k
    <3>1. CASE a <= n
      BY <1>7, <3>1
    <3>2. CASE ~ (a <= n)
      <4>1. a - n \in 1 .. k
        BY <1>13, <3>2
      <4>2. s[a - n] = tr[mark + (a - n)]
        BY <1>6, <4>1
      <4> QED
        BY <1>7, <3>2, <4>2
    <3> QED
      BY <3>1, <3>2
  <2> QED
    BY <1>13, <1>10, <2>1, <2>2, <2>3, <2>4, PlayedRising
<1>11. Rising(p2)
  BY <1>7, <1>10 DEF Rising
<1>12. \A i \in 1 .. m : ~ (i > m2)
  BY <1>2, <1>3
<1> QED
  <2>1. TrafficOK(tr, m2, m2, p2, c)
    BY <1>1, <1>2, <1>4, <1>9, <1>11, <1>12 DEF TrafficOK
  <2> QED
    BY <1>0, <2>1, Zenon

(* erasetrafficlog() *)
LEMMA EraseTraffic ==
    ASSUME NEW c \in Nat, NEW tr, NEW mark, NEW sv, NEW pl, TrafficOK(tr, mark, sv, pl, c)
    PROVE  TrafficOK(<<>>, 0, sv, pl, c)
<1>1. PICK e : e = <<>>
  OBVIOUS
<1>2. e \in Seq(Nat) /\ Len(e) = 0 /\ 1 .. 0 = {}
  BY <1>1
<1>3. Numbers(e, c) /\ Rising(e) /\ Len(e) <= c /\ 0 \in 0 .. c
  BY <1>2 DEF Numbers, Rising
<1>4. TrafficOK(e, 0, sv, pl, c)
  BY <1>2, <1>3 DEF TrafficOK
<1> QED
  BY <1>1, <1>4

(* loaduser() reads the mark. *)
LEMMA MarkTraffic ==
    ASSUME NEW c \in Nat, NEW tr, NEW mark, NEW sv, NEW pl, TrafficOK(tr, mark, sv, pl, c)
    PROVE  TrafficOK(tr, sv, sv, pl, c)
BY DEF TrafficOK

-----------------------------------------------------------------------------
(* Encrypted lines *)

SentOK(s) ==
    /\ s.form \in {"none", "plain", "cipher", "translated"}
    /\ s.keys # {} /\ s.body \in {"text", "action"} => s.form = "cipher" /\ s.key \in s.keys

(* The first entry of a list with the name. *)
LEMMA FirstEntry ==
    ASSUME NEW k, NEW h, NEW S, lists[k] \in Seq(S)
    PROVE  LET i == checkstrings(k, h)
           IN  \/ i = 0 /\ \A j \in 1 .. Len(lists[k]) : lists[k][j].host # h
               \/ /\ i \in 1 .. Len(lists[k]) /\ lists[k][i].host = h
                  /\ \A j \in 1 .. Len(lists[k]) : lists[k][j].host = h => i <= j
<1>1. PICK list, i, I : /\ list = lists[k] /\ i = checkstrings(k, h)
                        /\ I = {j \in 1 .. Len(list) : list[j].host = h}
  OBVIOUS
<1>2. i = IF I # {} THEN Min(I) ELSE 0
  BY <1>1, Zenon DEF checkstrings, SelectInSeq
<1>3. I \subseteq Nat
  BY <1>1
<1>4. CASE I = {}
  BY <1>1, <1>2, <1>4
<1>5. CASE I # {}
  <2>1. i \in I /\ \A j \in I : i <= j
    BY <1>2, <1>3, <1>5, MinMember
  <2> QED
    BY <1>1, <2>1
<1> QED
  BY <1>4, <1>5

(* What the configuration has a key for goes out under one of its keys. *)
LEMMA KeyUsed ==
    ASSUME ListsInv, NEW h \in Hosts, NEW body \in {"text", "action"}, Configured(h) # {}
    PROVE  checkcrypt(h, body).form = "cipher" /\ checkcrypt(h, body).key \in Configured(h)
<1>1. PICK list, r, m, f : /\ list = lists["ENC"] /\ r = loadlist("ENC")
                           /\ m = Min({LOADED, Len(lists["ENC"])}) /\ f = checkstrings("ENC", h)
  OBVIOUS
<1>2. "ENC" \in Kinds
  BY MessagesAssumption
<1>3. list \in Seq(EntryOf("ENC")) /\ Len(list) \in Nat /\ LOADED \in Nat
  BY <1>1, <1>2, MessagesAssumption DEF ListsInv, ListOK
<1>4. PICK C : C = {e \in ToSet(r) : e.host = h}
  OBVIOUS
<1>5. /\ ~ (Cardinality(DOMAIN conf["ENC"]) >= MAXITEML)
      /\ Configured(h) = {Read[e.param] : e \in C}
  <2>1. Configured(h) = IF Cardinality(DOMAIN conf["ENC"]) >= MAXITEML THEN {}
                        ELSE {Read[e.param] : e \in C}
    BY <1>1, <1>4, Zenon DEF Configured
  <2> QED
    BY <2>1, Zenon
<1>6. r = [i \in 1 .. m |-> Cut(list[i])] /\ m \in 0 .. Len(list)
  <2>1. PICK n : Section("ENC", lists["ENC"], conf["ENC"], n)
    BY <1>2 DEF ListsInv, ListOK
  <2>2. n \in Nat /\ DOMAIN conf["ENC"] = 0 .. n - 1
    BY <2>1 DEF Section
  <2>3. Cardinality(DOMAIN conf["ENC"]) \in Nat /\ MAXITEML \in Nat
    <3>1. IsFiniteSet(0 .. n - 1)
      BY <2>2, FS_Interval
    <3> QED
      BY <2>2, <3>1, FS_CardinalityType, MessagesAssumption
  <2>4. Cardinality(DOMAIN conf["ENC"]) < MAXITEML
    BY <1>5, <2>3
  <2> QED
    BY <1>1, <1>2, <2>4, MirrorsLoaded
<1>7. \A i \in 1 .. m : /\ r[i] = Cut(list[i]) /\ r[i].host = list[i].host
                        /\ r[i].param = Kept(list[i].param)
  BY <1>6 DEF Cut
<1>8. ToSet(r) = {r[i] : i \in 1 .. m}
  BY <1>6 DEF ToSet
<1>9. PICK i \in 1 .. m : r[i].host = h
  BY <1>4, <1>5, <1>8
<1>10. i \in 1 .. Len(list) /\ list[i].host = h
  BY <1>3, <1>6, <1>7, <1>9
<1>11. f \in 1 .. Len(list) /\ list[f].host = h /\ f <= i
  <2>1. \/ f = 0 /\ \A j \in 1 .. Len(list) : list[j].host # h
        \/ /\ f \in 1 .. Len(list) /\ list[f].host = h
           /\ \A j \in 1 .. Len(list) : list[j].host = h => f <= j
    BY <1>1, <1>3, FirstEntry
  <2> QED
    BY <1>10, <2>1
<1>12. f \in 1 .. m /\ f # 0
  BY <1>3, <1>6, <1>9, <1>11
<1>13. r[f] \in C
  BY <1>4, <1>7, <1>8, <1>11, <1>12
<1>14. Keyed(h) /\ Key(h) = Read[Kept(list[f].param)]
  BY <1>1, <1>12 DEF Keyed, Key
<1>15. r[f].param = Kept(list[f].param)
  BY <1>7, <1>12
<1>16. Key(h) \in Configured(h)
  BY <1>5, <1>13, <1>14, <1>15
<1>17. checkcrypt(h, body) = [form |-> "cipher", key |-> Key(h)]
  BY <1>14 DEF checkcrypt
<1> QED
  BY <1>16, <1>17

-----------------------------------------------------------------------------
(* The invariant *)

LogsInv ==
    /\ count \in Nat /\ attached \in BOOLEAN /\ setup \in Setups
    /\ LogsOK(private, queries, count)
    /\ TrafficOK(traffic, lastlog, saved, played, count)

MsgInv == ListsInv /\ JobsInv /\ LogsInv /\ SentOK(sent)

LEMMA KeepLists ==
    ASSUME ListsInv, UNCHANGED listVars
    PROVE  ListsInv'
<1>1. lists' = lists /\ conf' = conf
  BY DEF listVars
<1>2. PICK l, c : l = lists /\ c = conf
  OBVIOUS
<1>3. /\ l = [k \in Kinds |-> l[k]] /\ c = [k \in Kinds |-> c[k]]
      /\ \A k \in Kinds : ListOK(k, l[k], c[k])
  BY <1>2 DEF ListsInv
<1>4. lists' = l /\ conf' = c
  BY <1>1, <1>2
<1> QED
  BY <1>3, <1>4 DEF ListsInv

LEMMA KeepJobs ==
    ASSUME JobsInv, UNCHANGED translateVars, count \in Nat, count' = count
    PROVE  JobsInv'
<1>1. translate' = translate /\ service' = service /\ overrun' = overrun
  BY DEF translateVars
<1>2. count' \in Nat /\ count <= count'
  OBVIOUS
<1> QED
  BY <1>1, <1>2, QuietJobs

LEMMA KeepLogs ==
    ASSUME LogsInv, UNCHANGED <<attached, private, trafficVars, count, queries, setup>>
    PROVE  LogsInv'
BY DEF LogsInv, trafficVars

LEMMA MsgInit ==
    ASSUME Init
    PROVE  MsgInv
<1>1. PICK e : e = <<>>
  OBVIOUS
<1>2. e \in Seq(Nat) /\ Len(e) = 0 /\ 1 .. 0 = {} /\ DOMAIN e = {}
  BY <1>1
<1>3. ListsInv
  BY EmptySection DEF Init, ListsInv
<1>4. JobsInv
  <2>1. translate = e /\ service = e /\ overrun = FALSE
    BY <1>1 DEF Init, InitTranslations
  <2> QED
    BY <1>1, <1>2, <2>1, JobsEmpty DEF JobsInv
<1>5. Numbers(e, 0) /\ Rising(e)
  BY <1>2 DEF Numbers, Rising
<1>6. LogsOK([log |-> e, old |-> e], {}, 0)
  BY <1>5 DEF LogsOK
<1>7. TrafficOK(e, 0, 0, e, 0)
  BY <1>2, <1>5 DEF TrafficOK
<1>8. LogsInv
  BY <1>1, <1>6, <1>7 DEF Init, LogsInv
<1>9. SentOK(sent)
  BY DEF Init, NoLine, SentOK
<1> QED
  BY <1>3, <1>4, <1>8, <1>9 DEF MsgInv

(* What the ADD commands put into a list. *)
LEMMA NewEntry ==
    ASSUME NEW k, NEW h \in Hosts
    PROVE  /\ \A p \in Passwords : [host |-> h, param |-> Stored[p]] \in EntryOf(k)
           /\ k \notin Secret => [host |-> h, param |-> <<>>] \in EntryOf(k)
<1>1. \A p \in Passwords : Stored[p] \in Params
  <2>1. DOMAIN Stored = Passwords
    BY DEF Stored
  <2> QED
    BY <2>1 DEF Range, Params
<1>2. ASSUME NEW s, s \in Params \cup {<<>>}, k \in Secret => s \in Params
      PROVE  [host |-> h, param |-> s] \in EntryOf(k)
  <2>1. [host |-> h, param |-> s] \in Entry
    BY <1>2 DEF Entry
  <2> QED
    BY <1>2, <2>1 DEF EntryOf
<1>3. ASSUME NEW p \in Passwords PROVE [host |-> h, param |-> Stored[p]] \in EntryOf(k)
  <2>1. PICK s : s = Stored[p]
    OBVIOUS
  <2>2. s \in Params
    BY <1>1, <2>1
  <2>3. [host |-> h, param |-> s] \in EntryOf(k)
    BY <1>2, <2>2
  <2> QED
    BY <2>1, <2>3
<1>4. ASSUME k \notin Secret PROVE [host |-> h, param |-> <<>>] \in EntryOf(k)
  <2>1. PICK s : s = <<>>
    OBVIOUS
  <2>2. [host |-> h, param |-> s] \in EntryOf(k)
    BY <1>2, <1>4, <2>1
  <2> QED
    BY <2>1, <2>2
<1> QED
  BY <1>3, <1>4

(* A command that only changes a list. *)
ListsOnly == UNCHANGED <<attached, private, trafficVars, count, queries, textVars, setup>>

LEMMA ListStep ==
    ASSUME MsgInv, ListsInv', ListsOnly
    PROVE  MsgInv'
<1>1. JobsInv'
  BY KeepJobs DEF MsgInv, LogsInv, ListsOnly, textVars
<1>2. LogsInv'
  BY KeepLogs DEF MsgInv, ListsOnly
<1>3. SentOK(sent)'
  BY DEF MsgInv, ListsOnly, textVars, SentOK
<1> QED
  BY <1>1, <1>2, <1>3 DEF MsgInv

LEMMA ListActions ==
    ASSUME MsgInv, UNCHANGED setup,
           \/ \E k \in setup.kinds : Add(k) \/ AddMask(k) \/ Del(k)
           \/ cmdencrypt \/ cmdtranslate
    PROVE  MsgInv'
<1>1. ListsInv /\ setup.kinds \subseteq Kinds /\ "ENC" \in Kinds /\ "TRA" \in Kinds
  BY MessagesAssumption DEF MsgInv, LogsInv
<1>2. ASSUME NEW k \in setup.kinds, Add(k) PROVE MsgInv'
  <2>1. ListsInv'
    <3>1. PICK h \in Hosts, p \in Passwords : writelist(k, [host |-> h, param |-> Stored[p]])
      BY <1>2 DEF Add
    <3>2. [host |-> h, param |-> Stored[p]] \in EntryOf(k) /\ k \in Kinds
      BY <1>1, NewEntry
    <3> QED
      BY <1>1, <3>1, <3>2, WriteLists
  <2>2. ListsOnly
    BY <1>2 DEF Add, ListsOnly
  <2> QED
    BY <2>1, <2>2, ListStep
<1>3. ASSUME NEW k \in setup.kinds, AddMask(k) PROVE MsgInv'
  <2>1. ListsInv'
    <3>1. PICK h \in Hosts : writelist(k, [host |-> h, param |-> <<>>])
      BY <1>3 DEF AddMask
    <3>2. k \notin Secret
      BY <1>3 DEF AddMask, Secret
    <3>3. [host |-> h, param |-> <<>>] \in EntryOf(k) /\ k \in Kinds
      BY <1>1, <3>2, NewEntry
    <3> QED
      BY <1>1, <3>1, <3>3, WriteLists
  <2>2. ListsOnly
    BY <1>3 DEF AddMask, ListsOnly
  <2> QED
    BY <2>1, <2>2, ListStep
<1>4. ASSUME NEW k \in setup.kinds, Del(k) PROVE MsgInv'
  <2>1. ListsInv'
    <3>1. PICK n \in DOMAIN Listed(k) \cup {Len(lists[k])} : eraselist(k, n)
      BY <1>4 DEF Del
    <3>2. k \in Kinds
      BY <1>1
    <3> QED
      BY <1>1, <3>1, <3>2, DelLists
  <2>2. ListsOnly
    BY <1>4 DEF Del, ListsOnly
  <2> QED
    BY <2>1, <2>2, ListStep
<1>5. ASSUME cmdencrypt PROVE MsgInv'
  <2>1. ListsInv'
    <3>1. PICK h \in Hosts, p \in Passwords : writelist("ENC", [host |-> h, param |-> Stored[p]])
      BY <1>5 DEF cmdencrypt
    <3>2. [host |-> h, param |-> Stored[p]] \in EntryOf("ENC")
      BY NewEntry
    <3> QED
      BY <1>1, <3>1, <3>2, WriteLists
  <2>2. ListsOnly
    BY <1>5 DEF cmdencrypt, ListsOnly
  <2> QED
    BY <2>1, <2>2, ListStep
<1>6. ASSUME cmdtranslate PROVE MsgInv'
  <2>1. ListsInv'
    <3>1. PICK h \in Hosts : writelist("TRA", [host |-> h, param |-> <<>>])
      BY <1>6 DEF cmdtranslate
    <3>2. "TRA" \notin Secret
      BY DEF Secret
    <3>3. [host |-> h, param |-> <<>>] \in EntryOf("TRA")
      BY <3>2, NewEntry
    <3> QED
      BY <1>1, <3>1, <3>3, WriteLists
  <2>2. ListsOnly
    BY <1>6 DEF cmdtranslate, ListsOnly
  <2> QED
    BY <2>1, <2>2, ListStep
<1> QED
  BY <1>2, <1>3, <1>4, <1>5, <1>6

-----------------------------------------------------------------------------
(* Messages and texts *)

(* A text from or to h is translated or not. *)
LEMMA JobStep ==
    ASSUME JobsInv, count \in Nat, count' = count + 1, NEW h \in Hosts,
           NEW dir \in {"TO", "FROM"}, checktranslate(h, dir)
    PROVE  JobsInv'
<1>1. CASE checkstrings("TRA", h) = 0
  <2>1. translate' = translate /\ service' = service /\ overrun' = overrun
    BY <1>1 DEF checktranslate, translateVars
  <2>2. count' \in Nat /\ count <= count'
    OBVIOUS
  <2> QED
    BY <2>1, <2>2, QuietJobs
<1>2. CASE checkstrings("TRA", h) # 0
  <2>1. addtranslate(count', h, dir)
    BY <1>2 DEF checktranslate
  <2> QED
    BY <2>1, AddJob
<1> QED
  BY <1>1, <1>2

(* What happens to the logs when message m comes: it is logged, or it is not *)
(* one of those that have to be.                                             *)
LEMMA PrivateStep ==
    ASSUME MsgInv, NEW m \in Message, NEW isop \in BOOLEAN, msgprivmsg(m, isop)
    PROVE  LogsOK(private', queries', count')
<1>1. PICK c, d : c = count /\ d = count'
  OBVIOUS
<1>2. c \in Nat /\ d \in Nat /\ d = c + 1 /\ c <= d /\ LogsOK(private, queries, c)
  BY <1>1 DEF MsgInv, LogsInv, msgprivmsg
<1>3. queries' = IF Query(m) /\ ~attached THEN queries \cup {<<d, m.body>>} ELSE queries
  BY <1>1 DEF msgprivmsg
<1>4. \A q \in queries' : q \in queries \/ (Query(m) /\ ~attached /\ q = <<d, m.body>>)
  BY <1>3
<1>5. CASE private' = private /\ (~ Query(m) \/ attached \/ m.body # "text")
  <2>1. \A q \in queries' : q \in queries \/ q[2] # "text"
    BY <1>4, <1>5
  <2>2. LogsOK(private, queries', d)
    BY <1>2, <2>1, QuietLogs
  <2> QED
    BY <1>1, <1>5, <2>2
<1>6. CASE private' = [private EXCEPT !.log = Append(@, d)]
  <2>1. \A q \in queries' : q \in queries \/ q[1] = d
    BY <1>4
  <2>2. LogsOK([private EXCEPT !.log = Append(@, d)], queries', d)
    BY <1>2, <2>1, LogMessage
  <2> QED
    BY <1>1, <1>6, <2>2
<1>7. CASE \/ checkignores(m) \/ (m.body = "dcc" /\ m.to = "me")
          \/ (m.body = "op" /\ checkop(m, isop) /\ attached)
  <2>1. private' = private
    BY <1>7 DEF msgprivmsg
  <2>2. ~ Query(m) \/ attached \/ m.body # "text"
    BY <1>7 DEF Query
  <2> QED
    BY <1>5, <2>1, <2>2
<1>8. CASE ~ (\/ checkignores(m) \/ (m.body = "dcc" /\ m.to = "me")
             \/ (m.body = "op" /\ checkop(m, isop) /\ attached))
  <2>1. IF Logged(m) THEN privatelog(m) ELSE private' = private
    BY <1>8 DEF msgprivmsg
  <2>2. CASE ~ Logged(m)
    <3>1. ~ Query(m) \/ attached \/ m.body # "text"
      BY <2>2 DEF Query, Logged
    <3> QED
      BY <1>5, <2>1, <2>2, <3>1
  <2>3. CASE Logged(m) /\ m.body = "ctcp"
    <3>1. private' = private
      BY <2>1, <2>3 DEF privatelog
    <3> QED
      BY <1>5, <2>3, <3>1
  <2>4. CASE Logged(m) /\ m.body # "ctcp"
    <3>1. private' = [private EXCEPT !.log = Append(@, d)]
      BY <1>1, <2>1, <2>4 DEF privatelog
    <3> QED
      BY <1>6, <3>1
  <2> QED
    BY <2>2, <2>3, <2>4
<1> QED
  BY <1>7, <1>8

LEMMA TrafficStep ==
    ASSUME MsgInv, NEW m \in Message, NEW isop \in BOOLEAN, msgprivmsg(m, isop)
    PROVE  TrafficOK(traffic', lastlog', saved', played', count')
<1>1. PICK c, d : c = count /\ d = count'
  OBVIOUS
<1>2. c \in Nat /\ d \in Nat /\ d = c + 1 /\ c <= d /\ TrafficOK(traffic, lastlog, saved, played, c)
  BY <1>1 DEF MsgInv, LogsInv, msgprivmsg
<1>3. lastlog' = lastlog /\ saved' = saved /\ played' = played
  BY DEF msgprivmsg, Relay, trafficVars
<1>4. traffic' = traffic \/ traffic' = Append(traffic, d)
  BY <1>1 DEF msgprivmsg, Relay, checklogging, trafficVars
<1>5. TrafficOK(traffic, lastlog, saved, played, d)
  BY <1>2, QuietTraffic
<1>6. TrafficOK(Append(traffic, d), lastlog, saved, played, d)
  BY <1>2, LogTraffic
<1> QED
  BY <1>1, <1>3, <1>4, <1>5, <1>6

LEMMA MessageStep ==
    ASSUME MsgInv, NEW m \in Message, NEW isop \in BOOLEAN, msgprivmsg(m, isop), UNCHANGED setup
    PROVE  MsgInv'
<1>1. ListsInv'
  BY KeepLists DEF MsgInv, msgprivmsg
<1>2. count \in Nat /\ count' = count + 1 /\ JobsInv /\ m.from \in Hosts
  BY DEF MsgInv, LogsInv, msgprivmsg, Message
<1>3. JobsInv'
  <2>1. UNCHANGED translateVars \/ checktranslate(m.from, "FROM")
    BY DEF msgprivmsg
  <2>2. CASE UNCHANGED translateVars
    <3>1. translate' = translate /\ service' = service /\ overrun' = overrun
      BY <2>2 DEF translateVars
    <3>2. count' \in Nat /\ count <= count'
      BY <1>2
    <3> QED
      BY <1>2, <3>1, <3>2, QuietJobs
  <2>3. CASE checktranslate(m.from, "FROM")
    BY <1>2, <2>3, JobStep
  <2> QED
    BY <2>1, <2>2, <2>3
<1>4. LogsInv'
  <2>1. count' \in Nat /\ attached' = attached /\ setup' = setup
    BY <1>2 DEF msgprivmsg
  <2> QED
    BY <2>1, PrivateStep, TrafficStep DEF MsgInv, LogsInv
<1>5. SentOK(sent)'
  BY DEF MsgInv, msgprivmsg, SentOK
<1> QED
  BY <1>1, <1>3, <1>4, <1>5 DEF MsgInv

LEMMA TextStep ==
    ASSUME MsgInv, NEW h \in Hosts, NEW body, cmdprivmsg(h, body), UNCHANGED setup
    PROVE  MsgInv'
<1>1. ListsInv'
  BY KeepLists DEF MsgInv, cmdprivmsg
<1>2. count \in Nat /\ count' = count + 1 /\ JobsInv /\ count' \in Nat /\ count <= count'
  BY DEF MsgInv, LogsInv, cmdprivmsg
<1>3. JobsInv'
  <2>1. checktranslate(h, "TO")
    BY DEF cmdprivmsg
  <2> QED
    BY <1>2, <2>1, JobStep
<1>4. LogsInv'
  <2>1. /\ attached' = attached /\ setup' = setup /\ private' = private /\ queries' = queries
        /\ traffic' = traffic /\ lastlog' = lastlog /\ saved' = saved /\ played' = played
    BY DEF cmdprivmsg, trafficVars
  <2>2. LogsOK(private, queries, count) /\ TrafficOK(traffic, lastlog, saved, played, count)
    BY DEF MsgInv, LogsInv
  <2>3. LogsOK(private, queries, count')
    BY <1>2, <2>2, QuietLogs
  <2>4. TrafficOK(traffic, lastlog, saved, played, count')
    BY <1>2, <2>2, QuietTraffic
  <2> QED
    BY <1>2, <2>1, <2>3, <2>4 DEF MsgInv, LogsInv
<1>5. SentOK(sent')
  <2>1. CASE checkstrings("TRA", h) # 0
    BY <2>1 DEF MsgInv, cmdprivmsg
  <2>2. CASE checkstrings("TRA", h) = 0
    <3>1. PICK x, K : x = checkcrypt(h, body) /\ K = Configured(h)
      OBVIOUS
    <3>2. sent' = [form |-> x.form, key |-> x.key, keys |-> K, body |-> body]
      BY <2>2, <3>1, Zenon DEF cmdprivmsg
    <3>3. x.form \in {"plain", "cipher"}
      BY <3>1 DEF checkcrypt, Plain
    <3>4. K # {} /\ body \in {"text", "action"} => x.form = "cipher" /\ x.key \in K
      BY <3>1, KeyUsed DEF MsgInv
    <3> QED
      BY <3>2, <3>3, <3>4 DEF SentOK
  <2> QED
    BY <2>1, <2>2
<1> QED
  BY <1>1, <1>3, <1>4, <1>5 DEF MsgInv

(* A line that nobody checks goes out plain. *)
LEMMA BoundStep ==
    ASSUME MsgInv, NEW h \in Hosts, NEW body \in Unchecked, userinbound(h, body), UNCHANGED setup
    PROVE  MsgInv'
<1>1. ListsInv'
  BY KeepLists DEF MsgInv, userinbound
<1>2. JobsInv'
  BY KeepJobs DEF MsgInv, LogsInv, userinbound
<1>3. LogsInv'
  BY KeepLogs DEF MsgInv, userinbound
<1>4. SentOK(sent')
  <2>1. PICK K : K = Configured(h)
    OBVIOUS
  <2>2. sent' = [form |-> "plain", key |-> <<>>, keys |-> K, body |-> body]
    BY <2>1, Zenon DEF userinbound
  <2>3. body \notin {"text", "action"}
    BY DEF Unchecked
  <2> QED
    BY <2>2, <2>3 DEF SentOK
<1> QED
  BY <1>1, <1>2, <1>3, <1>4 DEF MsgInv

LEMMA TranslatingStep ==
    ASSUME MsgInv, Translating, UNCHANGED setup
    PROVE  MsgInv'
<1>1. ListsInv'
  BY KeepLists DEF MsgInv, Translating
<1>2. LogsInv'
  BY KeepLogs DEF MsgInv, Translating
<1>3. JobsInv /\ count' = count
  BY DEF MsgInv, Translating
<1>4. JobsInv'
  <2>1. \/ \E s \in DOMAIN service :
             translatedpart(s) \/ translatedtext(s) \/ translatedpart4(s) \/ translatedone(s)
        \/ cleartranslates
    BY DEF Translating
  <2> QED
    BY <1>3, <2>1, ServiceJobs, ClearJobs
<1>5. SentOK(sent')
  <2>1. sent' = sent \/ sent' = [form |-> "translated", key |-> <<>>, keys |-> {}, body |-> "text"]
    BY DEF Translating
  <2> QED
    BY <2>1 DEF MsgInv, SentOK
<1> QED
  BY <1>1, <1>2, <1>4, <1>5 DEF MsgInv

-----------------------------------------------------------------------------
(* Logs, clients, rehash and restart *)

(* A step that changes neither lists nor texts. *)
LogsOnly == UNCHANGED <<listVars, count, textVars>>

LEMMA LogsOnlyStep ==
    ASSUME MsgInv, LogsInv', LogsOnly
    PROVE  MsgInv'
<1>1. ListsInv'
  BY KeepLists DEF MsgInv, LogsOnly
<1>2. JobsInv'
  BY KeepJobs DEF MsgInv, LogsInv, LogsOnly, textVars
<1>3. SentOK(sent)'
  BY DEF MsgInv, LogsOnly, textVars, SentOK
<1> QED
  BY <1>1, <1>2, <1>3 DEF MsgInv

(* eraseprivatelog() *)
LEMMA ErasedLog ==
    ASSUME NEW c \in Nat, NEW pr, NEW qs, LogsOK(pr, qs, c)
    PROVE  LogsOK([log |-> <<>>, old |-> pr.log], {q \in qs : q[1] \in ToSet(pr.log)}, c)
<1>1. PICK e, a, rs : e = <<>> /\ a = pr.log /\ rs = {q \in qs : q[1] \in ToSet(a)}
  OBVIOUS
<1>2. e \in Seq(Nat) /\ Len(e) = 0 /\ 1 .. 0 = {}
  BY <1>1
<1>3. Numbers(e, c) /\ Numbers(a, c)
  BY <1>1, <1>2 DEF Numbers, LogsOK
<1>4. PICK p2 : p2 = [log |-> e, old |-> a]
  OBVIOUS
<1>5. p2.log = e /\ p2.old = a
  BY <1>4
<1>6. \A q \in rs : q[1] \in ToSet(a)
  BY <1>1
<1>7. LogsOK(p2, rs, c)
  BY <1>3, <1>4, <1>5, <1>6, Zenon DEF LogsOK
<1> QED
  BY <1>1, <1>4, <1>7, Zenon

LEMMA LogActions ==
    ASSUME MsgInv, UNCHANGED setup,
           eraseprivatelog \/ playtrafficlog \/ erasetrafficlog \/ Attach
    PROVE  MsgInv'
<1>1. /\ count \in Nat /\ attached \in BOOLEAN /\ setup \in Setups
      /\ LogsOK(private, queries, count) /\ TrafficOK(traffic, lastlog, saved, played, count)
  BY DEF MsgInv, LogsInv
<1>2. CASE eraseprivatelog
  <2>1. LogsOK(private', queries', count)
    BY <1>1, <1>2, ErasedLog DEF eraseprivatelog
  <2>2. LogsInv'
    BY <1>1, <1>2, <2>1 DEF eraseprivatelog, LogsInv, trafficVars
  <2>3. LogsOnly
    BY <1>2 DEF eraseprivatelog, LogsOnly
  <2> QED
    BY <2>2, <2>3, LogsOnlyStep
<1>3. CASE playtrafficlog
  <2>1. TrafficOK(traffic, Max({lastlog, Len(traffic)}), Max({lastlog, Len(traffic)}),
                  played \o SubSeq(traffic, lastlog + 1, Len(traffic)), count)
    BY <1>1, PlayTraffic
  <2>2. TrafficOK(traffic', lastlog', saved', played', count')
    BY <1>3, <2>1, Zenon DEF playtrafficlog
  <2>3. LogsInv'
    BY <1>1, <1>3, <2>2 DEF playtrafficlog, LogsInv
  <2>4. LogsOnly
    BY <1>3 DEF playtrafficlog, LogsOnly
  <2> QED
    BY <2>3, <2>4, LogsOnlyStep
<1>4. CASE erasetrafficlog
  <2>1. TrafficOK(<<>>, 0, saved, played, count)
    BY <1>1, EraseTraffic
  <2>2. LogsInv'
    BY <1>1, <1>4, <2>1 DEF erasetrafficlog, LogsInv
  <2>3. LogsOnly
    BY <1>4 DEF erasetrafficlog, LogsOnly
  <2> QED
    BY <2>2, <2>3, LogsOnlyStep
<1>5. CASE Attach
  <2>1. LogsInv'
    BY <1>1, <1>5 DEF Attach, LogsInv, trafficVars
  <2>2. LogsOnly
    BY <1>5 DEF Attach, LogsOnly
  <2> QED
    BY <2>1, <2>2, LogsOnlyStep
<1> QED
  BY <1>2, <1>3, <1>4, <1>5

(* The jobs that have a socket go with it, the others stay. *)
LEMMA RehashJobs ==
    ASSUME JobsInv, service' = <<>>, overrun' = overrun,
           translate' = Without(translate, {i \in DOMAIN translate : translate[i].sock # 0})
    PROVE  JobsInv'
<1>1. PICK e, I, sv : /\ e = <<>> /\ I = {i \in DOMAIN translate : translate[i].sock # 0}
                      /\ sv = Restrict(service, DOMAIN service \ ({translate[i].sock : i \in I} \cup {}))
  OBVIOUS
<1>2. service' = e /\ DOMAIN e = {}
  BY <1>1
<1>3. ASSUME ~overrun' PROVE JobsOK(translate', service')
  <2>1. JobsOK(translate, service)
    BY <1>3 DEF JobsInv
  <2>2. DOMAIN translate = 1 .. Len(translate)
    BY <2>1 DEF JobsOK
  <2>3. translate' = Collected(translate, DOMAIN translate \ I, Len(translate) + 1)
    BY <1>1 DEF Without
  <2>4. I \subseteq 1 .. Len(translate) /\ {} \subseteq {translate[i].sock : i \in I}
    BY <1>1, <2>2
  <2>5. JobsOK(translate', sv)
    BY <1>1, <2>1, <2>3, <2>4, JobsLess
  <2>6. ASSUME NEW s \in DOMAIN service PROVE s \in {translate[i].sock : i \in I}
    <3>1. PICK i \in 1 .. Len(translate) : translate[i].sock = s
      BY <2>1 DEF JobsOK
    <3>2. s # 0
      BY <2>1 DEF JobsOK
    <3> QED
      BY <1>1, <2>2, <3>1, <3>2
  <2>7. DOMAIN sv = {}
    <3>1. DOMAIN sv \subseteq DOMAIN service \ {translate[i].sock : i \in I}
      BY <1>1 DEF Restrict
    <3> QED
      BY <2>6, <3>1
  <2>8. Handled(e, sv)
    <3>1. e \in [DOMAIN e -> [uid : Nat, handler : Handlers]]
      BY <1>1, <1>2
    <3> QED
      BY <1>2, <2>7, <3>1 DEF Handled
  <2>9. /\ translate' \in Seq(Job)
        /\ \A i \in 1 .. Len(translate') : translate'[i].parts \subseteq {translate'[i].sock} \ {0}
    BY <2>5 DEF JobsOK
  <2>10. JobsOK(translate', e)
    BY <2>5, <2>8, <2>9, JobsAlike
  <2> QED
    BY <1>2, <2>10
<1> QED
  BY <1>2, <1>3 DEF JobsInv

LEMMA RehashStep ==
    ASSUME MsgInv, cmdrehash, UNCHANGED setup
    PROVE  MsgInv'
<1>1. ListsInv'
  <2>1. PICK K : K = {k \in Kinds : lists[k] = <<>>}
    OBVIOUS
  <2>2. lists' = [k \in Kinds |-> IF k \in K THEN loadlist(k) ELSE lists[k]] /\ conf' = conf
    <3>1. \A k \in Kinds : k \in K <=> lists[k] = <<>>
      BY <2>1
    <3>2. lists' = [k \in Kinds |-> IF lists[k] = <<>> THEN loadlist(k) ELSE lists[k]]
      BY DEF cmdrehash
    <3> QED
      BY <3>1, <3>2 DEF cmdrehash
  <2>3. K \in SUBSET Kinds
    BY <2>1
  <2> QED
    BY <2>2, <2>3, ReloadLists DEF MsgInv
<1>2. JobsInv'
  BY RehashJobs DEF MsgInv, cmdrehash
<1>3. LogsInv'
  <2>1. TrafficOK(traffic, saved, saved, played, count)
    BY MarkTraffic DEF MsgInv, LogsInv
  <2> QED
    BY <2>1 DEF MsgInv, LogsInv, cmdrehash
<1>4. SentOK(sent)'
  BY DEF MsgInv, cmdrehash, SentOK
<1> QED
  BY <1>1, <1>2, <1>3, <1>4 DEF MsgInv

LEMMA RestartStep ==
    ASSUME MsgInv, Restart, UNCHANGED setup
    PROVE  MsgInv'
<1>1. ListsInv'
  <2>1. lists' = [k \in Kinds |-> IF k \in Kinds THEN loadlist(k) ELSE lists[k]] /\ conf' = conf
    BY DEF Restart
  <2>2. Kinds \in SUBSET Kinds
    OBVIOUS
  <2> QED
    BY <2>1, <2>2, ReloadLists DEF MsgInv
<1>2. JobsInv'
  <2>1. PICK e : e = <<>>
    OBVIOUS
  <2>2. translate' = e /\ service' = e /\ overrun' = FALSE /\ DOMAIN e = {} /\ JobsOK(e, e)
    BY <2>1, JobsEmpty DEF Restart
  <2> QED
    BY <2>2 DEF JobsInv
<1>3. LogsInv'
  <2>1. TrafficOK(traffic, saved, saved, played, count)
    BY MarkTraffic DEF MsgInv, LogsInv
  <2> QED
    BY <2>1 DEF MsgInv, LogsInv, Restart
<1>4. SentOK(sent)'
  BY DEF MsgInv, Restart, SentOK
<1> QED
  BY <1>1, <1>2, <1>3, <1>4 DEF MsgInv

-----------------------------------------------------------------------------
(* Every step keeps the invariant. *)
LEMMA MsgStep ==
    ASSUME MsgInv, [Next]_vars
    PROVE  MsgInv'
<1>1. CASE UNCHANGED vars
  <2>1. ListsInv' /\ ListsOnly
    BY <1>1, KeepLists DEF MsgInv, vars, listVars, ListsOnly
  <2> QED
    BY <2>1, ListStep
<1>2. CASE Next
  <2>1. UNCHANGED setup
    BY <1>2 DEF Next
  <2>2. CASE \/ \E k \in setup.kinds : Add(k) \/ AddMask(k) \/ Del(k)
             \/ cmdencrypt \/ cmdtranslate
    BY <2>1, <2>2, ListActions
  <2>3. CASE \E m \in Message, isop \in BOOLEAN : msgprivmsg(m, isop)
    BY <2>1, <2>3, MessageStep
  <2>4. CASE \E h \in Hosts, body \in Bodies \cap setup.bodies : cmdprivmsg(h, body)
    BY <2>1, <2>4, TextStep
  <2>9. CASE \E h \in Hosts, body \in Unchecked \cap setup.bodies : userinbound(h, body)
    BY <2>1, <2>9, BoundStep
  <2>5. CASE Translating
    BY <2>1, <2>5, TranslatingStep
  <2>6. CASE eraseprivatelog \/ playtrafficlog \/ erasetrafficlog \/ Attach
    BY <2>1, <2>6, LogActions
  <2>7. CASE cmdrehash
    BY <2>1, <2>7, RehashStep
  <2>8. CASE Restart
    BY <2>1, <2>8, RestartStep
  <2> QED
    BY <1>2, <2>2, <2>3, <2>4, <2>5, <2>6, <2>7, <2>8, <2>9, Zenon DEF Next
<1> QED
  BY <1>1, <1>2

LEMMA MsgInvariant == Spec => []MsgInv
<1>1. Init => MsgInv
  BY MsgInit
<1>2. MsgInv /\ [Next]_vars => MsgInv'
  BY MsgStep
<1> QED
  BY <1>1, <1>2, PTL DEF Spec

-----------------------------------------------------------------------------
(* What the invariant gives *)

LEMMA TypeFact ==
    ASSUME MsgInv
    PROVE  TypeOK
<1>1. ASSUME NEW k \in Kinds
      PROVE  /\ ToSet(lists[k]) \subseteq Entry /\ Range(conf[k]) \subseteq Entry
             /\ DOMAIN conf[k] \subseteq Nat
  <2>1. lists[k] \in Seq(EntryOf(k)) /\ \E n : Section(k, lists[k], conf[k], n)
    BY DEF MsgInv, ListsInv, ListOK
  <2>2. EntryOf(k) \subseteq Entry
    BY DEF EntryOf
  <2>3. ToSet(lists[k]) \subseteq Entry
    BY <2>1, <2>2 DEF ToSet
  <2>4. PICK n : Section(k, lists[k], conf[k], n)
    BY <2>1
  <2>5. /\ n \in Nat /\ DOMAIN conf[k] = 0 .. n - 1
        /\ \A i \in 0 .. n - 1 : conf[k][i] \in EntryOf(k)
    BY <2>4 DEF Section
  <2>6. Range(conf[k]) \subseteq Entry
    BY <2>2, <2>5 DEF Range
  <2> QED
    BY <2>3, <2>5, <2>6
<1>2. PICK a, b, t, c : a = private.log /\ b = private.old /\ t = traffic /\ c = count
  OBVIOUS
<1>3. Numbers(a, c) /\ Numbers(b, c) /\ Numbers(t, c)
  BY <1>2 DEF MsgInv, LogsInv, LogsOK, TrafficOK
<1>4. \A q : Numbers(q, c) => ToSet(q) \subseteq 1 .. c
  BY DEF Numbers, ToSet
<1>5. ToSet(private.log) \cup ToSet(private.old) \cup ToSet(traffic) \subseteq 1 .. count
  BY <1>2, <1>3, <1>4
<1>6. lastlog \in 0 .. count /\ saved \in 0 .. count /\ attached \in BOOLEAN
  BY DEF MsgInv, LogsInv, TrafficOK
<1>7. sent.form \in {"none", "plain", "cipher", "translated"}
  BY DEF MsgInv, SentOK
<1>8. DOMAIN service \subseteq 1 .. count
  BY DEF MsgInv, JobsInv
<1> QED
  BY <1>1, <1>5, <1>6, <1>7, <1>8, Zenon DEF TypeOK

LEMMA PasswordFact ==
    ASSUME MsgInv
    PROVE  PasswordKept
<1>1. SUFFICES ASSUME NEW k \in Kinds, k \in Secret, NEW e \in ToSet(lists[k])
               PROVE  \E p \in Passwords :
                        \/ Read[e.param] = p
                        \/ Len(p) > KEPT /\ Read[e.param] = SubSeq(p, 1, KEPT)
  BY DEF PasswordKept
<1>2. lists[k] \in Seq(EntryOf(k))
  BY DEF MsgInv, ListsInv, ListOK
<1>3. e \in EntryOf(k)
  BY <1>2 DEF ToSet
<1>4. PICK t : t = e.param /\ t \in Params
  BY <1>1, <1>3 DEF EntryOf
<1>5. Read[t] = decryptit(t)
  BY <1>4 DEF Read
<1>6. PICK x \in Range(Stored) : t = x \/ t = Kept(x)
  BY <1>4 DEF Params
<1>7. PICK p \in Passwords : x = cryptit(p) /\ p \in Texts
  <2>1. DOMAIN Stored = Passwords /\ \A p \in Passwords : Stored[p] = cryptit(p)
    BY DEF Stored
  <2> QED
    BY <2>1, MessagesAssumption DEF Range
<1>8. decryptit(x) = p
  BY <1>7, ReadWhole
<1>9. CASE t = x
  BY <1>4, <1>5, <1>8, <1>9
<1>10. CASE t = Kept(x) /\ t # x
  <2>1. PICK n, l : n = 2 * KEPT + 1 /\ l = Len(p)
    OBVIOUS
  <2>2. KEPT \in Nat \ {0} /\ l \in Nat /\ Len(x) = 2 * l + 1
    BY <1>7, <2>1, CryptitFacts, MessagesAssumption DEF Texts
  <2>3. Kept(x) = IF Len(x) > n THEN SubSeq(x, 1, n) ELSE x
    BY <2>1, Zenon DEF Kept
  <2>4. Len(x) > n /\ t = SubSeq(x, 1, n)
    BY <1>10, <2>3, Zenon
  <2>5. KEPT \in 1 .. l /\ l > KEPT
    BY <2>1, <2>2, <2>4
  <2>6. decryptit(SubSeq(x, 1, n)) = SubSeq(p, 1, KEPT)
    BY <1>7, <2>1, <2>5, CryptitFacts
  <2> QED
    BY <1>4, <1>5, <2>1, <2>4, <2>5, <2>6
<1> QED
  BY <1>6, <1>9, <1>10

LEMMA ConsistentFact ==
    ASSUME MsgInv
    PROVE  Consistent
<1>1. ListSaved
  BY MirrorsLoaded DEF MsgInv, ListSaved
<1> QED
  BY <1>1, TypeFact, PasswordFact DEF Consistent

LEMMA LogsFact ==
    ASSUME MsgInv
    PROVE  LogsExact
<1>1. QueriesLogged
  BY DEF MsgInv, LogsInv, LogsOK, QueriesLogged
<1>2. PICK q : q = played
  OBVIOUS
<1>3. q \in Seq(Nat) /\ Rising(q)
  BY <1>2 DEF MsgInv, LogsInv, TrafficOK, Numbers
<1>4. DOMAIN q = 1 .. Len(q)
  BY <1>3
<1>5. PlayedOnce
  BY <1>2, <1>3, <1>4 DEF Rising, PlayedOnce
<1> QED
  BY <1>1, <1>5 DEF LogsExact

LEMMA JobsFact ==
    ASSUME MsgInv
    PROVE  JobsOwnSockets
<1>1. SUFFICES ASSUME ~overrun
      PROVE  /\ DOMAIN service = {translate[i].sock : i \in DOMAIN translate} \ {0}
             /\ \A i, j \in DOMAIN translate : translate[i].uid = translate[j].uid => i = j
             /\ \A i \in DOMAIN translate :
                   /\ translate[i].sock # 0 => service[translate[i].sock].uid = translate[i].uid
                   /\ translate[i].parts \subseteq {translate[i].sock} \ {0}
  BY DEF JobsOwnSockets
<1>2. JobsOK(translate, service)
  BY <1>1 DEF MsgInv, JobsInv
<1>3. DOMAIN translate = 1 .. Len(translate)
  BY <1>2 DEF JobsOK
<1>4. \A i, j \in 1 .. Len(translate) : translate[i].uid = translate[j].uid => i = j
  BY <1>2, JobsDiffer
<1>5. DOMAIN service = {translate[i].sock : i \in 1 .. Len(translate)} \ {0}
  <2>1. PICK tr, sv : tr = translate /\ sv = service
    OBVIOUS
  <2>2. /\ 0 \notin DOMAIN sv
        /\ \A i \in 1 .. Len(tr) : tr[i].sock # 0 => tr[i].sock \in DOMAIN sv
        /\ \A s \in DOMAIN sv : \E i \in 1 .. Len(tr) : tr[i].sock = s
    BY <1>2, <2>1 DEF JobsOK
  <2>3. \A s \in DOMAIN sv : s \in {tr[i].sock : i \in 1 .. Len(tr)} \ {0}
    BY <2>2
  <2>4. \A s \in {tr[i].sock : i \in 1 .. Len(tr)} \ {0} : s \in DOMAIN sv
    BY <2>2
  <2> QED
    BY <2>1, <2>3, <2>4
<1> QED
  BY <1>2, <1>3, <1>4, <1>5 DEF JobsOK

-----------------------------------------------------------------------------
(* Whatever is added, deleted, reloaded or restarted, the lists come back    *)
(* from the configuration in the order and with the numbers LIST shows, which *)
(* are those eraselist() writes, each entry as it was or, where value[200] of *)
(* getini() has no room for it, cut; and the passwords read from them are the *)
(* ones that were given, or their beginnings.                                 *)
THEOREM ListsComeBack == Spec => []Consistent
BY MsgInvariant, ConsistentFact, PTL

(* No query is lost while no client is attached, and PLAYTRAFFICLOG LAST     *)
(* gives no line twice, although the mark in memory and the saved one differ *)
(* between erasetrafficlog() and the next call.                              *)
THEOREM LogsKeepMessages == Spec => []LogsExact
BY MsgInvariant, LogsFact, PTL

(* Text, or an ACTION, that the client writes with PRIVMSG and ":" to one     *)
(* correspondent with keys in the configuration goes out under one of them:   *)
(* the list checkcrypt() looks through has them all, and cuts them as they    *)
(* are cut when they are read. What goes through no checkcrypt() (NOTICE,     *)
(* several receivers, no ":") goes out plain, whatever keys there are.        *)
THEOREM KeysAreUsed == Spec => []SecretKept
<1>1. MsgInv => SecretKept
  BY DEF MsgInv, SentOK, SecretKept
<1> QED
  BY <1>1, MsgInvariant, PTL

(* Until addtranslate() refuses one, every translation has a number of its    *)
(* own, and a socket of its own unless createsocket() failed, and every       *)
(* socket to the service has a translation.                                   *)
THEOREM TranslationsOwnSockets == Spec => []JobsOwnSockets
BY MsgInvariant, JobsFact, PTL
=============================================================================
