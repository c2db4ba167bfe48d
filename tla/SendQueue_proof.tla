-------------------------- MODULE SendQueue_proof --------------------------
(***************************************************************************)
(* Proofs about SendQueue, for any sockets, groups, line lengths and bounds: *)
(* the queues and their counters agree, no message is written twice, every   *)
(* queue is served in order, and the flood protection keeps its limit.       *)
(***************************************************************************)
EXTENDS SendQueue, FiniteSetsExt, SequencesExt, SequenceTheorems, WellFoundedInduction, FiniteSetTheorems, TLAPS

-----------------------------------------------------------------------------
(* Numbers and lists *)

(* A nonempty set of naturals has a least element. *)
LEMMA LeastNatural ==
    ASSUME NEW T, T \subseteq Nat, T # {}
    PROVE  \E x \in T : \A y \in T : x <= y
<1>1. PICK R : R = OpToRel(<, Nat)
  BY Zenon
<1>2. IsWellFoundedOn(R, Nat)
  BY <1>1, NatLessThanWellFounded, Zenon
<1>3. \A x, y \in Nat : x < y => <<x, y>> \in R
  BY <1>1 DEF OpToRel
<1>4. PICK x \in T : \A y \in T : ~ (<<y, x>> \in R)
  BY <1>2, WFMin, Zenon
<1>5. \A y \in T : x <= y
  <2> TAKE y \in T
  <2>1. x \in Nat /\ y \in Nat
    BY <1>4
  <2>2. ~ (y < x)
    BY <1>3, <1>4, <2>1
  <2> QED
    BY <2>1, <2>2
<1> QED
  BY <1>4, <1>5

(* A nonempty set of positions in a list has a last one. *)
LEMMA GreatestPosition ==
    ASSUME NEW n \in Nat, NEW T, T \subseteq 1 .. n, T # {}
    PROVE  Max(T) \in T /\ \A y \in T : Max(T) >= y
<1> DEFINE U == {m \in Nat : \A x \in T : x <= m}
<1>1. U \subseteq Nat /\ n \in U
  OBVIOUS
<1>2. PICK u \in U : \A v \in U : u <= v
  BY <1>1, LeastNatural
<1>3. u \in T
  <2>1. SUFFICES ASSUME u \notin T PROVE FALSE
    OBVIOUS
  <2>2. PICK x \in T : TRUE
    OBVIOUS
  <2>3. u # 0 /\ u \in Nat
    BY <1>2, <2>2
  <2>4. \A y \in T : y <= u /\ y # u /\ y \in Nat
    BY <1>2, <2>1
  <2>5. \A y \in T : y <= u - 1
    BY <2>3, <2>4
  <2>6. u - 1 \in U
    BY <2>3, <2>5
  <2> QED
    BY <1>2, <2>3, <2>6
<1>4. \A y \in T : u >= y
  BY <1>2
<1> QED
  BY <1>3, <1>4 DEF Max

(* Every natural number has a property that 0 has and that passes from each  *)
(* number to the next: stated for the set of the numbers that have it.       *)
LEMMA NatSetInduction ==
    ASSUME NEW T, 0 \in T, \A n \in Nat : n \in T => n + 1 \in T
    PROVE  \A n \in Nat : n \in T
<1> DEFINE U == {n \in Nat : n \notin T}
<1>1. SUFFICES ASSUME U # {} PROVE FALSE
  OBVIOUS
<1>2. PICK u \in U : \A v \in U : u <= v
  BY <1>1, LeastNatural
<1>3. u \in Nat /\ u # 0 /\ u \notin T
  BY <1>2
<1>4. u - 1 \in Nat /\ u - 1 \in T
  BY <1>2, <1>3
<1> QED
  BY <1>3, <1>4

(* The intermediate results h of a loop over n positions, which starts with  *)
(* base and makes F[i][x] of the result x at position i.                     *)
LoopOf(h, X, n, base, F) ==
    /\ h \in [0 .. n -> X] /\ h[0] = base
    /\ \A i \in 1 .. n : h[i] = F[i][h[i - 1]]

(* Every loop has such results. *)
LEMMA LoopResults ==
    ASSUME NEW X, NEW n \in Nat, NEW base \in X, NEW F \in [1 .. n -> [X -> X]]
    PROVE  \E h : LoopOf(h, X, n, base, F)
<1> DEFINE Upto(h, k) == /\ h \in [0 .. k -> X] /\ h[0] = base
                         /\ \A i \in 1 .. k : h[i] = F[i][h[i - 1]]
           T == {k \in Nat : k <= n => \E h : Upto(h, k)}
<1>1. 0 \in T
  <2>1. PICK g : g = [i \in 0 .. 0 |-> base]
    OBVIOUS
  <2>2. Upto(g, 0)
    BY <2>1
  <2> QED
    BY <2>2
<1>2. ASSUME NEW k \in Nat, k \in T PROVE k + 1 \in T
  <2> SUFFICES ASSUME k + 1 <= n PROVE \E h : Upto(h, k + 1)
    BY DEF T
  <2>1. PICK h : Upto(h, k)
    BY <1>2
  <2>2. PICK g : g = [i \in 0 .. k + 1 |-> IF i <= k THEN h[i] ELSE F[k + 1][h[k]]]
    OBVIOUS
  <2>3. F[k + 1] \in [X -> X] /\ h[k] \in X
    BY <2>1
  <2>4. g \in [0 .. k + 1 -> X] /\ g[0] = base
    BY <2>1, <2>2, <2>3
  <2>5. ASSUME NEW i \in 1 .. k + 1 PROVE g[i] = F[i][g[i - 1]]
    <3>1. i - 1 \in 0 .. k + 1 /\ i - 1 <= k /\ g[i - 1] = h[i - 1]
      BY <2>2
    <3>2. CASE i <= k
      BY <2>1, <2>2, <3>1, <3>2
    <3>3. CASE i = k + 1
      <4>1. i - 1 = k /\ ~(i <= k)
        BY <3>3
      <4> QED
        BY <2>2, <3>1, <3>3, <4>1
    <3> QED
      BY <3>2, <3>3
  <2> QED
    BY <2>4, <2>5
<1>3. n \in T
  <2> HIDE DEF T
  <2>1. \A k \in Nat : k \in T
    BY <1>1, <1>2, NatSetInduction
  <2> QED
    BY <2>1
<1> QED
  BY <1>3 DEF LoopOf

-----------------------------------------------------------------------------
(* Lists of messages *)

UniqueIds(q) == \A i, j \in DOMAIN q : q[i].id = q[j].id => i = j

(* No message is in the queue q or on the wire w twice, or in both. *)
Distinct(q, w) ==
    /\ UniqueIds(q)
    /\ UniqueIds(w)
    /\ \A i \in DOMAIN q, j \in DOMAIN w : q[i].id # w[j].id

(* No message of the queue q or the wire w has the id x. *)
Fresh(q, w, x) == (\A i \in DOMAIN q : q[i].id # x) /\ (\A i \in DOMAIN w : w[i].id # x)

(* All ids are older than n. *)
Below(q, w, n) == (\A i \in DOMAIN q : q[i].id < n) /\ (\A i \in DOMAIN w : w[i].id < n)

LEMMA AppendFacts ==
    ASSUME NEW q \in Seq(Message), NEW m \in Message
    PROVE  /\ Append(q, m) \in Seq(Message) /\ Len(Append(q, m)) = Len(q) + 1
           /\ DOMAIN Append(q, m) = 1 .. Len(q) + 1 /\ DOMAIN q = 1 .. Len(q) /\ Len(q) \in Nat
           /\ \A i \in 1 .. Len(q) : Append(q, m)[i] = q[i]
           /\ Append(q, m)[Len(q) + 1] = m
           /\ Append(q, m) # <<>>
           /\ q # <<>> => Head(Append(q, m)) = Head(q)
<1>1. /\ Append(q, m) \in Seq(Message) /\ Len(Append(q, m)) = Len(q) + 1
      /\ \A i \in 1 .. Len(q) : Append(q, m)[i] = q[i]
      /\ Append(q, m)[Len(q) + 1] = m
      /\ Len(q) \in Nat /\ DOMAIN q = 1 .. Len(q)
  BY AppendProperties
<1>2. DOMAIN Append(q, m) = 1 .. Len(q) + 1
  BY <1>1
<1>3. Append(q, m) # <<>>
  BY <1>1
<1>4. q # <<>> => Head(Append(q, m)) = Head(q)
  OBVIOUS
<1> QED
  BY <1>1, <1>2, <1>3, <1>4

LEMMA TailFacts ==
    ASSUME NEW q \in Seq(Message), q # <<>>
    PROVE  /\ Tail(q) \in Seq(Message) /\ Len(Tail(q)) = Len(q) - 1
           /\ DOMAIN Tail(q) = 1 .. Len(q) - 1 /\ DOMAIN q = 1 .. Len(q)
           /\ Len(q) \in Nat /\ Len(q) >= 1
           /\ \A i \in 1 .. Len(q) - 1 : Tail(q)[i] = q[i + 1]
           /\ Head(q) = q[1] /\ Head(q) \in Message
OBVIOUS

(* A new message at the end of the queue or of the wire. *)
LEMMA AppendDistinct ==
    ASSUME NEW q \in Seq(Message), NEW w \in Seq(Message), NEW m \in Message,
           Distinct(q, w), Fresh(q, w, m.id)
    PROVE  /\ Distinct(Append(q, m), w)
           /\ Distinct(q, Append(w, m))
<1>1. PICK a, b : a = Append(q, m) /\ b = Append(w, m)
  OBVIOUS
<1>2. /\ DOMAIN a = 1 .. Len(q) + 1 /\ DOMAIN q = 1 .. Len(q) /\ Len(q) \in Nat
      /\ \A i \in 1 .. Len(q) : a[i] = q[i]
      /\ a[Len(q) + 1] = m
  BY <1>1, AppendFacts
<1>3. /\ DOMAIN b = 1 .. Len(w) + 1 /\ DOMAIN w = 1 .. Len(w) /\ Len(w) \in Nat
      /\ \A i \in 1 .. Len(w) : b[i] = w[i]
      /\ b[Len(w) + 1] = m
  BY <1>1, AppendFacts
<1>4. \A i \in DOMAIN a : (i \in DOMAIN q /\ a[i] = q[i]) \/ (i = Len(q) + 1 /\ a[i] = m)
  BY <1>2
<1>5. \A i \in DOMAIN b : (i \in DOMAIN w /\ b[i] = w[i]) \/ (i = Len(w) + 1 /\ b[i] = m)
  BY <1>3
<1>6. Distinct(a, w)
  BY <1>4 DEF Distinct, UniqueIds, Fresh
<1>7. Distinct(q, b)
  BY <1>5 DEF Distinct, UniqueIds, Fresh
<1> QED
  BY <1>1, <1>6, <1>7

(* The first message of the queue goes to the wire, or is dropped. *)
LEMMA TailDistinct ==
    ASSUME NEW q \in Seq(Message), NEW w \in Seq(Message), q # <<>>, Distinct(q, w)
    PROVE  /\ Distinct(Tail(q), w)
           /\ Fresh(Tail(q), w, Head(q).id)
<1>1. PICK t : t = Tail(q)
  OBVIOUS
<1>2. /\ DOMAIN t = 1 .. Len(q) - 1 /\ DOMAIN q = 1 .. Len(q) /\ Len(q) \in Nat /\ Len(q) >= 1
      /\ \A i \in 1 .. Len(q) - 1 : t[i] = q[i + 1]
      /\ Head(q) = q[1]
  BY <1>1, TailFacts
<1>3. \A i \in DOMAIN t : i + 1 \in DOMAIN q /\ t[i] = q[i + 1] /\ i + 1 # 1 /\ i \in Nat
  BY <1>2
<1>4. 1 \in DOMAIN q
  BY <1>2
<1>5. ASSUME NEW i \in DOMAIN t, NEW j \in DOMAIN t, t[i].id = t[j].id PROVE i = j
  <2>1. i + 1 = j + 1
    BY <1>3, <1>5 DEF Distinct, UniqueIds
  <2> QED
    BY <1>3, <2>1
<1>6. Distinct(t, w)
  BY <1>3, <1>5 DEF Distinct, UniqueIds
<1>7. Fresh(t, w, Head(q).id)
  BY <1>2, <1>3, <1>4 DEF Distinct, UniqueIds, Fresh
<1> QED
  BY <1>1, <1>6, <1>7

(* The recursion of Nonempty has a solution, and Nonempty is its last value. *)
LEMMA NonemptyFunction ==
    ASSUME NEW q \in Seq(Message)
    PROVE  \E h : /\ h \in [0 .. Len(q) -> Seq(Message)] /\ h[0] = <<>>
                  /\ \A i \in 1 .. Len(q) :
                       h[i] = IF q[i].len > 0 THEN Append(h[i - 1], q[i]) ELSE h[i - 1]
                  /\ Nonempty(q) = h[Len(q)]
<1> DEFINE Body(h, i) == IF i = 0 THEN <<>>
                         ELSE IF q[i].len > 0 THEN Append(h[i - 1], q[i]) ELSE h[i - 1]
           Solves(h) == h = [i \in 0 .. Len(q) |-> Body(h, i)]
           X == Seq(Message)
           F == [i \in 1 .. Len(q) |-> [x \in X |-> IF q[i].len > 0 THEN Append(x, q[i]) ELSE x]]
<1>1. Len(q) \in Nat /\ \A i \in 1 .. Len(q) : q[i] \in Message
  OBVIOUS
<1>2. \A i \in 1 .. Len(q) : \A x \in X : Append(x, q[i]) \in X
  BY <1>1
<1>3. F \in [1 .. Len(q) -> [X -> X]] /\ <<>> \in X
  <2> HIDE DEF X
  <2>1. F \in [1 .. Len(q) -> [X -> X]]
    BY <1>2
  <2> QED
    BY <2>1 DEF X
<1>4. PICK g : LoopOf(g, X, Len(q), <<>>, F)
  <2> HIDE DEF F, X
  <2> QED
    BY <1>1, <1>3, LoopResults, Zenon
<1> USE DEF LoopOf
<1>5. Solves(g)
  <2>1. ASSUME NEW i \in 0 .. Len(q) PROVE g[i] = Body(g, i)
    <3>1. CASE i = 0
      BY <1>4, <3>1
    <3>2. CASE i \in 1 .. Len(q)
      <4>1. i - 1 \in 0 .. Len(q)
        BY <1>1, <3>2
      <4>2. g[i - 1] \in X
        BY <1>4, <4>1
      <4> HIDE DEF X
      <4> QED
        BY <1>4, <3>2, <4>2
    <3> QED
      BY <1>1, <3>1, <3>2
  <2> HIDE DEF Body
  <2> QED
    BY <1>4, <2>1
<1>6. PICK h : h = CHOOSE f : Solves(f)
  OBVIOUS
<1>7. Solves(h)
  <2> HIDE DEF Solves
  <2> QED
    BY <1>5, <1>6
<1>8. Nonempty(q) = h[Len(q)]
  BY <1>6 DEF Nonempty
<1>9. \A i \in 0 .. Len(q) : h[i] = Body(h, i)
  BY <1>7, Zenon
<1>10. h[0] = <<>> /\ \A i \in 1 .. Len(q) :
                        h[i] = IF q[i].len > 0 THEN Append(h[i - 1], q[i]) ELSE h[i - 1]
  BY <1>1, <1>9
<1>11. \A i \in 0 .. Len(q) : h[i] \in X
  <2> DEFINE T == {i \in Nat : i <= Len(q) => h[i] \in X}
  <2>1. 0 \in T
    BY <1>3, <1>10
  <2>2. ASSUME NEW i \in Nat, i \in T PROVE i + 1 \in T
    <3>1. i + 1 <= Len(q) => i + 1 \in 1 .. Len(q) /\ (i + 1) - 1 = i /\ h[i] \in X
      BY <1>1, <2>2
    <3> HIDE DEF X
    <3> QED
      BY <1>2, <1>10, <3>1
  <2>3. \A i \in Nat : i \in T
    <3> HIDE DEF T
    <3> QED
      BY <2>1, <2>2, NatSetInduction
  <2> QED
    BY <1>1, <2>3
<1>12. h \in [0 .. Len(q) -> X]
  <2> HIDE DEF X, Body
  <2> QED
    BY <1>7, <1>11
<1> QED
  BY <1>8, <1>10, <1>12

(* What killsocket() writes of a queue: messages of the queue, none twice. *)
LEMMA NonemptyFacts ==
    ASSUME NEW q \in Seq(Message)
    PROVE  /\ Nonempty(q) \in Seq(Message)
           /\ \A i \in DOMAIN Nonempty(q) : \E j \in DOMAIN q : q[j] = Nonempty(q)[i]
           /\ UniqueIds(q) => UniqueIds(Nonempty(q))
<1>1. PICK h : /\ h \in [0 .. Len(q) -> Seq(Message)] /\ h[0] = <<>>
               /\ \A i \in 1 .. Len(q) :
                    h[i] = IF q[i].len > 0 THEN Append(h[i - 1], q[i]) ELSE h[i - 1]
               /\ Nonempty(q) = h[Len(q)]
  BY NonemptyFunction
<1>2. Len(q) \in Nat /\ DOMAIN q = 1 .. Len(q) /\ \A i \in 1 .. Len(q) : q[i] \in Message
  OBVIOUS
<1> DEFINE Good(r, n) == /\ \A i \in DOMAIN r : \E j \in 1 .. n : q[j] = r[i]
                         /\ UniqueIds(q) => UniqueIds(r)
           T == {n \in Nat : n <= Len(q) => Good(h[n], n)}
<1>3. 0 \in T
  <2>1. PICK r : r = <<>>
    OBVIOUS
  <2>2. DOMAIN r = {}
    BY <2>1
  <2>3. Good(r, 0)
    BY <2>2 DEF UniqueIds
  <2> QED
    BY <1>1, <2>1, <2>3
<1>4. ASSUME NEW n \in Nat, n \in T PROVE n + 1 \in T
  <2> SUFFICES ASSUME n + 1 <= Len(q) PROVE Good(h[n + 1], n + 1)
    BY DEF T
  <2>1. n + 1 \in 1 .. Len(q) /\ (n + 1) - 1 = n /\ n \in 0 .. Len(q) /\ n <= Len(q)
    BY <1>2
  <2>2. PICK r, m : r = h[n] /\ m = q[n + 1]
    OBVIOUS
  <2>3. r \in Seq(Message) /\ Good(r, n) /\ m \in Message
    BY <1>1, <1>2, <1>4, <2>1, <2>2
  <2>4. h[n + 1] = IF m.len > 0 THEN Append(r, m) ELSE r
    BY <1>1, <2>1, <2>2
  <2>5. Good(r, n + 1)
    BY <2>3
  <2>6. Good(Append(r, m), n + 1)
    <3>1. PICK a : a = Append(r, m)
      OBVIOUS
    <3>2. \A i \in DOMAIN a : (i \in DOMAIN r /\ a[i] = r[i]) \/ (i = Len(r) + 1 /\ a[i] = m)
      <4>1. /\ DOMAIN a = 1 .. Len(r) + 1 /\ DOMAIN r = 1 .. Len(r) /\ Len(r) \in Nat
            /\ \A i \in 1 .. Len(r) : a[i] = r[i]
            /\ a[Len(r) + 1] = m
        BY <2>3, <3>1, AppendFacts
      <4> QED
        BY <4>1
    <3>3. \A i \in DOMAIN a : \E j \in 1 .. n + 1 : q[j] = a[i]
      BY <2>1, <2>2, <2>5, <3>2
    <3>4. ASSUME UniqueIds(q) PROVE UniqueIds(a)
      <4>1. ASSUME NEW i \in DOMAIN r, r[i].id = m.id PROVE FALSE
        <5>1. PICK j \in 1 .. n : q[j] = r[i]
          BY <2>3
        <5>2. j \in DOMAIN q /\ n + 1 \in DOMAIN q /\ j # n + 1
          BY <1>2, <2>1
        <5> QED
          BY <2>2, <3>4, <4>1, <5>1, <5>2 DEF UniqueIds
      <4> QED
        BY <2>3, <3>2, <3>4, <4>1 DEF UniqueIds
    <3> QED
      BY <3>1, <3>3, <3>4
  <2> QED
    BY <2>4, <2>5, <2>6
<1>5. Good(h[Len(q)], Len(q))
  <2>1. \A n \in Nat : n \in T
    <3> HIDE DEF T
    <3> QED
      BY <1>3, <1>4, NatSetInduction
  <2> QED
    BY <1>2, <2>1
<1>6. h[Len(q)] \in Seq(Message)
  BY <1>1, <1>2
<1> QED
  BY <1>1, <1>2, <1>5, <1>6

(* The bytes of a queue that count are a number. *)
LEMMA BytesType ==
    ASSUME NEW q \in Seq(Message)
    PROVE  Bytes(q) \in Nat
<1> DEFINE Body(h, i) == IF i = 0 THEN 0 ELSE h[i - 1] + Counted(q[i])
           Solves(h) == h = [i \in 0 .. Len(q) |-> Body(h, i)]
           F == [i \in 1 .. Len(q) |-> [x \in Nat |-> x + Counted(q[i])]]
<1>1. Len(q) \in Nat /\ \A i \in 1 .. Len(q) : Counted(q[i]) \in Nat
  <2>1. \A i \in 1 .. Len(q) : q[i] \in Message
    OBVIOUS
  <2> QED
    BY <2>1 DEF Counted, Message
<1>2. F \in [1 .. Len(q) -> [Nat -> Nat]]
  BY <1>1
<1>3. PICK g : LoopOf(g, Nat, Len(q), 0, F)
  <2> HIDE DEF F
  <2>1. 0 \in Nat
    OBVIOUS
  <2> QED
    BY <1>1, <1>2, <2>1, LoopResults, Zenon
<1>4. Solves(g)
  <2>1. ASSUME NEW i \in 0 .. Len(q) PROVE g[i] = Body(g, i)
    <3>1. CASE i = 0
      BY <1>3, <3>1 DEF LoopOf
    <3>2. CASE i \in 1 .. Len(q)
      <4>1. i - 1 \in 0 .. Len(q)
        BY <1>1, <3>2
      <4>2. g[i - 1] \in Nat
        BY <1>3, <4>1 DEF LoopOf
      <4> QED
        BY <1>3, <3>2, <4>2 DEF LoopOf
    <3> QED
      BY <1>1, <3>1, <3>2
  <2> HIDE DEF Body
  <2> QED
    BY <1>3, <2>1 DEF LoopOf
<1>5. PICK h : h = CHOOSE f : Solves(f)
  OBVIOUS
<1>6. Solves(h)
  <2> HIDE DEF Solves
  <2> QED
    BY <1>4, <1>5
<1>7. Bytes(q) = h[Len(q)]
  BY <1>5 DEF Bytes
<1>8. \A i \in 0 .. Len(q) : h[i] = Body(h, i)
  BY <1>6, Zenon
<1> DEFINE T == {i \in Nat : i <= Len(q) => h[i] \in Nat}
<1>9. 0 \in T
  BY <1>1, <1>8
<1>10. ASSUME NEW i \in Nat, i \in T PROVE i + 1 \in T
  BY <1>1, <1>8, <1>10
<1>11. \A i \in Nat : i \in T
  <2> HIDE DEF T
  <2> QED
    BY <1>9, <1>10, NatSetInduction
<1> QED
  BY <1>1, <1>7, <1>11

-----------------------------------------------------------------------------
(* The inductive invariant *)

(* What the write functions are given and return. *)
State == [sock : [Sockets -> Socket], urgent : {0, 1},
          wire : [Sockets -> Seq(Message)], sent : [Sockets -> Nat]]

Short == \A len \in Lengths : len < Limit
Ordinary == \A len \in Lengths : len \in 1 .. Limit - 1

(* A message of the queue is an ordinary line or an empty line of connect.   *)
OriginOK(k) ==
    \A i \in DOMAIN k.sendq :
       IF k.sendq[i].api = "connect" THEN k.sendq[i].len = 0 ELSE k.sendq[i].len \in Lengths

(* The flood protection of a server socket. *)
FloodOK(s, k) ==
    /\ k.serversocket => s \in ServerSockets
    /\ s \in ServerSockets /\ k.flag # "DEAD" => k.serversocket
    /\ s \in ServerSockets /\ k.stoned > 0 =>
         k.flag = "CONN" /\ k.sendq # <<>> /\ k.bytes + Head(k.sendq).len > Limit
    /\ s \in ServerSockets /\ Short => k.bytes <= Limit

(* One socket k with what it has written. *)
SocketOK(s, k, w) ==
    /\ Distinct(k.sendq, w)
    /\ OriginOK(k)
    /\ FloodOK(s, k)

AllOK(st) == \A s \in Sockets : SocketOK(s, st.sock[s], st.wire[s])

(* From st to r the bytes that count on the server socket u are matched by   *)
(* as many that the flood protection counts.                                 *)
PaidAt(st, r, u) == r.sent[u] + st.sock[u].bytes <= st.sent[u] + r.sock[u].bytes

Paid(st, r) == \A u \in ServerSockets : PaidAt(st, r, u)

(* One line goes past the flood protection, and `urgent` is used up for it.  *)
BypassedAt(st, r, u) ==
    /\ st.urgent = 1 /\ r.urgent = 0
    /\ r.sent[u] + st.sock[u].bytes <= st.sent[u] + r.sock[u].bytes + Max(Lengths)

Bypassed(st, r) == \A u \in ServerSockets : BypassedAt(st, r, u)

(* Every leak of `urgent` since the last answer is still there or has let at *)
(* most one line past the flood protection.                                  *)
OwedAt(u) ==
    /\ urgent <= leaks[u]
    /\ sock[u].flag # "DEAD" =>
         sent[u] <= sock[u].bytes + Max(Lengths) * (leaks[u] - urgent)

Owed == Ordinary => \A u \in ServerSockets : OwedAt(u)

(* entrys may be ahead of the queue while addq() has counted a message that  *)
(* is not yet in the list.                                                   *)
Ahead(k) == k.entrys - Len(k.sendq)

Sound(st) == st \in State /\ AllOK(st)

Older(st, n) == \A s \in Sockets : Below(st.sock[s].sendq, st.wire[s], n)

SendQueueInv == TypeOK /\ EntrysExact /\ Sound(Current) /\ Older(Current, nextid) /\ Owed

-----------------------------------------------------------------------------
(* What the write functions return *)

(* Only the socket s is different in r. *)
OnlyAt(st, r, s) ==
    \A t \in Sockets \ {s} :
       r.sock[t] = st.sock[t] /\ r.wire[t] = st.wire[t] /\ r.sent[t] = st.sent[t]

(* r is st with the message m written on the socket s, if it is connected. *)
Wrote(st, r, s, m) ==
    /\ r \in State
    /\ r.sock = st.sock
    /\ OnlyAt(st, r, s)
    /\ m.len = 0 => r = st
    /\ m.len # 0 => r.urgent = 0
    /\ m.len # 0 /\ st.sock[s].flag = "CONN" =>
         r.wire[s] = Append(st.wire[s], m) /\ r.sent[s] = st.sent[s] + Counted(m)
    /\ st.sock[s].flag # "CONN" => r.wire[s] = st.wire[s] /\ r.sent[s] = st.sent[s]

LEMMA WriteNowFacts ==
    ASSUME NEW st \in State, NEW s \in Sockets, NEW m \in Message,
           NEW r, r = WriteNow(st, s, m)
    PROVE  Wrote(st, r, s, m)
<1>1. m.len \in Nat /\ Counted(m) \in Nat
  BY DEF Counted, Message
<1>2. st.wire \in [Sockets -> Seq(Message)] /\ st.sent \in [Sockets -> Nat]
  BY DEF State
<1>3. Append(st.wire[s], m) \in Seq(Message) /\ st.sent[s] + Counted(m) \in Nat
  BY <1>1, <1>2
<1>4. CASE m.len = 0
  BY <1>4 DEF WriteNow, OnlyAt, Wrote
<1>5. CASE m.len # 0
  <2>1. PICK w, n : /\ w = IF st.sock[s].flag = "CONN" THEN Append(st.wire[s], m) ELSE st.wire[s]
                    /\ n = IF st.sock[s].flag = "CONN" THEN st.sent[s] + Counted(m) ELSE st.sent[s]
    OBVIOUS
  <2>2. w \in Seq(Message) /\ n \in Nat
    BY <1>2, <1>3, <2>1
  <2>3. r = [sock |-> st.sock, urgent |-> 0, wire |-> [st.wire EXCEPT ![s] = w],
             sent |-> [st.sent EXCEPT ![s] = n]]
    <3>1. CASE st.sock[s].flag = "CONN"
      BY <1>5, <2>1, <3>1 DEF WriteNow, State
    <3>2. CASE st.sock[s].flag # "CONN"
      BY <1>5, <2>1, <3>2 DEF WriteNow, State
    <3> QED
      BY <3>1, <3>2
  <2>4. /\ r.sock = st.sock /\ r.urgent = 0
        /\ r.wire = [st.wire EXCEPT ![s] = w] /\ r.sent = [st.sent EXCEPT ![s] = n]
    BY <2>3
  <2>5. r \in State
    BY <1>2, <2>2, <2>3 DEF State
  <2> QED
    BY <1>2, <1>5, <2>1, <2>4, <2>5 DEF OnlyAt, Wrote
<1> QED
  BY <1>4, <1>5

(* r is st with the first message m taken off the queue of s and written. *)
Popped(st, r, s, m) ==
    LET k == st.sock[s]
        l == r.sock[s]
    IN  /\ r \in State
        /\ OnlyAt(st, r, s)
        /\ l.flag = k.flag /\ l.stoned = k.stoned /\ l.serversocket = k.serversocket
        /\ l.sendq = Tail(k.sendq) /\ l.entrys = k.entrys - 1
        /\ l.bytes = IF k.serversocket THEN k.bytes + m.len ELSE k.bytes
        /\ m.len = 0 => r.urgent = 1 /\ r.wire[s] = st.wire[s] /\ r.sent[s] = st.sent[s]
        /\ m.len # 0 => r.urgent = 0
        /\ m.len # 0 /\ k.flag = "CONN" =>
             r.wire[s] = Append(st.wire[s], m) /\ r.sent[s] = st.sent[s] + Counted(m)

LEMMA PopFacts ==
    ASSUME NEW st \in State, NEW s \in Sockets, st.sock[s].sendq # <<>>,
           NEW r, r = PopAndWrite(st, s), NEW m, m = Head(st.sock[s].sendq)
    PROVE  Popped(st, r, s, m)
<1>0. PICK k : k = st.sock[s]
  OBVIOUS
<1>1. st.sock \in [Sockets -> Socket] /\ k \in Socket /\ k.sendq \in Seq(Message)
  BY <1>0 DEF State, Socket
<1>2. m \in Message /\ Tail(k.sendq) \in Seq(Message)
  BY <1>0, <1>1, TailFacts
<1>3. m.len \in Nat /\ k.bytes \in Nat /\ k.entrys \in Int
  BY <1>1, <1>2 DEF Message, Socket
<1>4. PICK b : b = IF k.serversocket THEN k.bytes + m.len ELSE k.bytes
  OBVIOUS
<1>5. b \in Nat
  BY <1>3, <1>4
<1>6. PICK e : e = k.entrys - 1
  OBVIOUS
<1>7. PICK l : l = [k EXCEPT !.sendq = Tail(@), !.entrys = @ - 1,
                             !.bytes = IF k.serversocket THEN @ + m.len ELSE @]
  OBVIOUS
<1>8. l = [flag |-> k.flag, sendq |-> Tail(k.sendq), entrys |-> e,
           serversocket |-> k.serversocket, stoned |-> k.stoned, bytes |-> b]
  BY <1>1, <1>4, <1>6, <1>7 DEF Socket
<1>9. l \in Socket
  BY <1>1, <1>2, <1>3, <1>5, <1>6, <1>8 DEF Socket
<1>10. PICK st1 : st1 = [st EXCEPT !.sock = [st.sock EXCEPT ![s] = l], !.urgent = 1]
  OBVIOUS
<1>11. st1 \in State
  BY <1>1, <1>9, <1>10 DEF State
<1>12. r = WriteNow(st1, s, m)
  <2>1. [st EXCEPT !.sock[s] = l, !.urgent = 1] = st1
    BY <1>10 DEF State
  <2> QED
    BY <1>0, <1>7, <2>1 DEF PopAndWrite
<1>13. st1.sock[s] = l /\ st1.urgent = 1 /\ st1.wire = st.wire /\ st1.sent = st.sent
  BY <1>1, <1>10 DEF State
<1>14. \A t \in Sockets \ {s} : st1.sock[t] = st.sock[t]
  BY <1>1, <1>10 DEF State
<1>15. Wrote(st1, r, s, m)
  BY <1>2, <1>11, <1>12, WriteNowFacts, Zenon
<1>16. OnlyAt(st, r, s)
  BY <1>13, <1>14, <1>15 DEF OnlyAt, Wrote
<1>17. /\ l.flag = k.flag /\ l.stoned = k.stoned /\ l.serversocket = k.serversocket
       /\ l.sendq = Tail(k.sendq) /\ l.entrys = e /\ l.bytes = b
  BY <1>8
<1> QED
  BY <1>0, <1>4, <1>6, <1>13, <1>15, <1>16, <1>17 DEF Wrote, Popped

(* flushsendq() does nothing, lowers the delay of the first message, makes   *)
(* the server wait, or takes the first message off the queue.                *)
LEMMA FlushCases ==
    ASSUME NEW st \in State, NEW s \in Sockets, NEW forced \in BOOLEAN, pass.inc \in {0, 1},
           NEW r, r = flushsendq(st, s, forced), NEW k, k = st.sock[s]
    PROVE  \/ r = st
           \/ /\ k.flag = "CONN" /\ k.sendq # <<>>
              /\ \/ /\ k.sendq[1].delay > 0
                    /\ r = [st EXCEPT !.sock[s].sendq[1].delay = @ - pass.inc]
                 \/ /\ k.serversocket /\ k.stoned = 0 /\ k.bytes + Head(k.sendq).len > Limit
                    /\ r = [st EXCEPT !.sock[s].stoned = StoneTime]
                 \/ /\ k.serversocket =>
                         k.stoned = 0 /\ (k.bytes + Head(k.sendq).len <= Limit
                                            \/ Head(k.sendq).len >= Limit)
                    /\ r = PopAndWrite(st, s)
<1>1. k \in Socket /\ k.sendq \in Seq(Message)
  BY DEF State, Socket
<1>2. k.stoned \in Nat /\ k.bytes \in Nat /\ Limit \in Nat
  BY <1>1, SendQueueAssumption DEF Socket
<1>3. CASE k.flag # "CONN" \/ k.sendq = <<>>
  BY <1>3 DEF flushsendq
<1>4. CASE k.flag = "CONN" /\ k.sendq # <<>>
  <2>1. PICK m : m = Head(k.sendq)
    OBVIOUS
  <2>2. m \in Message /\ m = k.sendq[1]
    BY <1>1, <1>4, <2>1
  <2>3. m.len \in Nat /\ m.delay \in Nat
    BY <2>2 DEF Message
  <2>4. CASE ~forced /\ m.delay > 0
    BY <1>4, <2>1, <2>2, <2>4 DEF flushsendq
  <2>5. CASE ~(~forced /\ m.delay > 0) /\ k.serversocket /\ k.stoned > 0
    BY <1>4, <2>1, <2>5 DEF flushsendq
  <2>6. CASE /\ ~(~forced /\ m.delay > 0) /\ ~(k.serversocket /\ k.stoned > 0)
             /\ k.serversocket /\ k.bytes + m.len > Limit /\ m.len < Limit
    BY <1>2, <1>4, <2>1, <2>6 DEF flushsendq
  <2>7. CASE /\ ~(~forced /\ m.delay > 0) /\ ~(k.serversocket /\ k.stoned > 0)
             /\ ~(k.serversocket /\ k.bytes + m.len > Limit /\ m.len < Limit)
    <3>1. r = PopAndWrite(st, s)
      BY <1>4, <2>1, <2>7 DEF flushsendq
    <3>2. k.serversocket => k.stoned = 0 /\ (k.bytes + m.len <= Limit \/ m.len >= Limit)
      BY <1>2, <2>3, <2>7
    <3> QED
      BY <1>4, <2>1, <3>1, <3>2
  <2> QED
    BY <2>4, <2>5, <2>6, <2>7
<1> QED
  BY <1>3, <1>4

-----------------------------------------------------------------------------
(* The write functions keep the invariant *)

(* From st to r no socket changes its flag, and only those of T may have got *)
(* a new message, the one with the id y.                                     *)
Keeps(st, r, T, y) ==
    \A u \in Sockets :
       /\ r.sock[u].flag = st.sock[u].flag
       /\ Ahead(r.sock[u]) = Ahead(st.sock[u])
       /\ \A x : Fresh(st.sock[u].sendq, st.wire[u], x) /\ ~(u \in T /\ x = y)
                 => Fresh(r.sock[u].sendq, r.wire[u], x)

LEMMA AllButOne ==
    ASSUME NEW st, NEW r, NEW s \in Sockets, AllOK(st), OnlyAt(st, r, s),
           SocketOK(s, r.sock[s], r.wire[s])
    PROVE  AllOK(r)
BY DEF AllOK, OnlyAt

LEMMA KeepsOne ==
    ASSUME NEW st, NEW r, NEW s \in Sockets, NEW T, NEW y, OnlyAt(st, r, s),
           r.sock[s].flag = st.sock[s].flag,
           Ahead(r.sock[s]) = Ahead(st.sock[s]),
           \A x : Fresh(st.sock[s].sendq, st.wire[s], x) /\ ~(s \in T /\ x = y)
                  => Fresh(r.sock[s].sendq, r.wire[s], x)
    PROVE  Keeps(st, r, T, y)
<1> SUFFICES ASSUME NEW u \in Sockets
             PROVE  /\ r.sock[u].flag = st.sock[u].flag
                    /\ Ahead(r.sock[u]) = Ahead(st.sock[u])
                    /\ \A x : Fresh(st.sock[u].sendq, st.wire[u], x) /\ ~(u \in T /\ x = y)
                              => Fresh(r.sock[u].sendq, r.wire[u], x)
  BY Zenon DEF Keeps
<1>1. CASE u = s
  BY <1>1, Zenon
<1>2. CASE u # s
  BY <1>2, Zenon DEF OnlyAt
<1> QED
  BY <1>1, <1>2

LEMMA KeepsTransitive ==
    ASSUME NEW a, NEW b, NEW c, NEW T, NEW U, NEW y, Keeps(a, b, T, y), Keeps(b, c, U, y)
    PROVE  Keeps(a, c, T \cup U, y)
BY Zenon DEF Keeps

LEMMA KeepsOlder ==
    ASSUME NEW st, NEW r, NEW T, NEW y, NEW n, Keeps(st, r, T, y), Older(st, n), y < n
    PROVE  Older(r, n)
<1> SUFFICES ASSUME NEW u \in Sockets PROVE Below(r.sock[u].sendq, r.wire[u], n)
  BY DEF Older
<1>1. PICK q, w, q2, w2 : /\ q = st.sock[u].sendq /\ w = st.wire[u]
                          /\ q2 = r.sock[u].sendq /\ w2 = r.wire[u]
  OBVIOUS
<1>2. \A x : Fresh(q, w, x) /\ x # y => Fresh(q2, w2, x)
  BY <1>1, Zenon DEF Keeps
<1>3. Below(q, w, n)
  BY <1>1 DEF Older
<1>4. \A x : ~(x < n) => Fresh(q, w, x)
  BY <1>3, Zenon DEF Below, Fresh
<1>5. \A x : ~(x < n) => Fresh(q2, w2, x)
  BY <1>2, <1>4, Zenon
<1>6. Below(q2, w2, n)
  BY <1>5, Zenon DEF Below, Fresh
<1> QED
  BY <1>1, <1>6

(* A queue that differs in delays only. *)
Redelayed(q, d) ==
    /\ d \in Seq(Message) /\ Len(d) = Len(q) /\ DOMAIN d = DOMAIN q
    /\ \A i \in DOMAIN q : d[i].id = q[i].id /\ d[i].len = q[i].len /\ d[i].api = q[i].api
    /\ q # <<>> => d # <<>> /\ Head(d).len = Head(q).len

LEMMA DelayFacts ==
    ASSUME NEW q \in Seq(Message), q # <<>>, NEW d \in Nat
    PROVE  Redelayed(q, [q EXCEPT ![1].delay = d])
<1>1. q[1] \in Message /\ 1 \in DOMAIN q
  OBVIOUS
<1>2. PICK m : m = [q[1] EXCEPT !.delay = d]
  OBVIOUS
<1>3. m \in Message /\ m.id = q[1].id /\ m.len = q[1].len /\ m.api = q[1].api
  BY <1>1, <1>2 DEF Message
<1>4. PICK e : e = [q EXCEPT ![1] = m]
  OBVIOUS
<1>5. e \in Seq(Message) /\ Len(e) = Len(q) /\ DOMAIN e = DOMAIN q
  BY <1>1, <1>3, <1>4
<1>6. e[1] = m /\ \A i \in DOMAIN q : i # 1 => e[i] = q[i]
  BY <1>1, <1>4
<1>7. e # <<>> /\ Head(e) = m /\ Head(q) = q[1]
  BY <1>1, <1>5, <1>6
<1>8. [q EXCEPT ![1].delay = d] = e
  BY <1>2, <1>4
<1> QED
  BY <1>3, <1>5, <1>6, <1>7, <1>8 DEF Redelayed

LEMMA RedelayedOK ==
    ASSUME NEW s, NEW k, NEW l, NEW w, SocketOK(s, k, w), Redelayed(k.sendq, l.sendq),
           l.flag = k.flag, l.serversocket = k.serversocket, l.stoned = k.stoned,
           l.bytes = k.bytes
    PROVE  /\ SocketOK(s, l, w)
           /\ \A x : Fresh(k.sendq, w, x) => Fresh(l.sendq, w, x)
<1>1. PICK q, d : q = k.sendq /\ d = l.sendq
  OBVIOUS
<1>2. Distinct(d, w)
  <2>1. /\ Distinct(q, w) /\ DOMAIN d = DOMAIN q
        /\ \A i \in DOMAIN q : d[i].id = q[i].id
    BY <1>1, Zenon DEF Redelayed, SocketOK
  <2> QED
    BY <2>1 DEF Distinct, UniqueIds
<1>3. \A x : Fresh(q, w, x) => Fresh(d, w, x)
  BY <1>1, Zenon DEF Redelayed, Fresh
<1>4. OriginOK(l)
  BY Zenon DEF Redelayed, SocketOK, OriginOK
<1>5. FloodOK(s, l)
  BY DEF Redelayed, SocketOK, FloodOK
<1> QED
  BY <1>1, <1>2, <1>3, <1>4, <1>5 DEF SocketOK

(* The longest line. *)
LEMMA MaxLength ==
    ASSUME Ordinary
    PROVE  Max(Lengths) \in Nat /\ \A len \in Lengths : len <= Max(Lengths)
<1>1. Limit \in Nat /\ Lengths # {} /\ Lengths \subseteq Nat
  BY SendQueueAssumption
<1>2. Lengths \subseteq 1 .. Limit
  BY <1>1 DEF Ordinary
<1>3. Max(Lengths) \in Lengths /\ \A y \in Lengths : Max(Lengths) >= y
  BY <1>1, <1>2, GreatestPosition
<1> QED
  BY <1>1, <1>3

(* r is st with the message y on the sockets T at most, and what it has put  *)
(* on the wire of a server is counted.                                       *)
Added(st, r, T, y) ==
    /\ r \in State /\ AllOK(r)
    /\ Keeps(st, r, T, y)
    /\ Paid(st, r)

LEMMA PaidSame ==
    ASSUME NEW st \in State, NEW r,
           \A u \in Sockets : r.sent[u] = st.sent[u] /\ r.sock[u].bytes = st.sock[u].bytes
    PROVE  Paid(st, r)
<1> SUFFICES ASSUME NEW u \in ServerSockets PROVE PaidAt(st, r, u)
  BY DEF Paid
<1>1. u \in Sockets
  BY SendQueueAssumption
<1>2. st.sent[u] \in Nat /\ st.sock[u].bytes \in Nat
  BY <1>1 DEF State, Socket
<1> QED
  BY <1>1, <1>2 DEF PaidAt

LEMMA PaidTransitive ==
    ASSUME NEW a \in State, NEW b \in State, NEW c \in State, Paid(a, b), Paid(b, c)
    PROVE  Paid(a, c)
<1> SUFFICES ASSUME NEW u \in ServerSockets PROVE PaidAt(a, c, u)
  BY DEF Paid
<1>1. u \in Sockets
  BY SendQueueAssumption
<1>2. /\ a.sent[u] \in Nat /\ b.sent[u] \in Nat /\ c.sent[u] \in Nat
      /\ a.sock[u].bytes \in Nat /\ b.sock[u].bytes \in Nat /\ c.sock[u].bytes \in Nat
  BY <1>1 DEF State, Socket
<1>3. PaidAt(a, b, u) /\ PaidAt(b, c, u)
  BY DEF Paid
<1> QED
  BY <1>2, <1>3 DEF PaidAt

LEMMA AddedNone ==
    ASSUME NEW st \in State, AllOK(st), NEW T, NEW y
    PROVE  Added(st, st, T, y)
<1>1. Paid(st, st)
  BY PaidSame
<1>2. Keeps(st, st, T, y)
  BY Zenon DEF Keeps
<1> QED
  BY <1>1, <1>2 DEF Added

(* The first message of a queue that is taken off and written. *)
LEMMA PopSound ==
    ASSUME NEW st \in State, AllOK(st),
           NEW s \in Sockets, st.sock[s].flag = "CONN", st.sock[s].sendq # <<>>,
           st.sock[s].serversocket =>
             st.sock[s].stoned = 0 /\ (st.sock[s].bytes + Head(st.sock[s].sendq).len <= Limit
                                         \/ Head(st.sock[s].sendq).len >= Limit),
           NEW r, r = PopAndWrite(st, s), NEW T, NEW y
    PROVE  Added(st, r, T, y)
<1>1. PICK k, m, q, w, l : /\ k = st.sock[s] /\ q = k.sendq /\ m = Head(q) /\ w = st.wire[s]
                           /\ l = r.sock[s]
  OBVIOUS
<1>2. Popped(st, r, s, m)
  BY <1>1, PopFacts, Zenon
<1>3. /\ k \in Socket /\ q \in Seq(Message) /\ w \in Seq(Message) /\ SocketOK(s, k, w)
      /\ k.flag = "CONN" /\ q # <<>>
  BY <1>1 DEF State, Socket, AllOK
<1>4. /\ Tail(q) \in Seq(Message) /\ Len(Tail(q)) = Len(q) - 1
      /\ DOMAIN Tail(q) = 1 .. Len(q) - 1 /\ DOMAIN q = 1 .. Len(q)
      /\ Len(q) \in Nat /\ Len(q) >= 1
      /\ \A i \in 1 .. Len(q) - 1 : Tail(q)[i] = q[i + 1]
      /\ m = q[1] /\ m \in Message
  BY <1>1, <1>3, TailFacts
<1>5. /\ m.len \in Nat /\ k.bytes \in Nat /\ k.stoned \in Nat /\ k.entrys \in Int
      /\ Counted(m) \in Nat /\ Counted(m) <= m.len /\ Limit \in Nat
  <2>1. m.len \in Nat
    BY <1>4 DEF Message
  <2>2. Counted(m) \in Nat /\ Counted(m) <= m.len
    BY <2>1 DEF Counted
  <2>3. k.bytes \in Nat /\ k.stoned \in Nat /\ k.entrys \in Int
    BY <1>3 DEF Socket
  <2> QED
    BY <2>1, <2>2, <2>3, SendQueueAssumption
<1>6. /\ r \in State /\ OnlyAt(st, r, s)
      /\ l.flag = k.flag /\ l.stoned = k.stoned /\ l.serversocket = k.serversocket
      /\ l.sendq = Tail(q) /\ l.entrys = k.entrys - 1
      /\ l.bytes = IF k.serversocket THEN k.bytes + m.len ELSE k.bytes
      /\ m.len = 0 => r.urgent = 1 /\ r.wire[s] = w /\ r.sent[s] = st.sent[s]
      /\ m.len # 0 => r.urgent = 0 /\ r.wire[s] = Append(w, m)
                       /\ r.sent[s] = st.sent[s] + Counted(m)
  BY <1>1, <1>2, <1>3, Zenon DEF Popped
<1>7. PICK t : t = Tail(q)
  OBVIOUS
<1>8. \A i \in DOMAIN t : i + 1 \in DOMAIN q /\ t[i] = q[i + 1] /\ i \in Nat
  BY <1>4, <1>7
<1>9. Distinct(t, w) /\ Fresh(t, w, m.id)
  BY <1>1, <1>3, <1>7, TailDistinct DEF SocketOK
<1>10. Distinct(t, r.wire[s])
  BY <1>3, <1>4, <1>6, <1>7, <1>9, AppendDistinct
<1>11. ASSUME NEW x, Fresh(q, w, x) PROVE Fresh(t, r.wire[s], x)
  <2>1. Fresh(t, w, x) /\ m.id # x
    BY <1>4, <1>8, <1>11 DEF Fresh
  <2>2. Fresh(t, Append(w, m), x)
    <3>1. PICK a : a = Append(w, m)
      OBVIOUS
    <3>2. \A i \in DOMAIN a : (i \in DOMAIN w /\ a[i] = w[i]) \/ a[i] = m
      BY <1>3, <1>4, <3>1, AppendFacts
    <3> QED
      BY <2>1, <3>1, <3>2 DEF Fresh
  <2> QED
    BY <1>6, <2>1, <2>2
<1>12. OriginOK(l)
  BY <1>1, <1>3, <1>6, <1>7, <1>8 DEF SocketOK, OriginOK
<1>13. FloodOK(s, l)
  <2>1. FloodOK(s, k) /\ OriginOK(k)
    BY <1>3 DEF SocketOK
  <2>2. s \in ServerSockets => k.serversocket /\ k.stoned = 0
    BY <1>1, <1>3, <2>1 DEF FloodOK
  <2>3. 1 \in DOMAIN q
    BY <1>4
  <2>4. m.len = 0 \/ m.len \in Lengths
    BY <1>1, <1>4, <2>1, <2>3 DEF OriginOK
  <2>5. Short => 0 < Limit
    <3>1. PICK len \in Lengths : len \in Nat
      BY SendQueueAssumption
    <3> QED
      BY <1>5, <3>1 DEF Short
  <2>6. Short => m.len < Limit
    BY <2>4, <2>5 DEF Short
  <2>7. s \in ServerSockets /\ Short => l.bytes <= Limit
    BY <1>1, <1>5, <1>6, <2>2, <2>6
  <2> QED
    BY <1>5, <1>6, <2>1, <2>2, <2>7 DEF FloodOK
<1>14. AllOK(r)
  BY <1>1, <1>6, <1>7, <1>10, <1>12, <1>13, AllButOne DEF SocketOK
<1>15. Keeps(st, r, T, y)
  <2>1. Ahead(l) = Ahead(k)
    <3>1. Len(l.sendq) = Len(q) - 1 /\ Len(k.sendq) = Len(q)
      BY <1>1, <1>4, <1>6
    <3> QED
      BY <1>4, <1>5, <1>6, <3>1 DEF Ahead
  <2>2. \A x : Fresh(k.sendq, w, x) => Fresh(l.sendq, r.wire[s], x)
    BY <1>1, <1>6, <1>7, <1>11
  <2> QED
    BY <1>1, <1>6, <2>1, <2>2, KeepsOne
<1>16. Paid(st, r)
  <2> SUFFICES ASSUME NEW u \in ServerSockets PROVE PaidAt(st, r, u)
    BY DEF Paid
  <2>1. u \in Sockets
    BY SendQueueAssumption
  <2>2. st.sent[u] \in Nat /\ st.sock[u].bytes \in Nat
    BY <2>1 DEF State, Socket
  <2>3. CASE u = s
    <3>1. k.serversocket
      BY <1>3, <2>3 DEF SocketOK, FloodOK
    <3>2. l.bytes = k.bytes + m.len
      BY <1>6, <3>1
    <3>3. r.sent[s] <= st.sent[s] + Counted(m)
      BY <1>5, <1>6, <2>2, <2>3
    <3>4. r.sent[s] \in Nat
      BY <1>6 DEF State
    <3>5. \A a, b, c, d, e \in Nat : a <= b + c /\ c <= e => a + d <= b + (d + e)
      OBVIOUS
    <3>6. r.sent[s] + k.bytes <= st.sent[s] + (k.bytes + m.len)
      BY <1>5, <2>2, <2>3, <3>3, <3>4, <3>5
    <3> QED
      BY <1>1, <2>3, <3>2, <3>6 DEF PaidAt
  <2>4. CASE u # s
    BY <1>6, <2>1, <2>2, <2>4 DEF OnlyAt, PaidAt
  <2> QED
    BY <2>3, <2>4
<1> QED
  BY <1>6, <1>14, <1>15, <1>16 DEF Added

(* r is st with the socket s replaced by l. *)
Replaced(st, r, s, l) ==
    /\ r \in State /\ OnlyAt(st, r, s) /\ r.sock[s] = l
    /\ r.wire = st.wire /\ r.sent = st.sent /\ r.urgent = st.urgent

With(st, s, l) == [st EXCEPT !.sock = [st.sock EXCEPT ![s] = l]]

LEMMA SetSocket ==
    ASSUME NEW st \in State, NEW s \in Sockets, NEW l \in Socket,
           NEW r, r = With(st, s, l)
    PROVE  Replaced(st, r, s, l)
<1>1. st.sock \in [Sockets -> Socket]
  BY DEF State
<1>2. /\ r.sock = [st.sock EXCEPT ![s] = l]
      /\ r.wire = st.wire /\ r.sent = st.sent /\ r.urgent = st.urgent
  BY DEF State, With
<1>3. r \in State
  BY <1>1 DEF State, With
<1> QED
  BY <1>1, <1>2, <1>3 DEF OnlyAt, Replaced

LEMMA FlushSound ==
    ASSUME NEW st \in State, AllOK(st),
           NEW s \in Sockets, NEW forced \in BOOLEAN, pass.inc \in {0, 1},
           NEW r, r = flushsendq(st, s, forced), NEW T, NEW y
    PROVE  Added(st, r, T, y)
<1>1. PICK k, q, w : k = st.sock[s] /\ q = k.sendq /\ w = st.wire[s]
  OBVIOUS
<1>2. k \in Socket /\ q \in Seq(Message) /\ w \in Seq(Message) /\ SocketOK(s, k, w)
  BY <1>1 DEF State, Socket, AllOK
<1>3. CASE r = st
  BY <1>3, AddedNone
<1>4. ASSUME NEW l \in Socket, r = With(st, s, l),
             Redelayed(q, l.sendq), SocketOK(s, l, w), l.flag = k.flag, l.bytes = k.bytes,
             l.entrys = k.entrys
      PROVE  Added(st, r, T, y)
  <2>1. /\ r \in State /\ OnlyAt(st, r, s) /\ r.sock[s] = l
        /\ r.wire = st.wire /\ r.sent = st.sent /\ r.urgent = st.urgent
    <3>1. Replaced(st, r, s, l)
      BY <1>4, SetSocket, Zenon
    <3> QED
      BY <3>1 DEF Replaced
  <2>2. AllOK(r)
    BY <1>1, <1>4, <2>1, AllButOne
  <2>3. \A x : Fresh(q, w, x) => Fresh(l.sendq, w, x)
    BY <1>4, Zenon DEF Redelayed, Fresh
  <2>4. Ahead(l) = Ahead(k)
    BY <1>1, <1>4 DEF Ahead, Redelayed
  <2>5. Keeps(st, r, T, y)
    BY <1>1, <1>4, <2>1, <2>3, <2>4, KeepsOne
  <2>6. \A u \in Sockets : r.sent[u] = st.sent[u] /\ r.sock[u].bytes = st.sock[u].bytes
    <3> TAKE u \in Sockets
    <3>1. CASE u = s
      BY <1>1, <1>4, <2>1, <3>1
    <3>2. CASE u # s
      BY <2>1, <3>2 DEF OnlyAt
    <3> QED
      BY <3>1, <3>2
  <2>7. Paid(st, r)
    BY <2>6, PaidSame
  <2> QED
    BY <2>1, <2>2, <2>5, <2>7 DEF Added
<1>5. CASE /\ k.flag = "CONN" /\ q # <<>> /\ q[1].delay > 0
           /\ r = [st EXCEPT !.sock[s].sendq[1].delay = @ - pass.inc]
  <2>1. PICK d : d = q[1].delay - pass.inc
    OBVIOUS
  <2>2. d \in Nat
    <3>1. q[1] \in Message
      BY <1>2, <1>5
    <3>2. q[1].delay \in Nat
      BY <3>1 DEF Message
    <3> QED
      BY <1>5, <2>1, <3>2
  <2>3. PICK e : e = [q EXCEPT ![1].delay = d]
    OBVIOUS
  <2>4. Redelayed(q, e)
    BY <1>2, <1>5, <2>2, <2>3, DelayFacts
  <2>5. PICK l : l = [k EXCEPT !.sendq = e]
    OBVIOUS
  <2>6. /\ l \in Socket /\ l.sendq = e /\ l.flag = k.flag /\ l.bytes = k.bytes
        /\ l.entrys = k.entrys /\ l.stoned = k.stoned /\ l.serversocket = k.serversocket
    BY <1>2, <2>4, <2>5 DEF Socket, Redelayed
  <2>7. r = With(st, s, l)
    BY <1>1, <1>2, <1>5, <2>1, <2>3, <2>5 DEF State, Socket, With
  <2>8. SocketOK(s, l, w)
    BY <1>1, <1>2, <2>4, <2>6, RedelayedOK
  <2> QED
    BY <1>4, <2>4, <2>6, <2>7, <2>8
<1>6. CASE /\ k.flag = "CONN" /\ q # <<>>
           /\ k.serversocket /\ k.stoned = 0 /\ k.bytes + Head(q).len > Limit
           /\ r = [st EXCEPT !.sock[s].stoned = StoneTime]
  <2>1. StoneTime \in Nat
    BY SendQueueAssumption
  <2>2. PICK l : l = [k EXCEPT !.stoned = StoneTime]
    OBVIOUS
  <2>3. /\ l \in Socket /\ l.sendq = q /\ l.flag = k.flag /\ l.bytes = k.bytes
        /\ l.entrys = k.entrys /\ l.stoned = StoneTime /\ l.serversocket = k.serversocket
    BY <1>1, <1>2, <2>1, <2>2 DEF Socket
  <2>4. r = With(st, s, l)
    BY <1>1, <1>6, <2>2 DEF State, With
  <2>5. SocketOK(s, l, w)
    BY <1>1, <1>2, <1>6, <2>3 DEF SocketOK, OriginOK, FloodOK
  <2>6. Redelayed(q, l.sendq)
    BY <1>2, <2>3 DEF Redelayed
  <2> QED
    BY <1>4, <2>3, <2>4, <2>5, <2>6
<1>7. CASE /\ k.flag = "CONN" /\ q # <<>>
           /\ k.serversocket =>
                k.stoned = 0 /\ (k.bytes + Head(q).len <= Limit \/ Head(q).len >= Limit)
           /\ r = PopAndWrite(st, s)
  BY <1>1, <1>7, PopSound
<1> QED
  BY <1>1, <1>3, <1>5, <1>6, <1>7, FlushCases

(* What addq() may put into the queue of t: a new message, an ordinary line  *)
(* or an empty line of connect.                                              *)
Addable(st, t, m) ==
    /\ Fresh(st.sock[t].sendq, st.wire[t], m.id)
    /\ IF m.api = "connect" THEN m.len = 0 ELSE m.len \in Lengths

(* The message itself. *)
Put(st, t, m) == [st EXCEPT !.sock[t].sendq = Append(@, m)]

PutOn(st, r, t, y) ==
    /\ OnlyAt(st, r, t)
    /\ r.sock[t].flag = st.sock[t].flag
    /\ Ahead(r.sock[t]) = Ahead(st.sock[t]) - 1
    /\ \A x : Fresh(st.sock[t].sendq, st.wire[t], x) /\ x # y
              => Fresh(r.sock[t].sendq, r.wire[t], x)

LEMMA AppendSound ==
    ASSUME NEW st \in State, AllOK(st),
           NEW t \in Sockets, NEW m \in Message, Addable(st, t, m),
           NEW r, r = Put(st, t, m)
    PROVE  r \in State /\ AllOK(r) /\ Paid(st, r) /\ PutOn(st, r, t, m.id)
<1>1. PICK k, q, w, a : k = st.sock[t] /\ q = k.sendq /\ w = st.wire[t] /\ a = Append(q, m)
  OBVIOUS
<1>2. k \in Socket /\ q \in Seq(Message) /\ w \in Seq(Message) /\ SocketOK(t, k, w)
  BY <1>1 DEF State, Socket, AllOK
<1>3. /\ a \in Seq(Message) /\ Len(a) = Len(q) + 1
      /\ DOMAIN a = 1 .. Len(q) + 1 /\ DOMAIN q = 1 .. Len(q) /\ Len(q) \in Nat
      /\ \A i \in 1 .. Len(q) : a[i] = q[i]
      /\ a[Len(q) + 1] = m
      /\ a # <<>>
      /\ q # <<>> => Head(a) = Head(q)
  <2>1. /\ Append(q, m) \in Seq(Message) /\ Len(Append(q, m)) = Len(q) + 1
        /\ DOMAIN Append(q, m) = 1 .. Len(q) + 1 /\ DOMAIN q = 1 .. Len(q) /\ Len(q) \in Nat
        /\ \A i \in 1 .. Len(q) : Append(q, m)[i] = q[i]
        /\ Append(q, m)[Len(q) + 1] = m
        /\ Append(q, m) # <<>>
        /\ q # <<>> => Head(Append(q, m)) = Head(q)
    BY <1>2, AppendFacts
  <2> QED
    BY <1>1, <2>1, Zenon
<1>4. \A i \in DOMAIN a : (i \in DOMAIN q /\ a[i] = q[i]) \/ (i = Len(q) + 1 /\ a[i] = m)
  BY <1>3
<1>5. PICK l : l = [k EXCEPT !.sendq = a]
  OBVIOUS
<1>6. /\ l \in Socket /\ l.sendq = a /\ l.flag = k.flag /\ l.bytes = k.bytes
      /\ l.entrys = k.entrys /\ l.stoned = k.stoned /\ l.serversocket = k.serversocket
  BY <1>2, <1>3, <1>5 DEF Socket
<1>7. r = With(st, t, l)
  BY <1>1, <1>2, <1>5 DEF State, Socket, With, Put
<1>8. /\ r \in State /\ OnlyAt(st, r, t) /\ r.sock[t] = l
      /\ r.wire = st.wire /\ r.sent = st.sent /\ r.urgent = st.urgent
  <2>1. Replaced(st, r, t, l)
    BY <1>6, <1>7, SetSocket, Zenon
  <2> QED
    BY <2>1 DEF Replaced
<1>9. Fresh(q, w, m.id) /\ IF m.api = "connect" THEN m.len = 0 ELSE m.len \in Lengths
  BY <1>1 DEF Addable
<1>10. Distinct(a, w)
  BY <1>1, <1>2, <1>9, AppendDistinct DEF SocketOK
<1>11. OriginOK(l)
  BY <1>1, <1>2, <1>4, <1>6, <1>9 DEF SocketOK, OriginOK
<1>12. FloodOK(t, l)
  BY <1>1, <1>2, <1>3, <1>6 DEF SocketOK, FloodOK
<1>13. AllOK(r)
  <2>1. SocketOK(t, l, w)
    BY <1>6, <1>10, <1>11, <1>12 DEF SocketOK
  <2> QED
    BY <1>1, <1>8, <2>1, AllButOne
<1>14. \A u \in Sockets : r.sent[u] = st.sent[u] /\ r.sock[u].bytes = st.sock[u].bytes
  <2> TAKE u \in Sockets
  <2>1. CASE u = t
    BY <1>1, <1>6, <1>8, <2>1
  <2>2. CASE u # t
    BY <1>8, <2>2 DEF OnlyAt
  <2> QED
    BY <2>1, <2>2
<1>15. Paid(st, r)
  BY <1>14, PaidSame
<1>16. Ahead(l) = Ahead(k) - 1
  <2>1. Len(l.sendq) = Len(q) + 1 /\ k.entrys \in Int
    BY <1>2, <1>3, <1>6 DEF Socket
  <2>2. /\ Ahead(k) = k.entrys - Len(q)
        /\ Ahead(l) = k.entrys - Len(l.sendq)
    BY <1>1, <1>6, Zenon DEF Ahead
  <2> QED
    BY <1>3, <2>1, <2>2
<1>17. \A x : Fresh(q, w, x) /\ x # m.id => Fresh(a, w, x)
  BY <1>4 DEF Fresh
<1> QED
  BY <1>1, <1>6, <1>8, <1>13, <1>15, <1>16, <1>17, Zenon DEF PutOn

LEMMA EnqueueSound ==
    ASSUME NEW st \in State, AllOK(st),
           NEW s \in Sockets, NEW t \in Sockets, NEW m \in Message, pass.inc \in {0, 1},
           Addable(st, t, m), NEW r, r = Enqueue(st, s, t, m)
    PROVE  Added(st, r, {t}, m.id)
<1>1. PICK k, l : k = st.sock[t] /\ l = [k EXCEPT !.entrys = @ + 1]
  OBVIOUS
<1>2. k \in Socket /\ k.sendq \in Seq(Message) /\ SocketOK(t, k, st.wire[t])
  BY <1>1 DEF State, Socket, AllOK
<1>3. /\ l \in Socket /\ l.sendq = k.sendq /\ l.flag = k.flag /\ l.bytes = k.bytes
      /\ l.entrys = k.entrys + 1 /\ l.stoned = k.stoned /\ l.serversocket = k.serversocket
  BY <1>1, <1>2 DEF Socket
<1>4. PICK a : a = [st EXCEPT !.sock[t].entrys = @ + 1]
  OBVIOUS
<1>5. a = With(st, t, l)
  BY <1>1, <1>4 DEF State, With
<1>6. /\ a \in State /\ OnlyAt(st, a, t) /\ a.sock[t] = l
      /\ a.wire = st.wire /\ a.sent = st.sent /\ a.urgent = st.urgent
  <2>1. Replaced(st, a, t, l)
    BY <1>3, <1>5, SetSocket, Zenon
  <2> QED
    BY <2>1 DEF Replaced
<1>7. AllOK(a)
  <2>1. SocketOK(t, l, st.wire[t])
    BY <1>2, <1>3 DEF SocketOK, OriginOK, FloodOK
  <2> QED
    BY <1>6, <2>1, AllButOne
<1>8. Paid(st, a)
  <2>1. \A u \in Sockets : a.sent[u] = st.sent[u] /\ a.sock[u].bytes = st.sock[u].bytes
    <3> TAKE u \in Sockets
    <3>1. CASE u = t
      BY <1>1, <1>3, <1>6, <3>1
    <3>2. CASE u # t
      BY <1>6, <3>2 DEF OnlyAt
    <3> QED
      BY <3>1, <3>2
  <2> QED
    BY <2>1, PaidSame
<1>9. Ahead(l) = Ahead(k) + 1 /\ Ahead(k) \in Int
  <2>1. k.entrys \in Int /\ Len(k.sendq) \in Nat
    BY <1>2 DEF Socket
  <2> QED
    BY <1>3, <2>1 DEF Ahead
<1>10. PICK b : b = IF a.sock[t].entrys > MaxSendQ /\ a.sock[t].stoned = 0
                    THEN flushsendq(a, s, TRUE) ELSE a
  OBVIOUS
<1>11. r = Put(b, t, m)
  BY <1>4, <1>10 DEF Enqueue, Put
<1>12. Added(a, b, {}, m.id)
  <2>1. CASE b = a
    BY <1>6, <1>7, <2>1, AddedNone
  <2>2. CASE b = flushsendq(a, s, TRUE)
    BY <1>6, <1>7, <2>2, FlushSound
  <2> QED
    BY <1>10, <2>1, <2>2
<1>13. \A u \in Sockets : /\ b.sock[u].flag = st.sock[u].flag
                          /\ \A x : Fresh(st.sock[u].sendq, st.wire[u], x)
                                     => Fresh(b.sock[u].sendq, b.wire[u], x)
                          /\ u # t => Ahead(b.sock[u]) = Ahead(st.sock[u])
                          /\ u = t => Ahead(b.sock[u]) = Ahead(st.sock[u]) + 1
  <2> TAKE u \in Sockets
  <2>1. /\ a.sock[u].flag = st.sock[u].flag /\ a.sock[u].sendq = st.sock[u].sendq
        /\ u # t => Ahead(a.sock[u]) = Ahead(st.sock[u])
        /\ u = t => Ahead(a.sock[u]) = Ahead(st.sock[u]) + 1
    <3>1. CASE u = t
      BY <1>1, <1>3, <1>6, <1>9, <3>1
    <3>2. CASE u # t
      BY <1>6, <3>2 DEF OnlyAt
    <3> QED
      BY <3>1, <3>2
  <2>2. /\ b.sock[u].flag = a.sock[u].flag
        /\ Ahead(b.sock[u]) = Ahead(a.sock[u])
        /\ \A x : Fresh(a.sock[u].sendq, a.wire[u], x) => Fresh(b.sock[u].sendq, b.wire[u], x)
    BY <1>12, Zenon DEF Added, Keeps
  <2> QED
    BY <1>6, <2>1, <2>2, Zenon
<1>14. Addable(b, t, m)
  BY <1>13 DEF Addable
<1>15. b \in State /\ AllOK(b) /\ Paid(a, b)
  BY <1>12 DEF Added
<1>16. r \in State /\ AllOK(r) /\ Paid(b, r) /\ PutOn(b, r, t, m.id)
  BY <1>11, <1>14, <1>15, AppendSound, Zenon
<1>17. Keeps(st, r, {t}, m.id)
  <2> SUFFICES ASSUME NEW u \in Sockets
               PROVE  /\ r.sock[u].flag = st.sock[u].flag
                      /\ Ahead(r.sock[u]) = Ahead(st.sock[u])
                      /\ \A x : Fresh(st.sock[u].sendq, st.wire[u], x) /\ ~(u \in {t} /\ x = m.id)
                                => Fresh(r.sock[u].sendq, r.wire[u], x)
    BY Zenon DEF Keeps
  <2>1. CASE u = t
    <3>1. Ahead(r.sock[t]) = Ahead(st.sock[t])
      BY <1>1, <1>9, <1>13, <1>16 DEF PutOn
    <3> QED
      BY <1>13, <1>16, <2>1, <3>1, Zenon DEF PutOn
  <2>2. CASE u # t
    BY <1>13, <1>16, <2>2, Zenon DEF OnlyAt, PutOn
  <2> QED
    BY <2>1, <2>2
<1>18. Paid(st, r)
  BY <1>6, <1>8, <1>15, <1>16, PaidTransitive
<1> QED
  BY <1>16, <1>17, <1>18, Zenon DEF Added

(* addq() goes through the list of sockets. *)
LEMMA AddqFunction ==
    ASSUME NEW st, NEW s, NEW m, GroupOf[s] # 0
    PROVE  \E h : /\ h[0] = st
                  /\ \A i \in 1 .. Len(GroupOrder) :
                       h[i] = IF GroupOf[GroupOrder[i]] = GroupOf[s]
                                 /\ st.sock[GroupOrder[i]].flag # "DEAD"
                              THEN Enqueue(h[i - 1], s, GroupOrder[i], m) ELSE h[i - 1]
                  /\ addq(st, s, m) = h[Len(GroupOrder)]
<1> DEFINE Member(t) == InGroup(st, s, t)
           Body(h, i) == IF i = 0 THEN st
                         ELSE IF Member(GroupOrder[i]) THEN Enqueue(h[i - 1], s, GroupOrder[i], m)
                         ELSE h[i - 1]
           Solves(h, n) == h = [i \in 0 .. n |-> Body(h, i)]
           T == {n \in Nat : \E h : Solves(h, n)}
<1>0. Len(GroupOrder) \in Nat
  BY SendQueueAssumption
<1>1. 0 \in T
  <2> DEFINE g == [i \in 0 .. 0 |-> st]
  <2>1. Solves(g, 0)
    OBVIOUS
  <2> QED
    BY <2>1
<1>2. ASSUME NEW n \in Nat, n \in T PROVE n + 1 \in T
  <2>0. PICK h : Solves(h, n)
    BY <1>2
  <2>1. \A i \in 0 .. n : h[i] = Body(h, i)
    BY <2>0, Zenon
  <2> DEFINE g == [i \in 0 .. n + 1 |-> IF i <= n THEN h[i] ELSE Body(h, n + 1)]
  <2>2. ASSUME NEW i \in 0 .. n + 1 PROVE g[i] = Body(g, i)
    <3> HIDE DEF Member
    <3>1. CASE i = 0
      BY <2>1, <3>1
    <3>2. CASE i \in 1 .. n
      <4>1. g[i] = h[i] /\ g[i - 1] = h[i - 1] /\ h[i] = Body(h, i)
        <5>1. i <= n /\ i - 1 <= n /\ i - 1 \in 0 .. n + 1 /\ i \in 0 .. n
          BY <3>2
        <5> HIDE DEF Body
        <5> QED
          BY <2>1, <5>1
      <4> HIDE DEF g
      <4> QED
        BY <3>2, <4>1
    <3>3. CASE i = n + 1
      <4>1. g[i] = Body(h, i) /\ g[i - 1] = h[i - 1]
        <5>1. ~(i <= n) /\ i - 1 <= n /\ i - 1 \in 0 .. n + 1
          BY <3>3
        <5> HIDE DEF Body
        <5> QED
          BY <3>3, <5>1
      <4> HIDE DEF g
      <4> QED
        BY <3>3, <4>1
    <3> QED
      BY <3>1, <3>2, <3>3
  <2>3. Solves(g, n + 1)
    <3> HIDE DEF Body
    <3> QED
      BY <2>2
  <2> HIDE DEF g, Solves
  <2> QED
    BY <2>3
<1>3. Len(GroupOrder) \in T
  <2> HIDE DEF T
  <2>1. \A n \in Nat : n \in T
    BY <1>1, <1>2, NatSetInduction
  <2> QED
    BY <1>0, <2>1
<1>4. PICK h : h = CHOOSE g : Solves(g, Len(GroupOrder))
  OBVIOUS
<1>5. Solves(h, Len(GroupOrder))
  <2> HIDE DEF Solves
  <2> QED
    BY <1>3, <1>4
<1>6. addq(st, s, m) = h[Len(GroupOrder)]
  BY <1>4, Zenon DEF addq
<1>7. \A i \in 0 .. Len(GroupOrder) : h[i] = Body(h, i)
  BY <1>5, Zenon
<1> QED
  BY <1>0, <1>6, <1>7 DEF InGroup

LEMMA AddqSound ==
    ASSUME NEW st \in State, AllOK(st),
           NEW s \in Sockets, NEW m \in Message, pass.inc \in {0, 1},
           IF m.api = "connect" THEN m.len = 0 ELSE m.len \in Lengths,
           \A t \in Sockets : Fresh(st.sock[t].sendq, st.wire[t], m.id),
           NEW r, r = addq(st, s, m)
    PROVE  Added(st, r, Sockets, m.id)
<1>1. CASE GroupOf[s] = 0
  <2>1. r = Enqueue(st, s, s, m)
    BY <1>1, Zenon DEF addq
  <2>2. Added(st, r, {s}, m.id)
    <3>1. Addable(st, s, m)
      BY DEF Addable
    <3> QED
      BY <2>1, <3>1, EnqueueSound
  <2> QED
    BY <2>2, Zenon DEF Added, Keeps
<1>2. CASE GroupOf[s] # 0
  <2>2. PICK h : /\ h[0] = st
                 /\ \A i \in 1 .. Len(GroupOrder) :
                      h[i] = IF GroupOf[GroupOrder[i]] = GroupOf[s]
                                /\ st.sock[GroupOrder[i]].flag # "DEAD"
                             THEN Enqueue(h[i - 1], s, GroupOrder[i], m) ELSE h[i - 1]
                 /\ r = h[Len(GroupOrder)]
    BY <1>2, AddqFunction
  <2>3. /\ Len(GroupOrder) \in Nat /\ DOMAIN GroupOrder = 1 .. Len(GroupOrder)
        /\ \A i \in 1 .. Len(GroupOrder) : GroupOrder[i] \in Sockets
        /\ \A i, j \in 1 .. Len(GroupOrder) : GroupOrder[i] = GroupOrder[j] => i = j
    <3>1. GroupOrder \in Seq(Sockets) /\ IsInjective(GroupOrder)
      BY SendQueueAssumption
    <3> QED
      BY <3>1 DEF IsInjective
  <2> DEFINE Reached(i) == {GroupOrder[j] : j \in 1 .. i}
             T == {i \in Nat : i <= Len(GroupOrder) => Added(st, h[i], Reached(i), m.id)}
  <2>4. 0 \in T
    <3>1. Added(st, st, Reached(0), m.id)
      <4> HIDE DEF Reached
      <4> QED
        BY AddedNone
    <3> QED
      BY <2>2, <3>1
  <2>5. ASSUME NEW i \in Nat, i \in T PROVE i + 1 \in T
    <3> SUFFICES ASSUME i + 1 <= Len(GroupOrder)
                 PROVE  Added(st, h[i + 1], Reached(i + 1), m.id)
      BY DEF T
    <3>1. i + 1 \in 1 .. Len(GroupOrder) /\ (i + 1) - 1 = i /\ i <= Len(GroupOrder)
      BY <2>3
    <3>2. PICK t, a, b : t = GroupOrder[i + 1] /\ a = h[i] /\ b = h[i + 1]
      OBVIOUS
    <3>3. t \in Sockets /\ Added(st, a, Reached(i), m.id)
      BY <2>3, <2>5, <3>1, <3>2
    <3>4. t \notin Reached(i)
      BY <2>3, <3>1, <3>2
    <3>5. Reached(i + 1) = Reached(i) \cup {t}
      BY <2>3, <3>1, <3>2
    <3> HIDE DEF Reached
    <3>6. b = Enqueue(a, s, t, m) \/ b = a
      BY <2>2, <3>1, <3>2
    <3>7. CASE b = a
      <4>1. Keeps(st, b, Reached(i + 1), m.id)
        BY <3>3, <3>5, <3>7, Zenon DEF Added, Keeps
      <4> QED
        BY <3>2, <3>3, <3>7, <4>1, Zenon DEF Added
    <3>8. CASE b = Enqueue(a, s, t, m)
      <4>2. Fresh(a.sock[t].sendq, a.wire[t], m.id)
        BY <3>3, <3>4, Zenon DEF Added, Keeps
      <4>3. Addable(a, t, m)
        BY <4>2 DEF Addable
      <4>4. Added(a, b, {t}, m.id)
        BY <3>3, <3>8, <4>3, EnqueueSound DEF Added
      <4>5. Keeps(st, b, Reached(i + 1), m.id)
        <5>1. Keeps(st, a, Reached(i), m.id) /\ Keeps(a, b, {t}, m.id)
          BY <3>3, <4>4 DEF Added
        <5>2. Keeps(st, b, Reached(i) \cup {t}, m.id)
          BY <5>1, KeepsTransitive
        <5> QED
          BY <3>5, <5>2, Zenon
      <4>6. Paid(st, b)
        <5>1. a \in State /\ b \in State /\ Paid(st, a) /\ Paid(a, b)
          BY <3>3, <4>4 DEF Added
        <5> QED
          BY <5>1, PaidTransitive
      <4> QED
        BY <3>2, <4>4, <4>5, <4>6, Zenon DEF Added
    <3> QED
      BY <3>6, <3>7, <3>8
  <2>6. Added(st, r, Reached(Len(GroupOrder)), m.id)
    <3>1. \A i \in Nat : i \in T
      <4> HIDE DEF T
      <4> QED
        BY <2>4, <2>5, NatSetInduction
    <3> HIDE DEF Reached
    <3>2. Added(st, h[Len(GroupOrder)], Reached(Len(GroupOrder)), m.id)
      BY <2>3, <3>1
    <3> QED
      BY <2>2, <3>2, Zenon
  <2> HIDE DEF Reached
  <2> QED
    BY <2>6, Zenon DEF Added, Keeps
<1> QED
  BY <1>1, <1>2

(* r is st with the message y, which is counted or goes past the flood       *)
(* protection in exchange for `urgent`.                                      *)
Settled(st, r, y) ==
    /\ r \in State /\ AllOK(r)
    /\ Keeps(st, r, Sockets, y)
    /\ Ordinary => Paid(st, r) \/ Bypassed(st, r)

(* A line that goes past the queue. *)
LEMMA DirectWrite ==
    ASSUME NEW st \in State, AllOK(st),
           NEW s \in Sockets, NEW m \in Message, m.len \in Lengths, st.urgent = 1,
           Fresh(st.sock[s].sendq, st.wire[s], m.id),
           NEW r, r = WriteNow(st, s, m)
    PROVE  /\ Settled(st, r, m.id)
           /\ m.api = "URGENT" => Paid(st, r)
<1>1. Wrote(st, r, s, m)
  BY WriteNowFacts, Zenon
<1>2. PICK q, w : q = st.sock[s].sendq /\ w = st.wire[s]
  OBVIOUS
<1>3. q \in Seq(Message) /\ w \in Seq(Message) /\ SocketOK(s, st.sock[s], w)
  BY <1>2 DEF State, Socket, AllOK
<1>4. r \in State /\ r.sock = st.sock /\ OnlyAt(st, r, s)
  BY <1>1 DEF Wrote
<1>5. m.len \in Nat /\ Counted(m) \in Nat /\ Counted(m) <= m.len
  BY DEF Message, Counted
<1>6. r.wire[s] = w \/ r.wire[s] = Append(w, m)
  BY <1>1, <1>2 DEF Wrote
<1>7. Distinct(q, r.wire[s])
  BY <1>2, <1>3, <1>6, AppendDistinct DEF SocketOK
<1>8. AllOK(r)
  <2>1. SocketOK(s, r.sock[s], r.wire[s])
    BY <1>2, <1>3, <1>4, <1>7 DEF SocketOK
  <2> QED
    BY <1>4, <2>1, AllButOne
<1>9. \A x : Fresh(q, w, x) /\ x # m.id => Fresh(q, r.wire[s], x)
  <2>1. PICK a : a = Append(w, m)
    OBVIOUS
  <2>2. \A i \in DOMAIN a : (i \in DOMAIN w /\ a[i] = w[i]) \/ a[i] = m
    BY <1>3, <2>1, AppendFacts
  <2>3. \A x : Fresh(q, w, x) /\ x # m.id => Fresh(q, a, x)
    BY <2>2 DEF Fresh
  <2> QED
    BY <1>6, <2>1, <2>3
<1>10. Keeps(st, r, Sockets, m.id)
  BY <1>2, <1>4, <1>9, KeepsOne
<1>11. ASSUME NEW u \in ServerSockets
       PROVE  /\ st.sent[u] \in Nat /\ r.sent[u] \in Nat /\ st.sock[u].bytes \in Nat
              /\ r.sock[u].bytes = st.sock[u].bytes
              /\ r.sent[u] <= st.sent[u] + Counted(m)
  <2>1. u \in Sockets
    BY SendQueueAssumption
  <2>2. st.sent[u] \in Nat /\ r.sent[u] \in Nat /\ st.sock[u].bytes \in Nat
    BY <1>4, <2>1 DEF State, Socket
  <2>3. r.sent[u] = st.sent[u] \/ r.sent[u] = st.sent[u] + Counted(m)
    <3>1. CASE u = s
      BY <1>1, <3>1 DEF Wrote
    <3>2. CASE u # s
      BY <1>4, <2>1, <3>2 DEF OnlyAt
    <3> QED
      BY <3>1, <3>2
  <2> QED
    BY <1>4, <1>5, <2>2, <2>3
<1>12. ASSUME m.api = "URGENT" PROVE Paid(st, r)
  <2> SUFFICES ASSUME NEW u \in ServerSockets PROVE PaidAt(st, r, u)
    BY DEF Paid
  <2>1. Counted(m) = 0
    BY <1>12 DEF Counted
  <2> QED
    BY <1>11, <2>1 DEF PaidAt
<1>13. ASSUME Ordinary PROVE Bypassed(st, r)
  <2> SUFFICES ASSUME NEW u \in ServerSockets PROVE BypassedAt(st, r, u)
    BY DEF Bypassed
  <2>1. r.urgent = 0
    <3>1. m.len # 0
      BY <1>13 DEF Ordinary
    <3> QED
      BY <1>1, <3>1 DEF Wrote
  <2>2. PICK M : M = Max(Lengths)
    OBVIOUS
  <2>3. M \in Nat /\ Counted(m) <= M
    BY <1>5, <1>13, <2>2, MaxLength
  <2>4. \A a, b, c, d \in Nat : a <= b + c /\ c <= M => a + d <= b + d + M
    BY <2>3
  <2>5. r.sent[u] + st.sock[u].bytes <= st.sent[u] + st.sock[u].bytes + M
    BY <1>5, <1>11, <2>3, <2>4
  <2> QED
    BY <1>11, <2>1, <2>2, <2>5 DEF BypassedAt
<1> QED
  BY <1>4, <1>8, <1>10, <1>12, <1>13 DEF Settled

(* writesock() and writesock_URGENT(): `seen` is the state in which the test *)
(* of `urgent` is made.                                                      *)
LEMMA WriteSound ==
    ASSUME NEW st \in State, AllOK(st),
           NEW s \in Sockets, NEW m \in Message, m.len \in Lengths, pass.inc \in {0, 1},
           \A t \in Sockets : Fresh(st.sock[t].sendq, st.wire[t], m.id),
           NEW seen \in State, seen.sock = st.sock, seen.wire = st.wire, seen.sent = st.sent,
           m.api = "URGENT" \/ (m.api = "writesock" /\ seen.urgent <= st.urgent),
           NEW r, r = IF seen.urgent = 0 THEN addq(seen, s, m) ELSE WriteNow(seen, s, m)
    PROVE  Settled(st, r, m.id)
<1>1. AllOK(seen)
  BY DEF AllOK
<1>2. CASE seen.urgent = 0
  <2>1. IF m.api = "connect" THEN m.len = 0 ELSE m.len \in Lengths
    OBVIOUS
  <2>2. Added(seen, r, Sockets, m.id)
    BY <1>1, <1>2, <2>1, AddqSound
  <2>3. Paid(st, r)
    BY <2>2, Zenon DEF Added, Paid, PaidAt
  <2>4. Keeps(st, r, Sockets, m.id)
    BY <2>2, Zenon DEF Added, Keeps
  <2> QED
    BY <2>2, <2>3, <2>4 DEF Added, Settled
<1>3. CASE seen.urgent # 0
  <2>1. seen.urgent = 1 /\ st.urgent \in {0, 1}
    BY <1>3 DEF State
  <2>2. Settled(seen, r, m.id) /\ (m.api = "URGENT" => Paid(seen, r))
    BY <1>1, <1>3, <2>1, DirectWrite
  <2>3. Keeps(st, r, Sockets, m.id)
    BY <2>2, Zenon DEF Settled, Keeps
  <2>4. ASSUME m.api = "URGENT" PROVE Paid(st, r)
    BY <2>2, <2>4, Zenon DEF Paid, PaidAt
  <2>5. ASSUME m.api # "URGENT", Ordinary PROVE Paid(st, r) \/ Bypassed(st, r)
    <3>1. st.urgent = 1
      BY <2>1, <2>5
    <3>2. CASE Paid(seen, r)
      BY <3>2, Zenon DEF Paid, PaidAt
    <3>3. CASE Bypassed(seen, r)
      BY <3>1, <3>3, Zenon DEF Bypassed, BypassedAt
    <3> QED
      BY <2>2, <2>5, <3>2, <3>3 DEF Settled
  <2> QED
    BY <2>2, <2>3, <2>4, <2>5 DEF Settled
<1> QED
  BY <1>2, <1>3

-----------------------------------------------------------------------------
(* The actions keep the invariant *)

PassOK == pass \in [inc : {0, 1}, wfds : SUBSET Sockets]

(* The next state of what the write functions change is r. *)
Reaches(r) == sock' = r.sock /\ urgent' = r.urgent /\ wire' = r.wire /\ sent' = r.sent

LEMMA ReachesInv ==
    ASSUME NEW r \in State, AllOK(r),
           \A u \in Sockets : Ahead(r.sock[u]) = 0, Older(r, nextid'), nextid' \in Nat,
           PassOK', Reaches(r), leaks' \in [ServerSockets -> Nat], Owed'
    PROVE  SendQueueInv'
<1>1. sock' = r.sock /\ urgent' = r.urgent /\ wire' = r.wire /\ sent' = r.sent
  BY DEF Reaches
<1>2. PICK c : c = Current'
  OBVIOUS
<1>3. c.sock = r.sock /\ c.urgent = r.urgent /\ c.wire = r.wire /\ c.sent = r.sent
  BY <1>1, <1>2 DEF Current
<1>4. TypeOK' /\ c \in State
  BY <1>1, <1>2 DEF TypeOK, State, PassOK, Current
<1>5. EntrysExact'
  <2> SUFFICES ASSUME NEW u \in Sockets PROVE sock'[u].entrys = Len(sock'[u].sendq)
    BY DEF EntrysExact
  <2>1. r.sock[u] \in Socket
    BY DEF State
  <2>2. r.sock[u].entrys \in Int /\ Len(r.sock[u].sendq) \in Nat
    BY <2>1 DEF Socket
  <2> QED
    BY <1>1, <2>2 DEF Ahead
<1>6. AllOK(c) /\ Older(c, nextid')
  BY <1>3, Zenon DEF AllOK, Older
<1> QED
  BY <1>2, <1>4, <1>5, <1>6 DEF SendQueueInv, Sound

(* What is owed in numbers: M is the longest line, l the leaks and v, v2 the *)
(* flag `urgent` before and after a step, a the bytes sent and b those that  *)
(* are counted.                                                              *)
LEMMA OwedNumbers ==
    ASSUME NEW M \in Nat, NEW l \in Nat, NEW v \in {0, 1}, NEW v2 \in {0, 1},
           NEW a \in Nat, NEW b \in Nat, NEW a2 \in Nat, NEW b2 \in Nat,
           v <= l, a <= b + M * (l - v),
           a2 + b <= a + b2 \/ (v = 1 /\ v2 = 0 /\ a2 + b <= a + b2 + M),
           NEW l2, l2 = l + (IF v2 > v THEN 1 ELSE 0)
    PROVE  a2 <= b2 + M * (l2 - v2)
<1>1. PICK d : d = l - v
  OBVIOUS
<1>2. PICK x : x = M * d
  OBVIOUS
<1>3. d \in Nat /\ x \in Nat /\ a <= b + x
  <2>1. d \in Nat
    BY <1>1
  <2>2. M * d \in Nat
    BY <2>1
  <2> QED
    BY <1>1, <1>2, <2>1, <2>2
<1>4. CASE v = 1 /\ v2 = 0
  <2>1. l2 - v2 = d + 1
    BY <1>1, <1>4
  <2>2. M * (d + 1) = x + M
    BY <1>2, <1>3
  <2>3. a2 + b <= a + b2 + M
    BY <1>4
  <2>4. a2 <= b2 + (x + M)
    BY <1>3, <2>3
  <2> QED
    BY <2>1, <2>2, <2>4
<1>5. CASE ~ (v = 1 /\ v2 = 0)
  <2>1. l2 - v2 = d
    BY <1>1, <1>5
  <2>2. a2 + b <= a + b2
    BY <1>5
  <2>3. a2 <= b2 + x
    BY <1>3, <2>2
  <2> QED
    BY <1>2, <2>1, <2>3
<1> QED
  BY <1>4, <1>5

(* A step that counts the leak it makes, if it makes one. *)
LEMMA OwedStep ==
    ASSUME SendQueueInv, NEW r \in State, Reaches(r), CountLeak,
           Ordinary => \A u \in ServerSockets :
             r.sock[u].flag # "DEAD" =>
               /\ sock[u].flag # "DEAD"
               /\ PaidAt(Current, r, u) \/ BypassedAt(Current, r, u)
    PROVE  leaks' \in [ServerSockets -> Nat] /\ Owed'
<1>1. TypeOK /\ Owed /\ leaks \in [ServerSockets -> Nat] /\ urgent \in {0, 1}
  BY DEF SendQueueInv, TypeOK
<1>2. /\ sock' = r.sock /\ urgent' = r.urgent /\ sent' = r.sent /\ urgent' \in {0, 1}
  BY DEF Reaches, State
<1>3. leaks' = [u \in ServerSockets |-> leaks[u] + (IF urgent' > urgent THEN 1 ELSE 0)]
  BY DEF CountLeak
<1>4. leaks' \in [ServerSockets -> Nat]
  BY <1>1, <1>3
<1>5. ASSUME Ordinary, NEW u \in ServerSockets PROVE OwedAt(u)'
  <2>1. PICK M, l, l2 : M = Max(Lengths) /\ l = leaks[u] /\ l2 = leaks'[u]
    OBVIOUS
  <2>2. M \in Nat /\ l \in Nat /\ urgent <= l /\ l2 = l + (IF urgent' > urgent THEN 1 ELSE 0)
    BY <1>1, <1>3, <1>5, <2>1, MaxLength DEF Owed, OwedAt
  <2>3. urgent' <= l2
    BY <1>1, <1>2, <2>2
  <2>4. ASSUME sock'[u].flag # "DEAD"
        PROVE  sent'[u] <= sock'[u].bytes + M * (l2 - urgent')
    <3>1. /\ sock[u].flag # "DEAD"
          /\ PaidAt(Current, r, u) \/ BypassedAt(Current, r, u)
      BY <1>2, <1>5, <2>4
    <3>2. PICK a, b, a2, b2 : /\ a = sent[u] /\ b = sock[u].bytes
                              /\ a2 = sent'[u] /\ b2 = sock'[u].bytes
      OBVIOUS
    <3>3. u \in Sockets
      BY SendQueueAssumption
    <3>4. a \in Nat /\ b \in Nat /\ a2 \in Nat /\ b2 \in Nat
      BY <1>1, <1>2, <3>2, <3>3 DEF TypeOK, State, Socket
    <3>5. a <= b + M * (l - urgent)
      BY <1>1, <1>5, <2>1, <3>1, <3>2 DEF Owed, OwedAt
    <3>6. \/ a2 + b <= a + b2
          \/ urgent = 1 /\ urgent' = 0 /\ a2 + b <= a + b2 + M
      <4>1. /\ Current.sent[u] = a /\ Current.sock[u].bytes = b /\ Current.urgent = urgent
            /\ r.sent[u] = a2 /\ r.sock[u].bytes = b2 /\ r.urgent = urgent'
        BY <1>2, <3>2 DEF Current
      <4>2. CASE PaidAt(Current, r, u)
        BY <4>1, <4>2, Zenon DEF PaidAt
      <4>3. CASE BypassedAt(Current, r, u)
        BY <2>1, <4>1, <4>3, Zenon DEF BypassedAt
      <4> QED
        BY <3>1, <4>2, <4>3
    <3>7. a2 <= b2 + M * (l2 - urgent')
      BY <1>1, <1>2, <2>2, <3>4, <3>5, <3>6, OwedNumbers
    <3> QED
      BY <3>2, <3>7
  <2> QED
    BY <2>1, <2>3, <2>4 DEF OwedAt
<1> QED
  BY <1>4, <1>5 DEF Owed

(* A step after which what counts of the servers S starts again. *)
LEMMA OwedRestart ==
    ASSUME SendQueueInv, NEW r \in State, Reaches(r), r.urgent = urgent,
           NEW S, Restart(S),
           \A u \in ServerSockets :
             IF u \in S THEN r.sent[u] = 0
             ELSE /\ r.sent[u] = sent[u] /\ r.sock[u].bytes = sock[u].bytes
                  /\ r.sock[u].flag # "DEAD" => sock[u].flag # "DEAD"
    PROVE  leaks' \in [ServerSockets -> Nat] /\ Owed'
<1>1. TypeOK /\ Owed /\ leaks \in [ServerSockets -> Nat] /\ urgent \in {0, 1}
  BY DEF SendQueueInv, TypeOK
<1>2. sock' = r.sock /\ urgent' = urgent /\ sent' = r.sent
  BY DEF Reaches
<1>3. leaks' = [u \in ServerSockets |-> IF u \in S THEN urgent ELSE leaks[u]]
  BY DEF Restart
<1>4. leaks' \in [ServerSockets -> Nat]
  BY <1>1, <1>3
<1>5. ASSUME Ordinary, NEW u \in ServerSockets PROVE OwedAt(u)'
  <2>1. u \in Sockets
    BY SendQueueAssumption
  <2>2. PICK M : M = Max(Lengths)
    OBVIOUS
  <2>3. M \in Nat
    BY <1>5, <2>2, MaxLength
  <2>4. CASE u \in S
    <3>1. leaks'[u] = urgent /\ sent'[u] = 0
      BY <1>2, <1>3, <2>4
    <3>2. sock'[u].bytes \in Nat
      BY <1>2, <2>1 DEF State, Socket
    <3>3. M * (urgent - urgent) = 0
      BY <1>1, <2>3
    <3>4. 0 <= sock'[u].bytes + M * (urgent - urgent) /\ urgent <= urgent
      BY <1>1, <3>2, <3>3
    <3> QED
      BY <1>2, <2>2, <3>1, <3>4 DEF OwedAt
  <2>5. CASE u \notin S
    <3>1. leaks'[u] = leaks[u] /\ sent'[u] = sent[u] /\ sock'[u].bytes = sock[u].bytes
      BY <1>2, <1>3, <2>5
    <3>2. sock'[u].flag # "DEAD" => sock[u].flag # "DEAD"
      BY <1>2, <2>5
    <3>3. OwedAt(u)
      BY <1>1, <1>5 DEF Owed
    <3> QED
      BY <1>2, <3>1, <3>2, <3>3, Zenon DEF OwedAt
  <2> QED
    BY <2>4, <2>5
<1> QED
  BY <1>4, <1>5 DEF Owed

(* A step that puts the next message on some sockets. *)
LEMMA SettledInv ==
    ASSUME SendQueueInv, NEW st \in State,
           \A u \in Sockets : Ahead(st.sock[u]) = 0, Older(st, nextid),
           \A u \in Sockets : /\ st.sent[u] = sent[u] /\ st.sock[u].bytes = sock[u].bytes
                              /\ st.sock[u].flag # "DEAD" => sock[u].flag # "DEAD",
           NEW r, Settled(st, r, nextid), st.urgent = urgent, Become(r), nextid' = nextid + 1,
           UNCHANGED pass
    PROVE  SendQueueInv'
<1>1. nextid \in Nat /\ PassOK
  BY DEF SendQueueInv, TypeOK, PassOK
<1>2. Older(r, nextid + 1)
  <2>1. Keeps(st, r, Sockets, nextid)
    BY DEF Settled
  <2>2. ASSUME NEW u \in Sockets
        PROVE  Below(st.sock[u].sendq, st.wire[u], nextid + 1)
    <3>1. PICK q, w : q = st.sock[u].sendq /\ w = st.wire[u]
      OBVIOUS
    <3>2. q \in Seq(Message) /\ w \in Seq(Message) /\ Below(q, w, nextid)
      BY <3>1 DEF State, Socket, Older
    <3>3. /\ \A i \in DOMAIN q : q[i] \in Message
          /\ \A i \in DOMAIN w : w[i] \in Message
      BY <3>2
    <3>4. Below(q, w, nextid + 1)
      BY <1>1, <3>2, <3>3 DEF Message, Below
    <3> QED
      BY <3>1, <3>4
  <2>3. Older(st, nextid + 1) /\ nextid < nextid + 1
    BY <1>1, <2>2 DEF Older
  <2> QED
    BY <2>1, <2>3, KeepsOlder
<1>3. \A u \in Sockets : Ahead(r.sock[u]) = 0
  BY Zenon DEF Settled, Keeps
<1>4. PassOK'
  BY <1>1 DEF PassOK
<1>5. Reaches(r) /\ CountLeak /\ r \in State /\ AllOK(r)
  BY DEF Become, Reaches, Settled
<1>6. ASSUME Ordinary, NEW u \in ServerSockets, r.sock[u].flag # "DEAD"
      PROVE  /\ sock[u].flag # "DEAD"
             /\ PaidAt(Current, r, u) \/ BypassedAt(Current, r, u)
  <2>1. u \in Sockets
    BY SendQueueAssumption
  <2>2. r.sock[u].flag = st.sock[u].flag
    BY <2>1, Zenon DEF Settled, Keeps
  <2>3. sock[u].flag # "DEAD"
    BY <1>6, <2>1, <2>2
  <2>4. PaidAt(st, r, u) \/ BypassedAt(st, r, u)
    BY <1>6, Zenon DEF Settled, Paid, Bypassed
  <2>5. /\ Current.sent[u] = st.sent[u] /\ Current.sock[u].bytes = st.sock[u].bytes
        /\ Current.urgent = st.urgent
    BY <2>1 DEF Current
  <2>6. PaidAt(Current, r, u) \/ BypassedAt(Current, r, u)
    <3>1. CASE PaidAt(st, r, u)
      BY <2>5, <3>1, Zenon DEF PaidAt
    <3>2. CASE BypassedAt(st, r, u)
      BY <2>5, <3>2, Zenon DEF BypassedAt
    <3> QED
      BY <2>4, <3>1, <3>2
  <2> QED
    BY <2>3, <2>6
<1>7. leaks' \in [ServerSockets -> Nat] /\ Owed'
  BY <1>5, <1>6, OwedStep
<1>8. nextid' \in Nat /\ Older(r, nextid')
  BY <1>1, <1>2
<1> QED
  BY <1>3, <1>4, <1>5, <1>7, <1>8, ReachesInv

LEMMA InvFacts ==
    ASSUME SendQueueInv
    PROVE  /\ Current \in State /\ AllOK(Current) /\ TypeOK
           /\ Older(Current, nextid) /\ nextid \in Nat /\ PassOK /\ pass.inc \in {0, 1}
           /\ \A u \in Sockets : Ahead(Current.sock[u]) = 0
           /\ \A u \in Sockets : Fresh(Current.sock[u].sendq, Current.wire[u], nextid)
<1>1. /\ Current \in State /\ AllOK(Current) /\ TypeOK
      /\ Older(Current, nextid)
  BY DEF SendQueueInv, Sound
<1>2. nextid \in Nat /\ PassOK /\ pass.inc \in {0, 1}
  BY <1>1 DEF TypeOK, PassOK
<1>3. ASSUME NEW u \in Sockets PROVE Ahead(Current.sock[u]) = 0
  <2>1. sock[u] \in Socket /\ sock[u].entrys = Len(sock[u].sendq)
    BY <1>1 DEF TypeOK, SendQueueInv, EntrysExact
  <2>2. Len(sock[u].sendq) \in Nat
    BY <2>1 DEF Socket
  <2> QED
    BY <2>1, <2>2 DEF Ahead, Current
<1>4. ASSUME NEW u \in Sockets
      PROVE  Fresh(Current.sock[u].sendq, Current.wire[u], nextid)
  <2>1. Below(Current.sock[u].sendq, Current.wire[u], nextid)
    BY <1>1 DEF Older
  <2> QED
    BY <1>2, <2>1 DEF Below, Fresh
<1> QED
  BY <1>1, <1>2, <1>3, <1>4

LEMMA StepWrite ==
    ASSUME SendQueueInv, NEW s \in Sockets, NEW len \in Lengths, Write(s, len)
    PROVE  SendQueueInv'
<1>1. PICK st, m, r : /\ st = Current /\ m = NewMessage(len, "writesock", 0)
                      /\ r = writesock(Current, s, m)
  OBVIOUS
<1>2. /\ st \in State /\ AllOK(st) /\ TypeOK
      /\ Older(st, nextid) /\ nextid \in Nat /\ pass.inc \in {0, 1}
      /\ \A u \in Sockets : Ahead(st.sock[u]) = 0
      /\ \A u \in Sockets : Fresh(st.sock[u].sendq, st.wire[u], nextid)
  BY <1>1, InvFacts
<1>4. m \in Message /\ m.len = len /\ m.api = "writesock" /\ m.id = nextid
  BY <1>1, <1>2, SendQueueAssumption DEF NewMessage, Message, Apis
<1>5. PICK u : u = IF st.sock[s].flag = "SYN" THEN 0 ELSE st.urgent
  OBVIOUS
<1>6. PICK seen : seen = [st EXCEPT !.urgent = u]
  OBVIOUS
<1>7. /\ seen \in State /\ seen.sock = st.sock /\ seen.wire = st.wire /\ seen.sent = st.sent
      /\ seen.urgent = u /\ u <= st.urgent
  <2>1. st.urgent \in {0, 1}
    BY <1>2 DEF State
  <2>2. u \in {0, 1} /\ u <= st.urgent
    BY <1>5, <2>1
  <2> QED
    BY <1>2, <1>6, <2>2 DEF State
<1>8. r = IF seen.urgent = 0 THEN addq(seen, s, m) ELSE WriteNow(seen, s, m)
  BY <1>1, <1>5, <1>6, <1>7 DEF writesock
<1>9. Settled(st, r, nextid)
  BY <1>2, <1>4, <1>7, <1>8, WriteSound
<1>10. st.sock = sock /\ st.sent = sent /\ st.urgent = urgent
  BY <1>1 DEF Current
<1>11. Become(r) /\ nextid' = nextid + 1 /\ UNCHANGED pass
  BY <1>1 DEF Write
<1> QED
  BY <1>2, <1>9, <1>10, <1>11, SettledInv

LEMMA StepWriteUrgent ==
    ASSUME SendQueueInv, NEW s \in Sockets, NEW len \in Lengths, WriteUrgent(s, len)
    PROVE  SendQueueInv'
<1>1. PICK st, m, st1, r : /\ st = Current /\ m = NewMessage(len, "URGENT", 0)
                           /\ st1 = [Current EXCEPT !.urgent = 1]
                           /\ r = writesock(st1, s, m)
  OBVIOUS
<1>2. /\ st \in State /\ AllOK(st) /\ TypeOK
      /\ Older(st, nextid) /\ nextid \in Nat /\ pass.inc \in {0, 1}
      /\ \A u \in Sockets : Ahead(st.sock[u]) = 0
      /\ \A u \in Sockets : Fresh(st.sock[u].sendq, st.wire[u], nextid)
  BY <1>1, InvFacts
<1>4. m \in Message /\ m.len = len /\ m.api = "URGENT" /\ m.id = nextid
  BY <1>1, <1>2, SendQueueAssumption DEF NewMessage, Message, Apis
<1>5. /\ st1 \in State /\ st1.sock = st.sock /\ st1.wire = st.wire /\ st1.sent = st.sent
      /\ st1.urgent = 1
  BY <1>1, <1>2 DEF State
<1>6. PICK u : u = IF st1.sock[s].flag = "SYN" THEN 0 ELSE st1.urgent
  OBVIOUS
<1>7. PICK seen : seen = [st1 EXCEPT !.urgent = u]
  OBVIOUS
<1>8. /\ seen \in State /\ seen.sock = st.sock /\ seen.wire = st.wire /\ seen.sent = st.sent
      /\ seen.urgent = u
  BY <1>5, <1>6, <1>7 DEF State
<1>9. r = IF seen.urgent = 0 THEN addq(seen, s, m) ELSE WriteNow(seen, s, m)
  BY <1>1, <1>6, <1>7, <1>8 DEF writesock
<1>10. Settled(st, r, nextid)
  BY <1>2, <1>4, <1>8, <1>9, WriteSound
<1>11. st.sock = sock /\ st.sent = sent /\ st.urgent = urgent
  BY <1>1 DEF Current
<1>12. Become(r) /\ nextid' = nextid + 1 /\ UNCHANGED pass
  BY <1>1 DEF WriteUrgent
<1> QED
  BY <1>2, <1>10, <1>11, <1>12, SettledInv

LEMMA StepWriteDelay ==
    ASSUME SendQueueInv, NEW s \in Sockets, NEW len \in Lengths,
           WriteDelay(s, len, ConnectDelay)
    PROVE  SendQueueInv'
<1>1. PICK st, m, r : /\ st = Current /\ m = NewMessage(len, "DELAY", ConnectDelay)
                      /\ r = addq(Current, s, m)
  OBVIOUS
<1>2. /\ st \in State /\ AllOK(st) /\ TypeOK
      /\ Older(st, nextid) /\ nextid \in Nat /\ pass.inc \in {0, 1}
      /\ \A u \in Sockets : Ahead(st.sock[u]) = 0
      /\ \A u \in Sockets : Fresh(st.sock[u].sendq, st.wire[u], nextid)
  BY <1>1, InvFacts
<1>4. m \in Message /\ m.len = len /\ m.api = "DELAY" /\ m.id = nextid
  BY <1>1, <1>2, SendQueueAssumption DEF NewMessage, Message, Apis
<1>5. Added(st, r, Sockets, nextid)
  BY <1>1, <1>2, <1>4, AddqSound
<1>6. Settled(st, r, nextid)
  BY <1>5 DEF Added, Settled
<1>7. st.sock = sock /\ st.sent = sent /\ st.urgent = urgent
  BY <1>1 DEF Current
<1>8. Become(r) /\ nextid' = nextid + 1 /\ UNCHANGED pass
  BY <1>1 DEF WriteDelay
<1> QED
  BY <1>2, <1>6, <1>7, <1>8, SettledInv

LEMMA StepConnected ==
    ASSUME SendQueueInv, NEW s \in Sockets, Connected(s)
    PROVE  SendQueueInv'
<1>1. PICK c, k, l, st, m, r :
        /\ c = Current /\ k = c.sock[s] /\ l = [k EXCEPT !.flag = "CONN"]
        /\ st = [Current EXCEPT !.sock[s].flag = "CONN"]
        /\ m = NewMessage(0, "connect", ConnectDelay) /\ r = addq(st, s, m)
  OBVIOUS
<1>2. /\ c \in State /\ AllOK(c) /\ TypeOK
      /\ Older(c, nextid) /\ nextid \in Nat /\ pass.inc \in {0, 1}
      /\ \A u \in Sockets : Ahead(c.sock[u]) = 0
      /\ \A u \in Sockets : Fresh(c.sock[u].sendq, c.wire[u], nextid)
  BY <1>1, InvFacts
<1>4. m \in Message /\ m.len = 0 /\ m.api = "connect" /\ m.id = nextid
  BY <1>1, <1>2, SendQueueAssumption DEF NewMessage, Message, Apis
<1>5. k \in Socket /\ k.flag = "SYN" /\ SocketOK(s, k, c.wire[s])
  BY <1>1, <1>2 DEF State, Connected, Current, AllOK
<1>6. /\ l \in Socket /\ l.sendq = k.sendq /\ l.flag = "CONN" /\ l.bytes = k.bytes
      /\ l.entrys = k.entrys /\ l.stoned = k.stoned /\ l.serversocket = k.serversocket
  BY <1>1, <1>5 DEF Socket
<1>7. st = With(c, s, l)
  BY <1>1, <1>2 DEF State, With
<1>8. /\ st \in State /\ OnlyAt(c, st, s) /\ st.sock[s] = l
      /\ st.wire = c.wire /\ st.sent = c.sent /\ st.urgent = c.urgent
  <2>1. Replaced(c, st, s, l)
    BY <1>2, <1>6, <1>7, SetSocket, Zenon
  <2> QED
    BY <2>1 DEF Replaced
<1>9. AllOK(st)
  <2>1. SocketOK(s, l, c.wire[s])
    BY <1>5, <1>6 DEF SocketOK, OriginOK, FloodOK
  <2> QED
    BY <1>2, <1>8, <2>1, AllButOne
<1>10. c.sock = sock /\ c.sent = sent /\ c.urgent = urgent
  BY <1>1 DEF Current
<1>11. \A u \in Sockets : /\ st.sent[u] = sent[u] /\ st.sock[u].bytes = sock[u].bytes
                          /\ st.sock[u].flag # "DEAD" => sock[u].flag # "DEAD"
  <2> TAKE u \in Sockets
  <2>1. CASE u = s
    BY <1>1, <1>5, <1>6, <1>8, <1>10, <2>1
  <2>2. CASE u # s
    BY <1>8, <1>10, <2>2 DEF OnlyAt
  <2> QED
    BY <2>1, <2>2
<1>13. \A u \in Sockets : /\ st.sock[u].sendq = c.sock[u].sendq
                          /\ Ahead(st.sock[u]) = Ahead(c.sock[u])
  <2> TAKE u \in Sockets
  <2>1. CASE u = s
    BY <1>1, <1>6, <1>8, <2>1 DEF Ahead
  <2>2. CASE u # s
    BY <1>8, <2>2 DEF OnlyAt
  <2> QED
    BY <2>1, <2>2
<1>14. Older(st, nextid) /\ \A u \in Sockets : Fresh(st.sock[u].sendq, st.wire[u], m.id)
  BY <1>2, <1>4, <1>8, <1>13 DEF Older
<1>15. Added(st, r, Sockets, nextid)
  BY <1>1, <1>2, <1>4, <1>8, <1>9, <1>14, AddqSound
<1>16. Settled(st, r, nextid)
  BY <1>15 DEF Added, Settled
<1>17. Become(r) /\ nextid' = nextid + 1 /\ UNCHANGED pass
  BY <1>1 DEF Connected
<1>18. \A u \in Sockets : Ahead(st.sock[u]) = 0
  BY <1>2, <1>13
<1> QED
  BY <1>8, <1>10, <1>11, <1>14, <1>16, <1>17, <1>18, SettledInv

LEMMA StepFlush ==
    ASSUME SendQueueInv, NEW s \in Sockets, Flush(s)
    PROVE  SendQueueInv'
<1>1. PICK st, r : st = Current /\ r = flushsendq(Current, s, FALSE)
  OBVIOUS
<1>2. /\ st \in State /\ AllOK(st) /\ TypeOK /\ PassOK
      /\ Older(st, nextid) /\ nextid \in Nat /\ pass.inc \in {0, 1}
      /\ \A u \in Sockets : Ahead(st.sock[u]) = 0
  BY <1>1, InvFacts
<1>4. Added(st, r, {}, -1)
  BY <1>1, <1>2, FlushSound
<1>5. Keeps(st, r, {}, -1) /\ Paid(st, r) /\ r \in State /\ AllOK(r)
  BY <1>4 DEF Added
<1>6. \A u \in Sockets : Ahead(r.sock[u]) = 0
  BY <1>2, <1>5, Zenon DEF Keeps
<1>7. -1 < nextid
  BY <1>2
<1>8. Older(r, nextid)
  BY <1>2, <1>5, <1>7, KeepsOlder
<1>9. PassOK' /\ nextid' = nextid /\ Become(r)
  BY <1>1, <1>2 DEF Flush, PassOK
<1>10. Reaches(r) /\ CountLeak
  BY <1>9 DEF Become, Reaches
<1>11. ASSUME NEW u \in ServerSockets, r.sock[u].flag # "DEAD"
       PROVE  sock[u].flag # "DEAD" /\ PaidAt(Current, r, u)
  <2>1. u \in Sockets
    BY SendQueueAssumption
  <2>2. r.sock[u].flag = sock[u].flag
    BY <1>1, <1>5, <2>1 DEF Keeps, Current
  <2>3. PaidAt(st, r, u)
    BY <1>5 DEF Paid
  <2> QED
    BY <1>1, <1>11, <2>2, <2>3
<1>12. leaks' \in [ServerSockets -> Nat] /\ Owed'
  BY <1>5, <1>10, <1>11, OwedStep
<1> QED
  BY <1>2, <1>5, <1>6, <1>8, <1>9, <1>10, <1>12, ReachesInv

LEMMA StepPong ==
    ASSUME SendQueueInv, NEW s \in Sockets, Pong(s)
    PROVE  SendQueueInv'
<1>1. PICK st, k, l, r : /\ st = Current /\ k = st.sock[s]
                         /\ l = [k EXCEPT !.stoned = 0, !.bytes = 0]
                         /\ r = Current'
  OBVIOUS
<1>2. /\ st \in State /\ AllOK(st) /\ TypeOK /\ PassOK
      /\ Older(st, nextid) /\ nextid \in Nat
      /\ \A u \in Sockets : Ahead(st.sock[u]) = 0
  BY <1>1, InvFacts
<1>4. k \in Socket /\ SocketOK(s, k, st.wire[s])
  BY <1>1, <1>2 DEF State, AllOK
<1>5. /\ l \in Socket /\ l.sendq = k.sendq /\ l.flag = k.flag /\ l.bytes = 0
      /\ l.entrys = k.entrys /\ l.stoned = 0 /\ l.serversocket = k.serversocket
  BY <1>1, <1>4 DEF Socket
<1>6. /\ r.sock = [st.sock EXCEPT ![s] = l] /\ r.wire = st.wire /\ r.urgent = st.urgent
      /\ r.sent = [st.sent EXCEPT ![s] = 0]
  BY <1>1 DEF Pong, Current
<1>7. st.sock \in [Sockets -> Socket] /\ st.sent \in [Sockets -> Nat]
  BY <1>2 DEF State
<1>8. r \in State
  <2>1. /\ r.sock \in [Sockets -> Socket] /\ r.sent \in [Sockets -> Nat]
        /\ r.wire \in [Sockets -> Seq(Message)] /\ r.urgent \in {0, 1}
    BY <1>2, <1>5, <1>6, <1>7 DEF State
  <2>2. r = [sock |-> r.sock, urgent |-> r.urgent, wire |-> r.wire, sent |-> r.sent]
    BY <1>1 DEF Current
  <2> QED
    BY <2>1, <2>2 DEF State
<1>9. r.sock[s] = l /\ r.sent[s] = 0 /\ OnlyAt(st, r, s)
  BY <1>6, <1>7 DEF OnlyAt
<1>10. AllOK(r)
  <2>1. Limit \in Nat
    BY SendQueueAssumption
  <2>2. SocketOK(s, l, st.wire[s])
    BY <1>4, <1>5, <2>1 DEF SocketOK, OriginOK, FloodOK
  <2> QED
    BY <1>2, <1>6, <1>9, <2>2, AllButOne
<1>11. Reaches(r) /\ Restart({s})
  BY <1>1 DEF Pong, Reaches, Current
<1>12. \A u \in Sockets : Ahead(r.sock[u]) = 0 /\ r.sock[u].sendq = st.sock[u].sendq
  <2> TAKE u \in Sockets
  <2>1. CASE u = s
    <3>1. Ahead(l) = Ahead(k) /\ l.sendq = k.sendq
      BY <1>5 DEF Ahead
    <3> QED
      BY <1>1, <1>2, <1>9, <2>1, <3>1
  <2>2. CASE u # s
    BY <1>2, <1>9, <2>2 DEF OnlyAt
  <2> QED
    BY <2>1, <2>2
<1>13. Older(r, nextid)
  BY <1>2, <1>6, <1>12 DEF Older
<1>14. PassOK' /\ nextid' = nextid
  BY <1>2 DEF Pong, PassOK
<1>15. ASSUME NEW u \in ServerSockets
       PROVE  IF u \in {s} THEN r.sent[u] = 0
              ELSE /\ r.sent[u] = sent[u] /\ r.sock[u].bytes = sock[u].bytes
                   /\ r.sock[u].flag # "DEAD" => sock[u].flag # "DEAD"
  <2>1. u \in Sockets
    BY SendQueueAssumption
  <2>2. u # s => r.sent[u] = sent[u] /\ r.sock[u] = sock[u]
    BY <1>1, <1>9, <2>1 DEF OnlyAt, Current
  <2> QED
    BY <1>9, <2>2
<1>16. leaks' \in [ServerSockets -> Nat] /\ Owed'
  <2>1. r.urgent = urgent
    BY <1>1, <1>6 DEF Current
  <2> QED
    BY <1>8, <1>11, <1>15, <2>1, OwedRestart
<1> QED
  BY <1>2, <1>8, <1>10, <1>11, <1>12, <1>13, <1>14, <1>16, ReachesInv

(* The socket k after a pass of socketdriver is l. *)
Passed(s, k, l, w, inc) ==
    /\ l \in Socket /\ SocketOK(s, l, w)
    /\ Redelayed(k.sendq, l.sendq)
    /\ l.flag = k.flag /\ l.entrys = k.entrys
    /\ l.bytes = IF Released(k, inc) THEN 0 ELSE k.bytes

LEMMA PassOne ==
    ASSUME NEW s, NEW k \in Socket, NEW w, NEW inc \in {0, 1}, SocketOK(s, k, w),
           NEW l, l = IF k.flag = "DEAD" THEN k ELSE DelayPass(StonePass(k, inc), inc)
    PROVE  Passed(s, k, l, w, inc)
<1>1. k.sendq \in Seq(Message) /\ k.stoned \in Nat /\ k.bytes \in Nat /\ Limit \in Nat
  BY SendQueueAssumption DEF Socket
<1>2. \A q \in Seq(Message) : Redelayed(q, q)
  BY DEF Redelayed
<1>3. CASE k.flag = "DEAD"
  BY <1>1, <1>2, <1>3 DEF Passed, Released
<1>4. CASE k.flag # "DEAD"
  <2>1. PICK j : j = StonePass(k, inc)
    OBVIOUS
  <2>2. /\ j \in Socket /\ j.sendq = k.sendq /\ j.flag = k.flag /\ j.entrys = k.entrys
        /\ j.serversocket = k.serversocket /\ (j.stoned = k.stoned \/ j.stoned = k.stoned - inc)
        /\ j.bytes = IF Released(k, inc) THEN 0 ELSE k.bytes
    <3>1. CASE k.serversocket /\ k.stoned > 0
      <4>1. PICK left : left = k.stoned - inc
        OBVIOUS
      <4>2. left \in Nat
        BY <1>1, <3>1, <4>1
      <4>3. PICK b : b = IF left = 0 THEN 0 ELSE k.bytes
        OBVIOUS
      <4>4. b \in Nat /\ b = IF Released(k, inc) THEN 0 ELSE k.bytes
        BY <1>1, <1>4, <3>1, <4>1, <4>3 DEF Released
      <4>5. j = [k EXCEPT !.stoned = left, !.bytes = b]
        BY <2>1, <3>1, <4>1, <4>3 DEF StonePass
      <4> QED
        BY <4>1, <4>2, <4>4, <4>5 DEF Socket
    <3>2. CASE ~ (k.serversocket /\ k.stoned > 0)
      BY <2>1, <3>2 DEF StonePass, Released
    <3> QED
      BY <3>1, <3>2
  <2>3. SocketOK(s, j, w)
    <3>1. FloodOK(s, j)
      <4>1. k.stoned > 0 /\ j.stoned > 0 /\ k.serversocket => j.bytes = k.bytes
        BY <1>1, <1>4, <2>1 DEF StonePass, Socket
      <4>2. j.stoned > 0 => k.stoned > 0
        BY <1>1, <2>2
      <4>3. s \in ServerSockets => k.serversocket
        BY <1>4 DEF SocketOK, FloodOK
      <4>4. j.bytes <= k.bytes
        BY <1>1, <2>2
      <4>5. FloodOK(s, k) /\ j.bytes \in Nat
        BY <2>2 DEF SocketOK, Socket
      <4>6. s \in ServerSockets /\ j.stoned > 0 =>
              j.flag = "CONN" /\ j.sendq # <<>> /\ j.bytes + Head(j.sendq).len > Limit
        BY <2>2, <4>1, <4>2, <4>3, <4>5 DEF FloodOK
      <4>7. s \in ServerSockets /\ Short => j.bytes <= Limit
        BY <1>1, <4>4, <4>5 DEF FloodOK
      <4> QED
        BY <2>2, <4>5, <4>6, <4>7 DEF FloodOK
    <3> QED
      BY <2>2, <3>1 DEF SocketOK, OriginOK
  <2>4. l = DelayPass(j, inc)
    BY <1>4, <2>1
  <2>5. CASE j.sendq # <<>> /\ Head(j.sendq).delay > 0
    <3>1. PICK q, d : q = j.sendq /\ d = Head(j.sendq).delay - inc
      OBVIOUS
    <3>2. q \in Seq(Message) /\ q # <<>> /\ d \in Nat /\ Head(q) = q[1] /\ 1 \in DOMAIN q
      <4>1. q \in Seq(Message) /\ q # <<>>
        BY <2>2, <2>5, <3>1 DEF Socket
      <4>2. Head(q) \in Message /\ Head(q) = q[1] /\ 1 \in DOMAIN q
        BY <4>1
      <4> QED
        BY <2>5, <3>1, <4>1, <4>2 DEF Message
    <3>3. PICK e : e = [q EXCEPT ![1].delay = d]
      OBVIOUS
    <3>4. Redelayed(q, e)
      BY <3>2, <3>3, DelayFacts
    <3>5. l = [j EXCEPT !.sendq = e]
      BY <1>4, <2>2, <2>4, <2>5, <3>1, <3>2, <3>3 DEF DelayPass
    <3>6. /\ l \in Socket /\ l.sendq = e /\ l.flag = j.flag /\ l.entrys = j.entrys
          /\ l.serversocket = j.serversocket /\ l.stoned = j.stoned /\ l.bytes = j.bytes
      BY <2>2, <3>4, <3>5 DEF Socket, Redelayed
    <3>7. SocketOK(s, l, w)
      BY <2>3, <3>1, <3>4, <3>6, RedelayedOK
    <3> QED
      BY <2>2, <3>1, <3>4, <3>6, <3>7 DEF Passed
  <2>6. CASE ~ (j.sendq # <<>> /\ Head(j.sendq).delay > 0)
    <3>1. l = j
      BY <2>4, <2>6 DEF DelayPass
    <3> QED
      BY <1>1, <1>2, <2>2, <2>3, <3>1 DEF Passed
  <2> QED
    BY <2>5, <2>6
<1> QED
  BY <1>3, <1>4

LEMMA StepPass ==
    ASSUME SendQueueInv, NEW inc \in {0, 1}, Pass(inc)
    PROVE  SendQueueInv'
<1>1. PICK st, r : st = Current /\ r = Current'
  OBVIOUS
<1>2. /\ st \in State /\ AllOK(st) /\ TypeOK /\ PassOK
      /\ Older(st, nextid) /\ nextid \in Nat
      /\ \A u \in Sockets : Ahead(st.sock[u]) = 0
  BY <1>1, InvFacts
<1>4. /\ r.wire = st.wire /\ r.urgent = st.urgent
      /\ r.sock = [u \in Sockets |-> IF st.sock[u].flag = "DEAD" THEN st.sock[u]
                                     ELSE DelayPass(StonePass(st.sock[u], inc), inc)]
      /\ r.sent = [u \in Sockets |-> IF Released(st.sock[u], inc) THEN 0 ELSE st.sent[u]]
  BY <1>1 DEF Pass, Current, Released
<1>5. \A u \in Sockets : st.sock[u] \in Socket /\ st.sent[u] \in Nat
  BY <1>2 DEF State
<1>6. ASSUME NEW u \in Sockets
      PROVE  Passed(u, st.sock[u], r.sock[u], st.wire[u], inc)
  BY <1>2, <1>4, <1>5, PassOne DEF AllOK
<1>7. \A u \in Sockets : r.sent[u] = IF Released(st.sock[u], inc) THEN 0 ELSE st.sent[u]
  BY <1>4
<1>8. r \in State
  <2>1. r.sock \in [Sockets -> Socket]
    BY <1>4, <1>6 DEF Passed
  <2>2. r.sent \in [Sockets -> Nat]
    BY <1>4, <1>5
  <2>3. r.wire \in [Sockets -> Seq(Message)] /\ r.urgent \in {0, 1}
    BY <1>2, <1>4 DEF State
  <2>4. r = [sock |-> r.sock, urgent |-> r.urgent, wire |-> r.wire, sent |-> r.sent]
    BY <1>1 DEF Current
  <2> QED
    BY <2>1, <2>2, <2>3, <2>4 DEF State
<1>9. AllOK(r)
  BY <1>4, <1>6 DEF AllOK, Passed
<1>10. PICK S : S = {u \in ServerSockets : Released(sock[u], inc)}
  OBVIOUS
<1>11. \A u \in Sockets : Ahead(r.sock[u]) = 0
  BY <1>2, <1>6 DEF Passed, Redelayed, Ahead
<1>12. Older(r, nextid)
  <2> SUFFICES ASSUME NEW u \in Sockets PROVE Below(r.sock[u].sendq, r.wire[u], nextid)
    BY DEF Older
  <2>1. PICK q, d : q = st.sock[u].sendq /\ d = r.sock[u].sendq
    OBVIOUS
  <2>2. Redelayed(q, d)
    BY <1>6, <2>1 DEF Passed
  <2>3. Below(q, st.wire[u], nextid)
    BY <1>2, <2>1 DEF Older
  <2>4. Below(d, st.wire[u], nextid)
    BY <2>2, <2>3, Zenon DEF Below, Redelayed
  <2> QED
    BY <1>4, <2>1, <2>4
<1>13. PassOK' /\ nextid' = nextid
  <2>1. {u \in Sockets : WantsWrite(StonePass(sock[u], inc))} \in SUBSET Sockets
    OBVIOUS
  <2> QED
    BY <2>1 DEF Pass, PassOK
<1>14. Reaches(r) /\ Restart(S) /\ r.urgent = urgent
  BY <1>1, <1>10 DEF Pass, Reaches, Current
<1>15. ASSUME NEW u \in ServerSockets
       PROVE  IF u \in S THEN r.sent[u] = 0
              ELSE /\ r.sent[u] = sent[u] /\ r.sock[u].bytes = sock[u].bytes
                   /\ r.sock[u].flag # "DEAD" => sock[u].flag # "DEAD"
  <2>1. u \in Sockets /\ st.sock[u] = sock[u] /\ st.sent[u] = sent[u]
    BY <1>1, SendQueueAssumption DEF Current
  <2>2. /\ r.sent[u] = IF Released(sock[u], inc) THEN 0 ELSE sent[u]
        /\ r.sock[u].bytes = IF Released(sock[u], inc) THEN 0 ELSE sock[u].bytes
        /\ r.sock[u].flag = sock[u].flag
    BY <1>6, <1>7, <2>1 DEF Passed
  <2>3. u \in S <=> Released(sock[u], inc)
    BY <1>10
  <2> QED
    BY <2>2, <2>3
<1>16. leaks' \in [ServerSockets -> Nat] /\ Owed'
  BY <1>8, <1>14, <1>15, OwedRestart
<1> QED
  BY <1>2, <1>8, <1>9, <1>11, <1>12, <1>13, <1>14, <1>16, ReachesInv

(* The whole queue of a connected socket that is closed goes to the wire. *)
LEMMA AllWritten ==
    ASSUME NEW q \in Seq(Message), NEW w \in Seq(Message), Distinct(q, w)
    PROVE  /\ w \o Nonempty(q) \in Seq(Message)
           /\ UniqueIds(w \o Nonempty(q))
           /\ \A n \in Nat : Below(q, w, n) => Below(<<>>, w \o Nonempty(q), n)
<1>1. PICK o, v : o = Nonempty(q) /\ v = w \o o
  OBVIOUS
<1>2. /\ o \in Seq(Message) /\ UniqueIds(o)
      /\ \A i \in DOMAIN o : \E j \in DOMAIN q : q[j] = o[i]
  BY <1>1, NonemptyFacts DEF Distinct
<1>3. /\ Len(w) \in Nat /\ Len(o) \in Nat /\ DOMAIN w = 1 .. Len(w) /\ DOMAIN o = 1 .. Len(o)
  BY <1>2
<1>4. /\ v \in Seq(Message) /\ Len(v) = Len(w) + Len(o)
      /\ \A i \in 1 .. Len(v) : v[i] = IF i <= Len(w) THEN w[i] ELSE o[i - Len(w)]
  <2>1. v \in Seq(Message) /\ Len(v) = Len(w) + Len(o)
    BY <1>1, <1>2
  <2>2. \A i \in 1 .. Len(v) : v[i] = IF i <= Len(w) THEN w[i] ELSE o[i - Len(w)]
    BY <1>1, <1>2, <2>1
  <2> QED
    BY <2>1, <2>2
<1>5. DOMAIN v = 1 .. Len(v)
  BY <1>4
<1>6. \A i \in DOMAIN v : \/ i \in DOMAIN w /\ v[i] = w[i]
                          \/ i - Len(w) \in DOMAIN o /\ v[i] = o[i - Len(w)] /\ i \in Int
  BY <1>3, <1>4, <1>5
<1>7. \A i \in DOMAIN o, j \in DOMAIN w : o[i].id # w[j].id
  BY <1>2 DEF Distinct
<1>8. UniqueIds(v)
  <2> SUFFICES ASSUME NEW i \in DOMAIN v, NEW j \in DOMAIN v, v[i].id = v[j].id PROVE i = j
    BY DEF UniqueIds
  <2>1. CASE i \in DOMAIN w /\ v[i] = w[i] /\ j \in DOMAIN w /\ v[j] = w[j]
    BY <2>1 DEF Distinct, UniqueIds
  <2>2. CASE /\ i - Len(w) \in DOMAIN o /\ v[i] = o[i - Len(w)] /\ i \in Int
             /\ j - Len(w) \in DOMAIN o /\ v[j] = o[j - Len(w)] /\ j \in Int
    <3>1. i - Len(w) = j - Len(w)
      BY <1>2, <2>2 DEF UniqueIds
    <3> QED
      BY <1>3, <2>2, <3>1
  <2> QED
    BY <1>6, <1>7, <2>1, <2>2
<1>9. ASSUME NEW n \in Nat, Below(q, w, n) PROVE Below(<<>>, v, n)
  <2>1. PICK e : e = <<>>
    OBVIOUS
  <2>2. DOMAIN e = {}
    BY <2>1
  <2>3. \A i \in DOMAIN o : o[i].id < n
    BY <1>2, <1>9 DEF Below
  <2>4. Below(e, v, n)
    BY <1>6, <1>9, <2>2, <2>3 DEF Below
  <2> QED
    BY <2>1, <2>4
<1> QED
  BY <1>1, <1>4, <1>8, <1>9

(* killsocket() writes the whole queue of a connected socket: its counter is *)
(* the length of the queue, so the flushes reach the last message.           *)
LEMMA KillFlushes ==
    ASSUME NEW k \in Socket, Ahead(k) = 0
    PROVE  FlushedByKill(k) = IF k.flag = "CONN" THEN k.sendq ELSE <<>>
<1>1. PICK q : q = k.sendq
  OBVIOUS
<1>2. q \in Seq(Message) /\ Len(q) \in Nat /\ k.entrys \in Int
  BY <1>1 DEF Socket
<1>3. ~ (k.entrys < Len(q))
  BY <1>1, <1>2 DEF Ahead
<1>4. SubSeq(q, 1, Len(q)) = q
  BY <1>2
<1> QED
  BY <1>1, <1>3, <1>4 DEF FlushedByKill

(* The socket after killsocket(). *)
Closed(k, l) ==
    /\ l \in Socket /\ l.flag = "DEAD" /\ l.sendq = <<>> /\ l.entrys = 0
    /\ l.stoned = 0 /\ l.serversocket = FALSE /\ l.bytes = k.bytes

LEMMA CloseSocket ==
    ASSUME NEW k \in Socket
    PROVE  Closed(k, [k EXCEPT !.flag = "DEAD", !.sendq = <<>>, !.entrys = 0,
                               !.stoned = 0, !.serversocket = FALSE])
<1>1. PICK e, l : /\ e = <<>>
                  /\ l = [k EXCEPT !.flag = "DEAD", !.sendq = e, !.entrys = 0,
                                   !.stoned = 0, !.serversocket = FALSE]
  OBVIOUS
<1>2. e \in Seq(Message)
  BY <1>1
<1>3. PICK q \in Seq(Message) : q = e
  BY <1>2
<1>4. /\ k.bytes \in Nat
      /\ k = [flag |-> k.flag, sendq |-> k.sendq, entrys |-> k.entrys,
              serversocket |-> k.serversocket, stoned |-> k.stoned, bytes |-> k.bytes]
  BY DEF Socket
<1>5. l = [flag |-> "DEAD", sendq |-> q, entrys |-> 0, serversocket |-> FALSE,
           stoned |-> 0, bytes |-> k.bytes]
  BY <1>1, <1>3, <1>4
<1>6. l \in Socket
  BY <1>4, <1>5 DEF Socket
<1>7. /\ l.flag = "DEAD" /\ l.sendq = q /\ l.entrys = 0
      /\ l.stoned = 0 /\ l.serversocket = FALSE /\ l.bytes = k.bytes
  BY <1>5
<1> QED
  BY <1>1, <1>3, <1>6, <1>7 DEF Closed

LEMMA ClosedFacts ==
    ASSUME NEW s, NEW k \in Socket, NEW l, NEW w, NEW v, Closed(k, l), SocketOK(s, k, w),
           UniqueIds(v)
    PROVE  SocketOK(s, l, v) /\ Ahead(l) = 0
<1>1. PICK e : e = l.sendq
  OBVIOUS
<1>2. DOMAIN e = {} /\ Len(e) = 0
  BY <1>1 DEF Closed
<1>3. Distinct(l.sendq, v) /\ OriginOK(l) /\ Ahead(l) = 0
  <2>1. Distinct(e, v)
    BY <1>2 DEF Distinct, UniqueIds
  <2>2. OriginOK(l)
    BY <1>1, <1>2 DEF OriginOK
  <2>3. Ahead(l) = 0
    <3>1. l.entrys = 0
      BY DEF Closed
    <3>2. l.entrys - Len(e) = 0
      BY <1>2, <3>1
    <3> QED
      BY <1>1, <3>2, Zenon DEF Ahead
  <2> QED
    BY <1>1, <2>1, <2>2, <2>3
<1>4. FloodOK(s, l)
  BY DEF Closed, SocketOK, FloodOK
<1> QED
  BY <1>3, <1>4 DEF SocketOK

LEMMA StepKill ==
    ASSUME SendQueueInv, NEW s \in Sockets, killsocket(s)
    PROVE  SendQueueInv'
<1>1. PICK st, k, l, r, out, w, v, b :
         /\ st = Current /\ k = st.sock[s] /\ r = Current' /\ out = FlushedByKill(sock[s])
         /\ l = [k EXCEPT !.flag = "DEAD", !.sendq = <<>>, !.entrys = 0,
                          !.stoned = 0, !.serversocket = FALSE]
         /\ w = st.wire[s] /\ v = w \o Nonempty(out) /\ b = st.sent[s] + Bytes(out)
  OBVIOUS
<1>2. /\ st \in State /\ AllOK(st) /\ TypeOK /\ PassOK
      /\ Older(st, nextid) /\ nextid \in Nat
      /\ \A u \in Sockets : Ahead(st.sock[u]) = 0
  BY <1>1, InvFacts
<1>4. /\ k \in Socket /\ SocketOK(s, k, w) /\ Ahead(k) = 0 /\ k = sock[s]
      /\ w \in Seq(Message) /\ st.sent[s] \in Nat /\ st.urgent \in {0, 1}
      /\ Below(k.sendq, w, nextid)
  BY <1>1, <1>2 DEF State, AllOK, Current, Older
<1>5. out = IF k.flag = "CONN" THEN k.sendq ELSE <<>>
  BY <1>1, <1>4, KillFlushes
<1>6. out \in Seq(Message) /\ Distinct(out, w) /\ Below(out, w, nextid)
  <2>1. CASE k.flag = "CONN"
    BY <1>4, <1>5, <2>1 DEF Socket, SocketOK
  <2>2. CASE k.flag # "CONN"
    <3>1. out = <<>>
      BY <1>5, <2>2
    <3>2. out \in Seq(Message) /\ DOMAIN out = {}
      BY <3>1
    <3> QED
      BY <1>4, <3>2 DEF SocketOK, Distinct, UniqueIds, Below
  <2> QED
    BY <2>1, <2>2
<1>7. v \in Seq(Message) /\ UniqueIds(v) /\ Below(<<>>, v, nextid)
  BY <1>1, <1>2, <1>4, <1>6, AllWritten
<1>8. b \in Nat
  BY <1>1, <1>4, <1>6, BytesType
<1>9. Closed(k, l)
  BY <1>1, <1>4, CloseSocket
<1>10. /\ r.sock = [st.sock EXCEPT ![s] = l] /\ r.wire = [st.wire EXCEPT ![s] = v]
       /\ r.sent = [st.sent EXCEPT ![s] = b]
       /\ r.urgent = IF out = <<>> THEN st.urgent ELSE IF Last(out).len = 0 THEN 1 ELSE 0
  <2>1. st.sock = sock /\ st.wire = wire /\ st.sent = sent /\ st.urgent = urgent
    BY <1>1 DEF Current
  <2>2. r.sock = sock' /\ r.wire = wire' /\ r.sent = sent' /\ r.urgent = urgent'
    BY <1>1 DEF Current
  <2>3. wire' = [wire EXCEPT ![s] = v] /\ sent' = [sent EXCEPT ![s] = b]
    BY <1>1, <2>1 DEF killsocket
  <2>4. sock' = [sock EXCEPT ![s] = l]
    BY <1>1, <1>4 DEF killsocket
  <2>5. urgent' = IF out = <<>> THEN urgent ELSE IF Last(out).len = 0 THEN 1 ELSE 0
    BY <1>1 DEF killsocket
  <2> QED
    BY <2>1, <2>2, <2>3, <2>4, <2>5
<1>11. /\ st.sock \in [Sockets -> Socket] /\ st.sent \in [Sockets -> Nat]
       /\ st.wire \in [Sockets -> Seq(Message)]
  BY <1>2 DEF State
<1>12. r \in State
  <2>1. /\ r.sock \in [Sockets -> Socket] /\ r.sent \in [Sockets -> Nat]
        /\ r.wire \in [Sockets -> Seq(Message)]
    BY <1>7, <1>8, <1>9, <1>10, <1>11 DEF Closed
  <2>2. r.urgent \in {0, 1}
    BY <1>4, <1>10
  <2>3. r = [sock |-> r.sock, urgent |-> r.urgent, wire |-> r.wire, sent |-> r.sent]
    BY <1>1 DEF Current
  <2> QED
    BY <2>1, <2>2, <2>3 DEF State
<1>13. r.sock[s] = l /\ r.wire[s] = v /\ OnlyAt(st, r, s)
  BY <1>10, <1>11 DEF OnlyAt
<1>14. SocketOK(s, l, v) /\ Ahead(l) = 0
  BY <1>4, <1>7, <1>9, ClosedFacts
<1>15. AllOK(r)
  <2> SUFFICES ASSUME NEW u \in Sockets PROVE SocketOK(u, r.sock[u], r.wire[u])
    BY DEF AllOK
  <2>1. CASE u = s
    BY <1>13, <1>14, <2>1
  <2>2. CASE u # s
    BY <1>2, <1>13, <2>2 DEF OnlyAt, AllOK
  <2> QED
    BY <2>1, <2>2
<1>16. Reaches(r) /\ CountLeak
  BY <1>1 DEF killsocket, Reaches, Current
<1>17. ASSUME NEW u \in ServerSockets, r.sock[u].flag # "DEAD"
       PROVE  sock[u].flag # "DEAD" /\ PaidAt(Current, r, u)
  <2>1. u # s /\ u \in Sockets
    BY <1>9, <1>13, <1>17, SendQueueAssumption DEF Closed
  <2>2. r.sock[u] = st.sock[u] /\ r.sent[u] = st.sent[u]
    BY <1>13, <2>1 DEF OnlyAt
  <2>3. st.sent[u] \in Nat /\ st.sock[u].bytes \in Nat
    BY <1>11, <2>1 DEF Socket
  <2>4. PaidAt(st, r, u)
    BY <2>2, <2>3 DEF PaidAt
  <2> QED
    BY <1>1, <1>17, <2>2, <2>4 DEF Current
<1>18. \A u \in Sockets : Ahead(r.sock[u]) = 0
  BY <1>2, <1>13, <1>14 DEF OnlyAt
<1>19. Older(r, nextid)
  <2> SUFFICES ASSUME NEW u \in Sockets PROVE Below(r.sock[u].sendq, r.wire[u], nextid)
    BY DEF Older
  <2>1. CASE u = s
    BY <1>7, <1>9, <1>13, <2>1 DEF Closed
  <2>2. CASE u # s
    BY <1>2, <1>13, <2>2 DEF OnlyAt, Older
  <2> QED
    BY <2>1, <2>2
<1>20. PassOK' /\ nextid' = nextid
  BY <1>2 DEF killsocket, PassOK
<1>21. leaks' \in [ServerSockets -> Nat] /\ Owed'
  BY <1>12, <1>16, <1>17, OwedStep
<1> QED
  BY <1>2, <1>12, <1>15, <1>16, <1>18, <1>19, <1>20, <1>21, ReachesInv

(* writesock_URGENT() and writesock_DELAY() on a socket that is gone. *)
LEMMA StepWriteToNone ==
    ASSUME SendQueueInv, NEW s \in Sockets, WriteToNone(s)
    PROVE  SendQueueInv'
<1>1. PICK st, r : st = Current /\ r = Current'
  OBVIOUS
<1>2. /\ st \in State /\ AllOK(st) /\ TypeOK /\ PassOK
      /\ Older(st, nextid) /\ nextid \in Nat
      /\ \A u \in Sockets : Ahead(st.sock[u]) = 0
  BY <1>1, InvFacts
<1>3. /\ r.sock = st.sock /\ r.wire = st.wire /\ r.sent = st.sent /\ r.urgent = 1
  BY <1>1 DEF WriteToNone, Current
<1>4. r \in State
  <2>1. r = [sock |-> r.sock, urgent |-> r.urgent, wire |-> r.wire, sent |-> r.sent]
    BY <1>1 DEF Current
  <2> QED
    BY <1>2, <1>3, <2>1 DEF State
<1>5. AllOK(r)
  BY <1>2, <1>3 DEF AllOK
<1>6. Settled(st, r, nextid)
  <2>1. Paid(st, r)
    BY <1>2, <1>3, PaidSame
  <2>2. Keeps(st, r, Sockets, nextid)
    BY <1>3, Zenon DEF Keeps
  <2> QED
    BY <1>4, <1>5, <2>1, <2>2 DEF Settled
<1>7. st.sock = sock /\ st.sent = sent /\ st.urgent = urgent
  BY <1>1 DEF Current
<1>8. Become(r) /\ nextid' = nextid + 1 /\ UNCHANGED pass
  BY <1>1 DEF WriteToNone, Become, Current
<1> QED
  BY <1>2, <1>6, <1>7, <1>8, SettledInv

(* A socket that has just been made. *)
Blank(s, l) ==
    /\ l \in Socket /\ l.flag = "SYN" /\ l.sendq = <<>> /\ l.entrys = 0
    /\ l.serversocket <=> s \in ServerSockets
    /\ l.stoned = 0 /\ l.bytes = 0

LEMMA BlankSocket ==
    ASSUME NEW s
    PROVE  Blank(s, NewSocket("SYN", s \in ServerSockets))
<1>1. PICK e, b : e = <<>> /\ b = (s \in ServerSockets)
  OBVIOUS
<1>2. e \in Seq(Message) /\ b \in BOOLEAN
  BY <1>1
<1>3. PICK l : l = [flag |-> "SYN", sendq |-> e, entrys |-> 0, serversocket |-> b,
                    stoned |-> 0, bytes |-> 0]
  OBVIOUS
<1>4. l = NewSocket("SYN", s \in ServerSockets)
  BY <1>1, <1>3, Zenon DEF NewSocket
<1>5. l \in Socket
  BY <1>2, <1>3 DEF Socket
<1>6. /\ l.flag = "SYN" /\ l.sendq = e /\ l.entrys = 0 /\ l.serversocket = b
      /\ l.stoned = 0 /\ l.bytes = 0
  BY <1>3
<1> QED
  BY <1>1, <1>4, <1>5, <1>6, Zenon DEF Blank

LEMMA BlankFacts ==
    ASSUME NEW s, NEW l, NEW w, Blank(s, l), UniqueIds(w)
    PROVE  SocketOK(s, l, w) /\ Ahead(l) = 0 /\ DOMAIN l.sendq = {}
<1>1. PICK e : e = l.sendq
  OBVIOUS
<1>2. DOMAIN e = {} /\ Len(e) = 0
  BY <1>1 DEF Blank
<1>3. Distinct(e, w)
  BY <1>2 DEF Distinct, UniqueIds
<1>4. OriginOK(l)
  BY <1>1, <1>2 DEF OriginOK
<1>5. FloodOK(s, l)
  BY SendQueueAssumption DEF Blank, FloodOK
<1>6. Ahead(l) = 0
  <2>1. l.entrys = 0
    BY DEF Blank
  <2>2. l.entrys - Len(e) = 0
    BY <1>2, <2>1
  <2> QED
    BY <1>1, <2>2, Zenon DEF Ahead
<1> QED
  BY <1>1, <1>2, <1>3, <1>4, <1>5, <1>6 DEF SocketOK

LEMMA StepCreate ==
    ASSUME SendQueueInv, NEW s \in Sockets, createsocket(s)
    PROVE  SendQueueInv'
<1>1. PICK st, l, r, w : /\ st = Current /\ r = Current' /\ w = wire[s]
                         /\ l = NewSocket("SYN", s \in ServerSockets)
  OBVIOUS
<1>2. /\ st \in State /\ AllOK(st) /\ TypeOK /\ PassOK
      /\ Older(st, nextid) /\ nextid \in Nat
      /\ \A u \in Sockets : Ahead(st.sock[u]) = 0
  BY <1>1, InvFacts
<1>3. Blank(s, l)
  BY <1>1, BlankSocket
<1>4. /\ r.sock = [st.sock EXCEPT ![s] = l] /\ r.wire = st.wire /\ r.urgent = st.urgent
      /\ r.sent = [st.sent EXCEPT ![s] = 0]
  BY <1>1 DEF createsocket, Current
<1>5. st.sock \in [Sockets -> Socket] /\ st.sent \in [Sockets -> Nat]
  BY <1>2 DEF State
<1>6. r \in State
  <2>1. /\ r.sock \in [Sockets -> Socket] /\ r.sent \in [Sockets -> Nat]
        /\ r.wire \in [Sockets -> Seq(Message)] /\ r.urgent \in {0, 1}
    BY <1>2, <1>3, <1>4, <1>5 DEF State, Blank
  <2>2. r = [sock |-> r.sock, urgent |-> r.urgent, wire |-> r.wire, sent |-> r.sent]
    BY <1>1 DEF Current
  <2> QED
    BY <2>1, <2>2 DEF State
<1>7. r.sock[s] = l /\ r.sent[s] = 0 /\ OnlyAt(st, r, s)
  BY <1>4, <1>5 DEF OnlyAt
<1>8. UniqueIds(w) /\ st.wire[s] = w
  BY <1>1, <1>2 DEF AllOK, SocketOK, Distinct, Current
<1>9. SocketOK(s, l, w) /\ Ahead(l) = 0 /\ DOMAIN l.sendq = {}
  BY <1>3, <1>8, BlankFacts
<1>10. AllOK(r)
  BY <1>2, <1>4, <1>7, <1>8, <1>9, AllButOne
<1>11. \A u \in Sockets : Ahead(r.sock[u]) = 0
  BY <1>2, <1>7, <1>9 DEF OnlyAt
<1>12. Older(r, nextid)
  <2> SUFFICES ASSUME NEW u \in Sockets PROVE Below(r.sock[u].sendq, r.wire[u], nextid)
    BY DEF Older
  <2>1. Below(st.sock[u].sendq, st.wire[u], nextid)
    BY <1>2 DEF Older
  <2>2. CASE u = s
    BY <1>4, <1>7, <1>9, <2>1, <2>2 DEF Below
  <2>3. CASE u # s
    BY <1>7, <2>1, <2>3 DEF OnlyAt
  <2> QED
    BY <2>2, <2>3
<1>13. PassOK' /\ nextid' = nextid
  BY <1>2 DEF createsocket, PassOK
<1>14. Reaches(r) /\ Restart({s}) /\ r.urgent = urgent
  BY <1>1 DEF createsocket, Reaches, Current
<1>15. ASSUME NEW u \in ServerSockets
       PROVE  IF u \in {s} THEN r.sent[u] = 0
              ELSE /\ r.sent[u] = sent[u] /\ r.sock[u].bytes = sock[u].bytes
                   /\ r.sock[u].flag # "DEAD" => sock[u].flag # "DEAD"
  <2>1. u \in Sockets
    BY SendQueueAssumption
  <2>2. u # s => r.sent[u] = sent[u] /\ r.sock[u] = sock[u]
    BY <1>1, <1>7, <2>1 DEF OnlyAt, Current
  <2> QED
    BY <1>7, <2>2
<1>16. leaks' \in [ServerSockets -> Nat] /\ Owed'
  BY <1>6, <1>14, <1>15, OwedRestart
<1> QED
  BY <1>2, <1>6, <1>10, <1>11, <1>12, <1>13, <1>14, <1>16, ReachesInv

LEMMA InitInv ==
    ASSUME Init
    PROVE  SendQueueInv
<1>1. PICK e : e = <<>>
  OBVIOUS
<1>2. e \in Seq(Message) /\ DOMAIN e = {} /\ Len(e) = 0
  BY <1>1
<1>3. PICK st : st = Current
  OBVIOUS
<1>4. urgent = 0 /\ nextid = 1 /\ \A s \in Sockets : wire[s] = e /\ sent[s] = 0
  BY <1>1 DEF Init
<1>5. ASSUME NEW s \in Sockets
      PROVE  /\ sock[s] \in Socket
             /\ sock[s].sendq = e /\ sock[s].entrys = 0
             /\ sock[s].stoned = 0 /\ sock[s].bytes = 0
             /\ sock[s].serversocket = FALSE
             /\ sock[s].flag = IF s \in OutgoingSockets THEN "DEAD" ELSE "CONN"
  <2>1. PICK f : f = IF s \in OutgoingSockets THEN "DEAD" ELSE "CONN"
    OBVIOUS
  <2>2. f \in {"SYN", "CONN", "DEAD"}
    BY <2>1
  <2>3. sock[s] = [flag |-> f, sendq |-> e, entrys |-> 0, serversocket |-> FALSE,
                   stoned |-> 0, bytes |-> 0]
    BY <1>1, <2>1, Zenon DEF Init, NewSocket
  <2>4. sock[s] \in Socket
    BY <1>2, <2>2, <2>3 DEF Socket
  <2>5. /\ sock[s].sendq = e /\ sock[s].entrys = 0 /\ sock[s].serversocket = FALSE
        /\ sock[s].stoned = 0 /\ sock[s].bytes = 0 /\ sock[s].flag = f
    BY <2>3
  <2> QED
    BY <2>1, <2>4, <2>5, Zenon
<1>6. TypeOK
  <2>1. sock \in [Sockets -> Socket]
    BY <1>5 DEF Init
  <2>2. wire \in [Sockets -> Seq(Message)] /\ sent \in [Sockets -> Nat]
    BY <1>1, <1>2 DEF Init
  <2> QED
    BY <2>1, <2>2 DEF Init, TypeOK
<1>7. EntrysExact
  BY <1>2, <1>5 DEF EntrysExact
<1>8. st \in State
  BY <1>3, <1>6 DEF TypeOK, State, Current
<1>9. st.sock = sock /\ st.wire = wire /\ st.sent = sent /\ st.urgent = urgent
  BY <1>3 DEF Current
<1>10. AllOK(st)
  <2> SUFFICES ASSUME NEW s \in Sockets PROVE SocketOK(s, sock[s], wire[s])
    BY <1>9 DEF AllOK
  <2>1. PICK k : k = sock[s]
    OBVIOUS
  <2>2. /\ k.sendq = e /\ k.stoned = 0 /\ k.bytes = 0
        /\ k.serversocket = FALSE
        /\ k.flag = IF s \in OutgoingSockets THEN "DEAD" ELSE "CONN"
    BY <1>5, <2>1, Zenon
  <2>3. Distinct(e, e)
    BY <1>2 DEF Distinct, UniqueIds
  <2>4. OriginOK(k)
    BY <1>2, <2>2 DEF OriginOK
  <2>5. FloodOK(s, k)
    BY <2>2, SendQueueAssumption DEF FloodOK
  <2> QED
    BY <1>4, <2>1, <2>2, <2>3, <2>4, <2>5 DEF SocketOK
<1>11. Owed
  <2> SUFFICES ASSUME Ordinary, NEW s \in ServerSockets PROVE OwedAt(s)
    BY DEF Owed
  <2>1. s \in OutgoingSockets /\ s \in Sockets
    BY SendQueueAssumption
  <2>2. sock[s].flag = "DEAD"
    BY <1>5, <2>1
  <2>3. urgent = 0 /\ leaks[s] = 0
    BY DEF Init
  <2> QED
    BY <2>2, <2>3 DEF OwedAt
<1>12. Older(st, nextid)
  <2>1. Below(e, e, nextid)
    BY <1>2 DEF Below
  <2> QED
    BY <1>4, <1>5, <1>9, <2>1 DEF Older
<1> QED
  BY <1>3, <1>6, <1>7, <1>8, <1>10, <1>11, <1>12 DEF SendQueueInv, Sound

LEMMA StepInv ==
    ASSUME SendQueueInv, [Next]_vars
    PROVE  SendQueueInv'
<1>1. ASSUME NEW s \in Sockets, NEW len \in Lengths, Write(s, len) PROVE SendQueueInv'
  BY <1>1, StepWrite
<1>2. ASSUME NEW s \in Sockets, NEW len \in Lengths, WriteUrgent(s, len) PROVE SendQueueInv'
  BY <1>2, StepWriteUrgent
<1>3. ASSUME NEW s \in Sockets, NEW len \in Lengths, WriteDelay(s, len, ConnectDelay)
      PROVE  SendQueueInv'
  BY <1>3, StepWriteDelay
<1>4. ASSUME NEW s \in Sockets, Connected(s) PROVE SendQueueInv'
  BY <1>4, StepConnected
<1>5. ASSUME NEW inc \in {0, 1}, Pass(inc) PROVE SendQueueInv'
  BY <1>5, StepPass
<1>6. ASSUME NEW s \in Sockets, Flush(s) PROVE SendQueueInv'
  BY <1>6, StepFlush
<1>7. ASSUME NEW s \in Sockets, Pong(s) PROVE SendQueueInv'
  BY <1>7, StepPong
<1>8. ASSUME NEW s \in Sockets, killsocket(s) PROVE SendQueueInv'
  BY <1>8, StepKill
<1>9. ASSUME NEW s \in Sockets, WriteToNone(s) PROVE SendQueueInv'
  BY <1>9, StepWriteToNone
<1>10. ASSUME NEW s \in Sockets, createsocket(s) PROVE SendQueueInv'
  BY <1>10, StepCreate
<1>11. CASE UNCHANGED vars
  <2>1. /\ sock' = sock /\ urgent' = urgent /\ pass' = pass /\ nextid' = nextid
        /\ wire' = wire /\ sent' = sent /\ leaks' = leaks
    BY <1>11 DEF vars
  <2>2. Current' = Current /\ TypeOK' /\ EntrysExact' /\ Owed'
    BY <2>1 DEF Current, SendQueueInv, TypeOK, EntrysExact, Owed, OwedAt
  <2> QED
    BY <2>1, <2>2 DEF SendQueueInv
<1> QED
  BY <1>1, <1>2, <1>3, <1>4, <1>5, <1>6, <1>7, <1>8, <1>9, <1>10, <1>11 DEF Next

-----------------------------------------------------------------------------
(* What the invariant says *)

LEMMA InvConsistent ==
    ASSUME SendQueueInv
    PROVE  Consistent
<1>1. TypeOK /\ EntrysExact /\ AllOK(Current)
  BY DEF SendQueueInv, Sound
<1>2. ASSUME NEW s \in Sockets
      PROVE  IsInjective(Ids(wire[s]) \o Ids(Nonempty(sock[s].sendq)))
  <2>1. PICK q, w, o : q = sock[s].sendq /\ w = wire[s] /\ o = Nonempty(q)
    OBVIOUS
  <2>2. q \in Seq(Message) /\ w \in Seq(Message) /\ Distinct(q, w)
    BY <1>1, <2>1 DEF TypeOK, Socket, AllOK, SocketOK, Current
  <2>3. /\ o \in Seq(Message) /\ UniqueIds(o)
        /\ \A i \in DOMAIN o : \E j \in DOMAIN q : q[j] = o[i]
    BY <2>1, <2>2, NonemptyFacts DEF Distinct
  <2>4. /\ Len(w) \in Nat /\ Len(o) \in Nat /\ DOMAIN w = 1 .. Len(w) /\ DOMAIN o = 1 .. Len(o)
        /\ \A i \in DOMAIN w : w[i].id \in Nat
        /\ \A i \in DOMAIN o : o[i].id \in Nat
    <3>1. /\ \A i \in DOMAIN w : w[i] \in Message
          /\ \A i \in DOMAIN o : o[i] \in Message
      BY <2>2, <2>3
    <3> QED
      BY <2>2, <2>3, <3>1 DEF Message
  <2>5. PICK a, b : a = Ids(w) /\ b = Ids(o)
    OBVIOUS
  <2>6. /\ a \in Seq(Nat) /\ Len(a) = Len(w) /\ \A i \in 1 .. Len(w) : a[i] = w[i].id
        /\ b \in Seq(Nat) /\ Len(b) = Len(o) /\ \A i \in 1 .. Len(o) : b[i] = o[i].id
    <3>1. a = [i \in 1 .. Len(w) |-> w[i].id] /\ b = [i \in 1 .. Len(o) |-> o[i].id]
      BY <2>4, <2>5 DEF Ids
    <3> QED
      BY <2>4, <3>1
  <2>7. PICK v : v = a \o b
    OBVIOUS
  <2>8. /\ DOMAIN v = 1 .. Len(w) + Len(o)
        /\ \A i \in 1 .. Len(w) + Len(o) : v[i] = IF i <= Len(w) THEN a[i] ELSE b[i - Len(w)]
    <3>1. v \in Seq(Nat) /\ Len(v) = Len(a) + Len(b)
      <4>1. a \in Seq(Nat) /\ b \in Seq(Nat)
        BY <2>6
      <4> QED
        BY <2>7, <4>1, ConcatProperties
    <3>2. \A i \in 1 .. Len(a) + Len(b) : v[i] = IF i <= Len(a) THEN a[i] ELSE b[i - Len(a)]
      BY <2>6, <2>7
    <3>3. DOMAIN v = 1 .. Len(v)
      BY <3>1
    <3> QED
      BY <2>6, <3>1, <3>2, <3>3
  <2>9. \A i \in DOMAIN o, j \in DOMAIN w : o[i].id # w[j].id
    BY <2>2, <2>3 DEF Distinct
  <2>10. \A i \in DOMAIN v : \/ i \in DOMAIN w /\ v[i] = w[i].id
                             \/ i - Len(w) \in DOMAIN o /\ v[i] = o[i - Len(w)].id /\ i \in Int
    <3> TAKE i \in DOMAIN v
    <3>1. i \in 1 .. Len(w) + Len(o)
      BY <2>8
    <3>2. CASE i <= Len(w)
      <4>1. i \in 1 .. Len(w)
        BY <2>4, <3>1, <3>2
      <4> QED
        BY <2>4, <2>6, <2>8, <3>1, <3>2, <4>1
    <3>3. CASE ~ (i <= Len(w))
      <4>1. i - Len(w) \in 1 .. Len(o) /\ i \in Int
        BY <2>4, <3>1, <3>3
      <4> QED
        BY <2>4, <2>6, <2>8, <3>1, <3>3, <4>1
    <3> QED
      BY <3>2, <3>3
  <2>11. ASSUME NEW i \in DOMAIN v, NEW j \in DOMAIN v, v[i] = v[j] PROVE i = j
    <3>1. CASE i \in DOMAIN w /\ v[i] = w[i].id /\ j \in DOMAIN w /\ v[j] = w[j].id
      BY <2>2, <2>11, <3>1 DEF Distinct, UniqueIds
    <3>2. CASE /\ i - Len(w) \in DOMAIN o /\ v[i] = o[i - Len(w)].id /\ i \in Int
               /\ j - Len(w) \in DOMAIN o /\ v[j] = o[j - Len(w)].id /\ j \in Int
      <4>1. i - Len(w) = j - Len(w)
        BY <2>3, <2>11, <3>2 DEF UniqueIds
      <4> QED
        BY <2>4, <3>2, <4>1
    <3> QED
      BY <2>9, <2>10, <2>11, <3>1, <3>2
  <2>12. IsInjective(v)
    BY <2>11 DEF IsInjective
  <2> QED
    BY <2>1, <2>5, <2>7, <2>12
<1> QED
  BY <1>1, <1>2 DEF Consistent, WrittenOnce

LEMMA InvFloodLimited ==
    ASSUME SendQueueInv
    PROVE  FloodLimited
<1>1. TypeOK /\ AllOK(Current) /\ ServerSockets \subseteq Sockets /\ Limit \in Nat
  BY SendQueueAssumption DEF SendQueueInv, Sound
<1>2. ASSUME NEW s \in ServerSockets PROVE FloodOK(s, sock[s]) /\ sock[s] \in Socket
  BY <1>1 DEF AllOK, SocketOK, Current, TypeOK
<1>3. FloodBudget
  BY <1>2 DEF FloodBudget, FloodOK, Short
<1>4. StonedBacklog
  BY <1>2 DEF StonedBacklog, FloodOK
<1>5. OrdinaryTrafficLimited
  <2> SUFFICES ASSUME Ordinary, NEW s \in ServerSockets, sock[s].flag = "CONN"
               PROVE  sent[s] <= Limit + Max(Lengths) * leaks[s]
    BY DEF OrdinaryTrafficLimited, Ordinary
  <2>1. OwedAt(s) /\ s \in Sockets
    BY <1>1 DEF SendQueueInv, Owed
  <2>2. PICK M, l, d : M = Max(Lengths) /\ l = leaks[s] /\ d = l - urgent
    OBVIOUS
  <2>3. M \in Nat /\ l \in Nat /\ urgent \in {0, 1} /\ urgent <= l
    BY <1>1, <2>1, <2>2, MaxLength DEF TypeOK, OwedAt
  <2>4. sent[s] \in Nat /\ sock[s].bytes \in Nat
    BY <1>1, <2>1 DEF TypeOK, Socket
  <2>5. sent[s] <= sock[s].bytes + M * d
    BY <2>1, <2>2 DEF OwedAt
  <2>6. d \in Nat /\ l = d + urgent
    BY <2>2, <2>3
  <2>7. M * l = M * d + M * urgent /\ M * d \in Nat /\ M * urgent \in Nat
    <3>1. M * (d + urgent) = M * d + M * urgent
      BY <2>3, <2>6
    <3>2. M * d \in Nat
      BY <2>3, <2>6
    <3>3. M * urgent \in Nat
      BY <2>3
    <3> QED
      BY <2>6, <3>1, <3>2, <3>3
  <2>8. sock[s].bytes <= Limit
    <3>1. Short
      BY <1>1, SendQueueAssumption DEF Short, Ordinary
    <3> QED
      BY <1>2, <3>1 DEF FloodOK
  <2>9. PICK x, y : x = M * d /\ y = M * urgent
    OBVIOUS
  <2>10. sent[s] <= Limit + (x + y)
    BY <1>1, <2>4, <2>5, <2>7, <2>8, <2>9
  <2> QED
    BY <2>2, <2>7, <2>9, <2>10
<1> QED
  BY <1>3, <1>4, <1>5 DEF FloodLimited

(* The strengthened invariant: every queue, wire and counter agree, and what *)
(* has gone past the flood protection is paid for by a call that left        *)
(* `urgent` set (writesock, addq and flushsendq of p_socket.c).              *)
THEOREM Invariance == Spec => []SendQueueInv
<1>1. Init => SendQueueInv
  BY InitInv
<1>2. SendQueueInv /\ [Next]_vars => SendQueueInv'
  BY StepInv
<1> QED
  BY <1>1, <1>2, PTL DEF Spec

(* entrys is the length of sendq, whichever of writesock, addq on a group,   *)
(* a forced flush and killsocket ran, and no socket gets a message twice.    *)
THEOREM QueuesConsistent == Spec => []Consistent
<1>1. SendQueueInv => Consistent
  BY InvConsistent
<1> QED
  BY <1>1, Invariance, PTL

(* The flood protection of flushsendq: what a server is sent between two     *)
(* answers exceeds the limit by at most one line for each call, on whatever  *)
(* socket, that left the flag urgent set: an empty line of a new connection  *)
(* of any kind that was flushed, or a write to a socket that is gone.        *)
THEOREM FloodIsLimited == Spec => []FloodLimited
<1>1. SendQueueInv => FloodLimited
  BY InvFloodLimited
<1> QED
  BY <1>1, Invariance, PTL

-----------------------------------------------------------------------------
(* The order of what is written *)

(* Nonempty of a longer list. *)
LEMMA NonemptyAppend ==
    ASSUME NEW q \in Seq(Message), NEW m \in Message
    PROVE  Nonempty(Append(q, m)) = IF m.len > 0 THEN Append(Nonempty(q), m) ELSE Nonempty(q)
<1>1. PICK p : p = Append(q, m)
  OBVIOUS
<1>2. /\ p \in Seq(Message) /\ Len(p) = Len(q) + 1 /\ Len(q) \in Nat
      /\ \A i \in 1 .. Len(q) : p[i] = q[i]
      /\ p[Len(q) + 1] = m
  BY <1>1, AppendFacts
<1>3. PICK g : /\ g \in [0 .. Len(q) -> Seq(Message)] /\ g[0] = <<>>
               /\ \A i \in 1 .. Len(q) :
                    g[i] = IF q[i].len > 0 THEN Append(g[i - 1], q[i]) ELSE g[i - 1]
               /\ Nonempty(q) = g[Len(q)]
  BY NonemptyFunction
<1>4. PICK h : /\ h \in [0 .. Len(p) -> Seq(Message)] /\ h[0] = <<>>
               /\ \A i \in 1 .. Len(p) :
                    h[i] = IF p[i].len > 0 THEN Append(h[i - 1], p[i]) ELSE h[i - 1]
               /\ Nonempty(p) = h[Len(p)]
  BY <1>2, NonemptyFunction
<1> DEFINE T == {n \in Nat : n <= Len(q) => h[n] = g[n]}
<1>5. 0 \in T
  BY <1>3, <1>4
<1>6. ASSUME NEW n \in Nat, n \in T PROVE n + 1 \in T
  <2> SUFFICES ASSUME n + 1 <= Len(q) PROVE h[n + 1] = g[n + 1]
    BY DEF T
  <2>1. /\ n + 1 \in 1 .. Len(q) /\ n + 1 \in 1 .. Len(p) /\ (n + 1) - 1 = n /\ h[n] = g[n]
    BY <1>2, <1>6
  <2> QED
    BY <1>2, <1>3, <1>4, <2>1
<1>7. h[Len(q)] = g[Len(q)]
  <2>1. \A n \in Nat : n \in T
    <3> HIDE DEF T
    <3> QED
      BY <1>5, <1>6, NatSetInduction
  <2> QED
    BY <1>2, <2>1
<1>8. Len(p) \in 1 .. Len(p) /\ Len(p) - 1 = Len(q) /\ p[Len(p)] = m
  BY <1>2
<1>9. h[Len(p)] = IF m.len > 0 THEN Append(h[Len(q)], m) ELSE h[Len(q)]
  BY <1>4, <1>8
<1> QED
  BY <1>1, <1>3, <1>4, <1>7, <1>9

LEMMA NonemptyNone == Nonempty(<<>>) = <<>>
<1>1. PICK q : q = <<>>
  OBVIOUS
<1>2. q \in Seq(Message) /\ Len(q) = 0
  BY <1>1
<1>3. Nonempty(q) = <<>>
  BY <1>2, NonemptyFunction
<1> QED
  BY <1>1, <1>3

(* The first n messages of a list. *)
First(q, n) == SubSeq(q, 1, n)

LEMMA FirstFacts ==
    ASSUME NEW q \in Seq(Message), NEW n \in 0 .. Len(q)
    PROVE  /\ First(q, n) \in Seq(Message)
           /\ n = 0 => First(q, n) = <<>>
           /\ n = Len(q) => First(q, n) = q
           /\ n < Len(q) => First(q, n + 1) = Append(First(q, n), q[n + 1])
BY DEF First

(* q and w are a queue and what its socket has written, q2 and w2 the same   *)
(* later, when the first n messages of q have been taken off.                *)
Served(q, w, q2, w2, n) ==
    /\ n \in 0 .. Len(q)
    /\ Len(w) + Len(Nonempty(First(q, n))) <= Len(w2)
    /\ \A i \in DOMAIN Nonempty(First(q, n)) :
         w2[Len(w) + i].id = Nonempty(First(q, n))[i].id
    /\ n < Len(q) => Len(w2) = Len(w) + Len(Nonempty(First(q, n)))
    /\ Len(q) <= Len(q2) + n
    /\ \A i \in 1 .. Len(q) - n : q2[i].id = q[i + n].id /\ q2[i].len = q[i + n].len

LEMMA ServedNone ==
    ASSUME NEW q \in Seq(Message), NEW w \in Seq(Message)
    PROVE  Served(q, w, q, w, 0)
<1>1. PICK z, o : z = 0 /\ o = Nonempty(First(q, z))
  OBVIOUS
<1>2. z \in 0 .. Len(q)
  BY <1>1
<1>3. o = <<>>
  BY <1>1, <1>2, FirstFacts, NonemptyNone
<1>4. Len(o) = 0 /\ DOMAIN o = {}
  BY <1>3
<1>5. Served(q, w, q, w, z)
  BY <1>1, <1>2, <1>4 DEF Served
<1> QED
  BY <1>1, <1>5

LEMMA ServedRedelayed ==
    ASSUME NEW q \in Seq(Message), NEW w \in Seq(Message), NEW a \in Seq(Message), NEW v, NEW n,
           Served(q, w, a, v, n), NEW b, Redelayed(a, b)
    PROVE  Served(q, w, b, v, n)
<1>1. /\ n \in 0 .. Len(q) /\ Len(q) <= Len(a) + n /\ Len(b) = Len(a) /\ n \in Nat
      /\ \A i \in 1 .. Len(a) : b[i].id = a[i].id /\ b[i].len = a[i].len
  BY DEF Served, Redelayed
<1>2. \A i \in 1 .. Len(q) - n : i \in 1 .. Len(a)
  BY <1>1
<1> QED
  BY <1>1, <1>2 DEF Served

LEMMA ServedAppend ==
    ASSUME NEW q \in Seq(Message), NEW w \in Seq(Message), NEW a \in Seq(Message), NEW v, NEW n,
           Served(q, w, a, v, n), NEW m \in Message, NEW b, b = Append(a, m)
    PROVE  Served(q, w, b, v, n)
<1>1. /\ n \in 0 .. Len(q) /\ Len(q) <= Len(a) + n /\ Len(b) = Len(a) + 1 /\ n \in Nat
      /\ \A i \in 1 .. Len(a) : b[i] = a[i]
  BY AppendFacts DEF Served
<1>2. \A i \in 1 .. Len(q) - n : i \in 1 .. Len(a)
  BY <1>1
<1>3. Len(q) <= Len(b) + n
  BY <1>1
<1> QED
  BY <1>1, <1>2, <1>3 DEF Served

(* The first message is taken off, and written unless it is empty. *)
LEMMA ServedPop ==
    ASSUME NEW q \in Seq(Message), NEW w \in Seq(Message), NEW a \in Seq(Message),
           NEW v \in Seq(Message), NEW n, Served(q, w, a, v, n), a # <<>>,
           NEW u, u = IF Head(a).len = 0 THEN v ELSE Append(v, Head(a))
    PROVE  \E k : Served(q, w, Tail(a), u, k)
<1>1. PICK m, b, o : m = Head(a) /\ b = Tail(a) /\ o = Nonempty(First(q, n))
  OBVIOUS
<1>2. /\ b \in Seq(Message) /\ Len(b) = Len(a) - 1 /\ Len(a) \in Nat /\ Len(a) >= 1
      /\ \A i \in 1 .. Len(a) - 1 : b[i] = a[i + 1]
      /\ m = a[1] /\ m \in Message
  BY <1>1, TailFacts
<1>3. /\ n \in 0 .. Len(q) /\ n \in Nat /\ Len(q) \in Nat /\ Len(w) \in Nat
      /\ Len(w) + Len(o) <= Len(v)
      /\ \A i \in DOMAIN o : v[Len(w) + i].id = o[i].id
      /\ n < Len(q) => Len(v) = Len(w) + Len(o)
      /\ Len(q) <= Len(a) + n
      /\ \A i \in 1 .. Len(q) - n : a[i].id = q[i + n].id /\ a[i].len = q[i + n].len
  BY <1>1 DEF Served
<1>4. First(q, n) \in Seq(Message) /\ o \in Seq(Message) /\ Len(o) \in Nat
      /\ DOMAIN o = 1 .. Len(o)
  BY <1>1, <1>3, FirstFacts, NonemptyFacts
<1>5. m.len \in Nat
  BY <1>2 DEF Message
<1>6. /\ Len(v) <= Len(u) /\ Len(u) \in Nat /\ Len(v) \in Nat
      /\ \A i \in 1 .. Len(v) : u[i] = v[i]
      /\ m.len = 0 => Len(u) = Len(v)
      /\ m.len # 0 => Len(u) = Len(v) + 1 /\ u[Len(v) + 1] = m
  <2>1. CASE m.len = 0
    BY <1>1, <2>1
  <2>2. CASE m.len # 0
    <3>1. u = Append(v, m)
      BY <1>1, <2>2
    <3> QED
      BY <1>2, <2>2, <3>1, AppendFacts
  <2> QED
    BY <2>1, <2>2
<1>7. \A i \in 1 .. Len(o) : u[Len(w) + i].id = o[i].id
  <2>1. \A i \in 1 .. Len(o) : Len(w) + i \in 1 .. Len(v)
    BY <1>3, <1>4, <1>6
  <2> QED
    BY <1>3, <1>4, <1>6, <2>1
<1>8. CASE n = Len(q)
  <2>1. 1 .. Len(q) - n = {}
    BY <1>3, <1>8
  <2>2. Len(w) + Len(o) <= Len(u) /\ ~(n < Len(q)) /\ Len(q) <= Len(b) + n
    BY <1>2, <1>3, <1>4, <1>6, <1>8
  <2>3. Served(q, w, b, u, n)
    BY <1>1, <1>3, <1>4, <1>7, <2>1, <2>2 DEF Served
  <2> QED
    BY <1>1, <2>3
<1>9. CASE n < Len(q)
  <2>1. PICK k, p : k = n + 1 /\ p = Nonempty(First(q, k))
    OBVIOUS
  <2>2. q[n + 1] \in Message /\ First(q, k) = Append(First(q, n), q[n + 1])
    BY <1>3, <1>9, <2>1, FirstFacts
  <2>3. p = IF q[n + 1].len > 0 THEN Append(o, q[n + 1]) ELSE o
    BY <1>1, <1>4, <2>1, <2>2, NonemptyAppend
  <2>4. m.id = q[n + 1].id /\ m.len = q[n + 1].len
    <3>1. 1 \in 1 .. Len(q) - n /\ 1 + n = n + 1
      BY <1>3, <1>9
    <3> QED
      BY <1>2, <1>3, <3>1
  <2>5. /\ Len(u) = Len(w) + Len(p) /\ DOMAIN p = 1 .. Len(p) /\ Len(p) \in Nat
        /\ \A i \in 1 .. Len(p) : u[Len(w) + i].id = p[i].id
    <3>1. CASE m.len = 0
      <4>1. p = o
        BY <2>3, <2>4, <3>1
      <4> QED
        BY <1>3, <1>4, <1>6, <1>7, <1>9, <3>1, <4>1
    <3>2. CASE m.len # 0
      <4>1. p = Append(o, q[n + 1])
        BY <1>5, <2>3, <2>4, <3>2
      <4>2. /\ Len(p) = Len(o) + 1 /\ DOMAIN p = 1 .. Len(o) + 1
            /\ \A i \in 1 .. Len(o) : p[i] = o[i]
            /\ p[Len(o) + 1] = q[n + 1]
        BY <1>4, <2>2, <4>1, AppendFacts
      <4>3. Len(u) = Len(w) + Len(p) /\ Len(w) + (Len(o) + 1) = Len(v) + 1
        BY <1>3, <1>4, <1>6, <1>9, <3>2, <4>2
      <4>4. ASSUME NEW i \in 1 .. Len(p) PROVE u[Len(w) + i].id = p[i].id
        <5>1. CASE i = Len(o) + 1
          BY <1>6, <2>4, <3>2, <4>2, <4>3, <5>1
        <5>2. CASE i # Len(o) + 1
          <6>1. i \in 1 .. Len(o)
            BY <1>4, <4>2, <5>2
          <6> QED
            BY <1>7, <4>2, <6>1
        <5> QED
          BY <5>1, <5>2
      <4>5. DOMAIN p = 1 .. Len(p) /\ Len(p) \in Nat
        BY <1>4, <4>2
      <4> QED
        BY <4>3, <4>4, <4>5
    <3> QED
      BY <3>1, <3>2
  <2>6. k \in 0 .. Len(q) /\ Len(q) <= Len(b) + k
    BY <1>2, <1>3, <1>9, <2>1
  <2>7. ASSUME NEW i \in 1 .. Len(q) - k
        PROVE  b[i].id = q[i + k].id /\ b[i].len = q[i + k].len
    <3>1. i \in 1 .. Len(a) - 1 /\ i + 1 \in 1 .. Len(q) - n /\ (i + 1) + n = i + k
      BY <1>2, <1>3, <1>9, <2>1
    <3>2. b[i] = a[i + 1]
      BY <1>2, <3>1
    <3> QED
      BY <1>3, <3>1, <3>2
  <2>8. Served(q, w, b, u, k)
    <3>1. p = Nonempty(First(q, k))
      BY <2>1
    <3>2. Len(w) + Len(p) <= Len(u) /\ (k < Len(q) => Len(u) = Len(w) + Len(p))
      BY <1>6, <2>5
    <3>3. \A i \in DOMAIN p : u[Len(w) + i].id = p[i].id
      BY <2>5
    <3> QED
      BY <2>6, <2>7, <3>1, <3>2, <3>3, Zenon DEF Served
  <2> QED
    BY <1>1, <2>8
<1> QED
  BY <1>3, <1>8, <1>9

(* From st to r every socket has served its queue in order. *)
AllServed(st, r) ==
    \A u \in Sockets :
       \E n : Served(st.sock[u].sendq, st.wire[u], r.sock[u].sendq, r.wire[u], n)

Typed(st) ==
    \A u \in Sockets : st.sock[u].sendq \in Seq(Message) /\ st.wire[u] \in Seq(Message)

LEMMA StateTyped ==
    ASSUME NEW st \in State
    PROVE  Typed(st)
<1>1. \A u \in Sockets : st.sock[u] \in Socket /\ st.wire[u] \in Seq(Message)
  BY DEF State
<1> QED
  BY <1>1 DEF Socket, Typed

LEMMA AllServedNone ==
    ASSUME NEW st \in State
    PROVE  AllServed(st, st)
BY StateTyped, ServedNone DEF AllServed, Typed

(* Only the queue and the wire of one socket have changed. *)
LEMMA AllServedOne ==
    ASSUME NEW st, NEW a, NEW b, NEW s \in Sockets, AllServed(st, a), OnlyAt(a, b, s),
           \E n : Served(st.sock[s].sendq, st.wire[s], b.sock[s].sendq, b.wire[s], n)
    PROVE  AllServed(st, b)
BY Zenon DEF AllServed, OnlyAt

(* flushsendq() *)
LEMMA FlushServes ==
    ASSUME NEW st \in State, NEW a \in State, AllServed(st, a),
           NEW s \in Sockets, NEW forced \in BOOLEAN, pass.inc \in {0, 1},
           NEW r, r = flushsendq(a, s, forced)
    PROVE  r \in State /\ AllServed(st, r)
<1>1. PICK k, q, w, q0, w0 : /\ k = a.sock[s] /\ q = k.sendq /\ w = a.wire[s]
                             /\ q0 = st.sock[s].sendq /\ w0 = st.wire[s]
  OBVIOUS
<1>2. /\ k \in Socket /\ q \in Seq(Message) /\ w \in Seq(Message)
      /\ q0 \in Seq(Message) /\ w0 \in Seq(Message)
  BY <1>1, StateTyped DEF State, Typed
<1>3. PICK n : Served(q0, w0, q, w, n)
  BY <1>1 DEF AllServed
<1>4. CASE r = a
  BY <1>4
<1>5. ASSUME NEW l \in Socket, r = With(a, s, l), Redelayed(q, l.sendq)
      PROVE  r \in State /\ AllServed(st, r)
  <2>1. Replaced(a, r, s, l)
    BY <1>5, SetSocket, Zenon
  <2>2. Served(q0, w0, l.sendq, w, n)
    BY <1>2, <1>3, <1>5, ServedRedelayed
  <2>3. r \in State /\ OnlyAt(a, r, s) /\ r.sock[s] = l /\ r.wire[s] = w
    BY <1>1, <2>1 DEF Replaced
  <2> QED
    BY <1>1, <2>2, <2>3, AllServedOne
<1>6. CASE /\ k.flag = "CONN" /\ q # <<>> /\ q[1].delay > 0
           /\ r = [a EXCEPT !.sock[s].sendq[1].delay = @ - pass.inc]
  <2>1. PICK d : d = q[1].delay - pass.inc
    OBVIOUS
  <2>2. d \in Nat
    <3>1. q[1] \in Message
      BY <1>2, <1>6
    <3>2. q[1].delay \in Nat
      BY <3>1 DEF Message
    <3> QED
      BY <1>6, <2>1, <3>2
  <2>3. PICK e : e = [q EXCEPT ![1].delay = d]
    OBVIOUS
  <2>4. Redelayed(q, e)
    BY <1>2, <1>6, <2>2, <2>3, DelayFacts
  <2>5. PICK l : l = [k EXCEPT !.sendq = e]
    OBVIOUS
  <2>6. l \in Socket /\ l.sendq = e
    BY <1>2, <2>4, <2>5 DEF Socket, Redelayed
  <2>7. r = With(a, s, l)
    BY <1>1, <1>2, <1>6, <2>1, <2>3, <2>5 DEF State, Socket, With
  <2> QED
    BY <1>5, <2>4, <2>6, <2>7
<1>7. CASE k.flag = "CONN" /\ q # <<>> /\ r = [a EXCEPT !.sock[s].stoned = StoneTime]
  <2>1. StoneTime \in Nat
    BY SendQueueAssumption
  <2>2. PICK l : l = [k EXCEPT !.stoned = StoneTime]
    OBVIOUS
  <2>3. l \in Socket /\ l.sendq = q
    BY <1>1, <1>2, <2>1, <2>2 DEF Socket
  <2>4. r = With(a, s, l)
    BY <1>1, <1>7, <2>2 DEF State, With
  <2>5. Redelayed(q, l.sendq)
    BY <1>2, <2>3 DEF Redelayed
  <2> QED
    BY <1>5, <2>3, <2>4, <2>5
<1>8. CASE k.flag = "CONN" /\ q # <<>> /\ r = PopAndWrite(a, s)
  <2>1. PICK m : m = Head(q)
    OBVIOUS
  <2>2. Popped(a, r, s, m)
    BY <1>1, <1>8, <2>1, PopFacts
  <2>3. /\ r \in State /\ OnlyAt(a, r, s) /\ r.sock[s].sendq = Tail(q)
        /\ r.wire[s] = IF m.len = 0 THEN w ELSE Append(w, m)
    BY <1>1, <1>8, <2>2 DEF Popped
  <2>4. \E i : Served(q0, w0, Tail(q), r.wire[s], i)
    BY <1>2, <1>3, <1>8, <2>1, <2>3, ServedPop
  <2> QED
    BY <1>1, <2>3, <2>4, AllServedOne
<1> QED
  BY <1>1, <1>4, <1>6, <1>7, <1>8, FlushCases

(* addq() *)
LEMMA EnqueueServes ==
    ASSUME NEW st \in State, NEW c \in State, AllServed(st, c),
           NEW s \in Sockets, NEW t \in Sockets, NEW m \in Message, pass.inc \in {0, 1},
           NEW r, r = Enqueue(c, s, t, m)
    PROVE  r \in State /\ AllServed(st, r)
<1>1. PICK k, l : k = c.sock[t] /\ l = [k EXCEPT !.entrys = @ + 1]
  OBVIOUS
<1>2. k \in Socket /\ k.sendq \in Seq(Message)
  BY <1>1 DEF State, Socket
<1>3. l \in Socket /\ l.sendq = k.sendq
  BY <1>1, <1>2 DEF Socket
<1>4. PICK a : a = [c EXCEPT !.sock[t].entrys = @ + 1]
  OBVIOUS
<1>5. a = With(c, t, l)
  BY <1>1, <1>4 DEF State, With
<1>6. a \in State /\ OnlyAt(c, a, t) /\ a.sock[t].sendq = c.sock[t].sendq /\ a.wire = c.wire
  <2>1. Replaced(c, a, t, l)
    BY <1>3, <1>5, SetSocket, Zenon
  <2> QED
    BY <1>1, <1>3, <2>1 DEF Replaced
<1>7. AllServed(st, a)
  <2>1. \E n : Served(st.sock[t].sendq, st.wire[t], a.sock[t].sendq, a.wire[t], n)
    BY <1>6 DEF AllServed
  <2> QED
    BY <1>6, <2>1, AllServedOne
<1>8. PICK b : b = IF a.sock[t].entrys > MaxSendQ /\ a.sock[t].stoned = 0
                   THEN flushsendq(a, s, TRUE) ELSE a
  OBVIOUS
<1>9. r = Put(b, t, m)
  BY <1>4, <1>8 DEF Enqueue, Put
<1>10. b \in State /\ AllServed(st, b)
  BY <1>6, <1>7, <1>8, FlushServes
<1>11. PICK x, q, e, y : /\ x = b.sock[t] /\ q = x.sendq /\ e = Append(q, m)
                         /\ y = [x EXCEPT !.sendq = e]
  OBVIOUS
<1>12. x \in Socket /\ q \in Seq(Message) /\ e \in Seq(Message)
  BY <1>10, <1>11 DEF State, Socket
<1>13. y \in Socket /\ y.sendq = e
  BY <1>11, <1>12 DEF Socket
<1>14. r = With(b, t, y)
  BY <1>9, <1>10, <1>11, <1>12 DEF State, Socket, With, Put
<1>15. r \in State /\ OnlyAt(b, r, t) /\ r.sock[t].sendq = e /\ r.wire = b.wire
  <2>1. Replaced(b, r, t, y)
    BY <1>10, <1>13, <1>14, SetSocket, Zenon
  <2> QED
    BY <1>13, <2>1 DEF Replaced
<1>16. PICK n : Served(st.sock[t].sendq, st.wire[t], q, b.wire[t], n)
  BY <1>10, <1>11 DEF AllServed
<1>17. Served(st.sock[t].sendq, st.wire[t], e, b.wire[t], n)
  <2>1. st.sock[t].sendq \in Seq(Message) /\ st.wire[t] \in Seq(Message)
    BY StateTyped DEF Typed
  <2> QED
    BY <1>11, <1>12, <1>16, <2>1, ServedAppend
<1> QED
  BY <1>10, <1>15, <1>17, AllServedOne

LEMMA AddqServes ==
    ASSUME NEW st \in State, NEW s \in Sockets, NEW m \in Message, pass.inc \in {0, 1},
           NEW r, r = addq(st, s, m)
    PROVE  r \in State /\ AllServed(st, r)
<1>1. CASE GroupOf[s] = 0
  <2>1. r = Enqueue(st, s, s, m)
    BY <1>1, Zenon DEF addq
  <2> QED
    BY <2>1, AllServedNone, EnqueueServes
<1>2. CASE GroupOf[s] # 0
  <2>1. PICK h : /\ h[0] = st
                 /\ \A i \in 1 .. Len(GroupOrder) :
                      h[i] = IF GroupOf[GroupOrder[i]] = GroupOf[s]
                                /\ st.sock[GroupOrder[i]].flag # "DEAD"
                             THEN Enqueue(h[i - 1], s, GroupOrder[i], m) ELSE h[i - 1]
                 /\ r = h[Len(GroupOrder)]
    BY <1>2, AddqFunction
  <2>2. Len(GroupOrder) \in Nat /\ \A i \in 1 .. Len(GroupOrder) : GroupOrder[i] \in Sockets
    BY SendQueueAssumption
  <2> DEFINE T == {i \in Nat : i <= Len(GroupOrder) => h[i] \in State /\ AllServed(st, h[i])}
  <2>3. 0 \in T
    BY <2>1, AllServedNone
  <2>4. ASSUME NEW i \in Nat, i \in T PROVE i + 1 \in T
    <3> SUFFICES ASSUME i + 1 <= Len(GroupOrder)
                 PROVE  h[i + 1] \in State /\ AllServed(st, h[i + 1])
      BY DEF T
    <3>1. i + 1 \in 1 .. Len(GroupOrder) /\ (i + 1) - 1 = i /\ i <= Len(GroupOrder)
      BY <2>2
    <3>2. PICK t, a, b : t = GroupOrder[i + 1] /\ a = h[i] /\ b = h[i + 1]
      OBVIOUS
    <3>3. t \in Sockets /\ a \in State /\ AllServed(st, a)
      BY <2>2, <2>4, <3>1, <3>2
    <3>4. b = Enqueue(a, s, t, m) \/ b = a
      BY <2>1, <3>1, <3>2
    <3> QED
      BY <3>2, <3>3, <3>4, EnqueueServes
  <2>5. \A i \in Nat : i \in T
    <3> HIDE DEF T
    <3> QED
      BY <2>3, <2>4, NatSetInduction
  <2> QED
    BY <2>1, <2>2, <2>5
<1> QED
  BY <1>1, <1>2

LEMMA IdsPrefix ==
    ASSUME NEW a \in Seq(Message), NEW b \in Seq(Message), Len(a) <= Len(b),
           \A i \in 1 .. Len(a) : a[i].id = b[i].id
    PROVE  IsPrefix(Ids(a), Ids(b))
<1>1. PICK c, d : c = Ids(a) /\ d = Ids(b)
  OBVIOUS
<1>2. /\ DOMAIN a = 1 .. Len(a) /\ DOMAIN b = 1 .. Len(b) /\ Len(a) \in Nat /\ Len(b) \in Nat
      /\ \A i \in 1 .. Len(a) : a[i] \in Message
      /\ \A i \in 1 .. Len(b) : b[i] \in Message
  OBVIOUS
<1>3. c = [i \in 1 .. Len(a) |-> a[i].id] /\ d = [i \in 1 .. Len(b) |-> b[i].id]
  BY <1>1, <1>2 DEF Ids
<1>4. /\ \A i \in 1 .. Len(a) : a[i].id \in Nat
      /\ \A i \in 1 .. Len(b) : b[i].id \in Nat
  BY <1>2 DEF Message
<1>5. c \in Seq(Nat) /\ d \in Seq(Nat) /\ Len(c) = Len(a) /\ Len(d) = Len(b)
  BY <1>2, <1>3, <1>4
<1>6. \A i \in 1 .. Len(c) : c[i] = d[i]
  BY <1>2, <1>3, <1>5
<1>7. SubSeq(c, 1, Len(c)) = SubSeq(d, 1, Len(c))
  BY <1>2, <1>5, <1>6
<1> QED
  BY <1>1, <1>2, <1>5, <1>7 DEF IsPrefix

(* The first n messages of q are on the wire and the others in the queue. *)
InOrder(q, w, q2, w2, n) ==
    /\ n \in 0 .. Len(q)
    /\ n > 0 => /\ Len(w) + Len(Nonempty(First(q, n))) <= Len(w2)
                /\ \A i \in DOMAIN Nonempty(First(q, n)) :
                     w2[Len(w) + i].id = Nonempty(First(q, n))[i].id
    /\ Len(q) <= Len(q2) + n
    /\ \A i \in 1 .. Len(q) - n : q2[i].id = q[i + n].id

LEMMA OrderedIds ==
    ASSUME NEW q \in Seq(Message), NEW w \in Seq(Message), NEW q2 \in Seq(Message),
           NEW w2 \in Seq(Message), NEW n, InOrder(q, w, q2, w2, n)
    PROVE  /\ n > 0 => IsPrefix(Ids(Nonempty(SubSeq(q, 1, n))),
                                Ids(SubSeq(w2, Len(w) + 1, Len(w2))))
           /\ IsPrefix(Ids(SubSeq(q, n + 1, Len(q))), Ids(q2))
<1>1. /\ n \in 0 .. Len(q) /\ n \in Nat /\ Len(q) \in Nat /\ Len(w) \in Nat
      /\ Len(q2) \in Nat /\ Len(w2) \in Nat
      /\ Len(q) <= Len(q2) + n /\ \A i \in 1 .. Len(q) - n : q2[i].id = q[i + n].id
  <2>1. /\ n \in 0 .. Len(q) /\ Len(q) <= Len(q2) + n
        /\ \A i \in 1 .. Len(q) - n : q2[i].id = q[i + n].id
    BY Zenon DEF InOrder
  <2>2. Len(q) \in Nat /\ Len(w) \in Nat /\ Len(q2) \in Nat /\ Len(w2) \in Nat
    OBVIOUS
  <2>3. n \in Nat
    BY <2>1, <2>2
  <2> QED
    BY <2>1, <2>2, <2>3, Zenon
<1>2. ASSUME n > 0
      PROVE  IsPrefix(Ids(Nonempty(SubSeq(q, 1, n))), Ids(SubSeq(w2, Len(w) + 1, Len(w2))))
  <2>1. PICK o, x : o = Nonempty(First(q, n)) /\ x = SubSeq(w2, Len(w) + 1, Len(w2))
    OBVIOUS
  <2>2. o \in Seq(Message) /\ DOMAIN o = 1 .. Len(o) /\ Len(o) \in Nat
    BY <1>1, <2>1, FirstFacts, NonemptyFacts
  <2>3. /\ Len(w) + Len(o) <= Len(w2)
        /\ \A i \in 1 .. Len(o) : w2[Len(w) + i].id = o[i].id
    BY <1>2, <2>1, <2>2 DEF InOrder
  <2>4. /\ x \in Seq(Message) /\ Len(x) = Len(w2) - Len(w)
        /\ \A i \in 1 .. Len(w2) - Len(w) : x[i] = w2[Len(w) + i]
    BY <1>1, <2>1, <2>2, <2>3
  <2>5. Len(o) <= Len(x) /\ \A i \in 1 .. Len(o) : o[i].id = x[i].id
    <3>1. Len(o) <= Len(x) /\ \A i \in 1 .. Len(o) : i \in 1 .. Len(w2) - Len(w)
      BY <1>1, <2>2, <2>3, <2>4
    <3> QED
      BY <2>3, <2>4, <3>1
  <2>6. IsPrefix(Ids(o), Ids(x))
    BY <2>2, <2>4, <2>5, IdsPrefix
  <2> QED
    BY <2>1, <2>6 DEF First
<1>3. IsPrefix(Ids(SubSeq(q, n + 1, Len(q))), Ids(q2))
  <2>1. PICK x : x = SubSeq(q, n + 1, Len(q))
    OBVIOUS
  <2>2. /\ x \in Seq(Message) /\ Len(x) = Len(q) - n
        /\ \A i \in 1 .. Len(q) - n : x[i] = q[i + n]
    BY <1>1, <2>1
  <2>3. Len(x) <= Len(q2) /\ \A i \in 1 .. Len(x) : x[i].id = q2[i].id
    BY <1>1, <2>2
  <2>4. IsPrefix(Ids(x), Ids(q2))
    BY <2>2, <2>3, IdsPrefix
  <2> QED
    BY <2>1, <2>4
<1> QED
  BY <1>2, <1>3

LEMMA OrderedServes ==
    ASSUME NEW s \in Sockets, Typed(Current), Typed(Current)',
           \E n : InOrder(sock[s].sendq, wire[s], sock'[s].sendq, wire'[s], n)
    PROVE  Serves(s)
<1>1. PICK q, w, q2, w2 : /\ q = sock[s].sendq /\ w = wire[s]
                          /\ q2 = sock'[s].sendq /\ w2 = wire'[s]
  OBVIOUS
<1>2. /\ q \in Seq(Message) /\ w \in Seq(Message)
      /\ q2 \in Seq(Message) /\ w2 \in Seq(Message)
  BY <1>1 DEF Typed, Current
<1>3. PICK n : InOrder(q, w, q2, w2, n)
  BY <1>1
<1>4. n \in 0 .. Len(q)
  BY <1>3 DEF InOrder
<1>5. /\ n > 0 => IsPrefix(Ids(Nonempty(SubSeq(q, 1, n))),
                           Ids(SubSeq(w2, Len(w) + 1, Len(w2))))
      /\ IsPrefix(Ids(SubSeq(q, n + 1, Len(q))), Ids(q2))
  BY <1>2, <1>3, OrderedIds
<1> QED
  BY <1>1, <1>4, <1>5, Zenon DEF Serves

(* What a step makes of the queues. *)
Ordered(st, r) ==
    \A u \in Sockets : st.sock[u].flag = "CONN" =>
       \E n : InOrder(st.sock[u].sendq, st.wire[u], r.sock[u].sendq, r.wire[u], n)

LEMMA ServedOrdered ==
    ASSUME NEW st, NEW r, AllServed(st, r)
    PROVE  Ordered(st, r)
<1>1. ASSUME NEW q, NEW w, NEW q2, NEW w2, NEW n, Served(q, w, q2, w2, n)
      PROVE  InOrder(q, w, q2, w2, n)
  <2>1. PICK o : o = Nonempty(First(q, n))
    OBVIOUS
  <2>2. /\ n \in 0 .. Len(q) /\ Len(w) + Len(o) <= Len(w2)
        /\ \A i \in DOMAIN o : w2[Len(w) + i].id = o[i].id
        /\ Len(q) <= Len(q2) + n
        /\ \A i \in 1 .. Len(q) - n : q2[i].id = q[i + n].id
    BY <1>1, <2>1, Zenon DEF Served
  <2> QED
    BY <2>1, <2>2, Zenon DEF InOrder
<1> QED
  BY <1>1, Zenon DEF Ordered, AllServed

(* A queue that stays as it is, or differs in delays only. *)
LEMMA KeptInOrder ==
    ASSUME NEW q \in Seq(Message), NEW w, NEW d, Redelayed(q, d), NEW v
    PROVE  InOrder(q, w, d, v, 0)
<1>1. /\ Len(q) \in Nat /\ Len(d) = Len(q) /\ DOMAIN q = 1 .. Len(q)
      /\ \A i \in DOMAIN q : d[i].id = q[i].id
  BY DEF Redelayed
<1>2. /\ 0 \in 0 .. Len(q) /\ Len(q) <= Len(d) + 0
      /\ \A i \in 1 .. Len(q) - 0 : d[i].id = q[i + 0].id
  BY <1>1
<1> QED
  BY <1>2 DEF InOrder

LEMMA SameInOrder ==
    ASSUME NEW q \in Seq(Message), NEW w, NEW v
    PROVE  InOrder(q, w, q, v, 0)
<1>1. Redelayed(q, q)
  BY DEF Redelayed
<1> QED
  BY <1>1, KeptInOrder

(* writesock() queues the message or writes it past the queue. *)
LEMMA WriteOrdered ==
    ASSUME NEW st \in State, NEW s \in Sockets, NEW m \in Message, pass.inc \in {0, 1},
           NEW seen \in State, seen.sock = st.sock, seen.wire = st.wire,
           NEW r, r = IF seen.urgent = 0 THEN addq(seen, s, m) ELSE WriteNow(seen, s, m)
    PROVE  Ordered(st, r)
<1>1. CASE seen.urgent = 0
  <2>1. AllServed(seen, r)
    BY <1>1, AddqServes
  <2>2. Ordered(seen, r)
    BY <2>1, ServedOrdered
  <2> QED
    BY <2>2, Zenon DEF Ordered
<1>2. CASE seen.urgent # 0
  <2>1. Wrote(seen, r, s, m)
    BY <1>2, WriteNowFacts
  <2>2. r.sock = st.sock
    BY <2>1 DEF Wrote
  <2>3. \A u \in Sockets : st.sock[u].sendq \in Seq(Message)
    BY StateTyped DEF Typed
  <2> QED
    BY <2>2, <2>3, SameInOrder DEF Ordered
<1> QED
  BY <1>1, <1>2

(* killsocket() writes the whole queue of a connected socket. *)
LEMMA KillOrdered ==
    ASSUME SendQueueInv, NEW s \in Sockets, killsocket(s)
    PROVE  Ordered(Current, Current')
<1>1. PICK st, k, q, w, v, e :
         /\ st = Current /\ k = sock[s] /\ q = k.sendq /\ w = wire[s]
         /\ v = w \o Nonempty(q) /\ e = <<>>
  OBVIOUS
<1>2. st \in State /\ Typed(st) /\ \A u \in Sockets : Ahead(st.sock[u]) = 0
  BY <1>1, InvFacts, StateTyped
<1>3. /\ k \in Socket /\ q \in Seq(Message) /\ w \in Seq(Message) /\ Ahead(k) = 0
      /\ sock \in [Sockets -> Socket] /\ wire \in [Sockets -> Seq(Message)]
  BY <1>1, <1>2 DEF State, Current, Socket
<1>4. ASSUME NEW u \in Sockets, sock[u].flag = "CONN"
      PROVE  \E n : InOrder(sock[u].sendq, wire[u], sock'[u].sendq, wire'[u], n)
  <2>1. CASE u # s
    <3>1. sock'[u].sendq = sock[u].sendq
      BY <1>3, <2>1 DEF killsocket
    <3>2. sock[u].sendq \in Seq(Message)
      BY <1>1, <1>2 DEF Typed, Current
    <3> QED
      BY <3>1, <3>2, SameInOrder
  <2>2. CASE u = s
    <3>1. FlushedByKill(k) = q
      BY <1>1, <1>3, <1>4, <2>2, KillFlushes
    <3>2. sock'[s].sendq = e /\ wire'[s] = v
      <4>1. sock'[s].sendq = e
        BY <1>1, <1>3 DEF killsocket, Socket
      <4>2. wire'[s] = wire[s] \o Nonempty(FlushedByKill(sock[s]))
        BY <1>3 DEF killsocket
      <4> QED
        BY <1>1, <3>1, <4>1, <4>2
    <3>3. PICK o, n : o = Nonempty(q) /\ n = Len(q)
      OBVIOUS
    <3>4. o \in Seq(Message) /\ Len(o) \in Nat /\ DOMAIN o = 1 .. Len(o)
      BY <1>3, <3>3, NonemptyFacts
    <3>5. /\ Len(v) = Len(w) + Len(o)
          /\ \A i \in 1 .. Len(o) : v[Len(w) + i] = o[i]
      BY <1>1, <1>3, <3>3, <3>4
    <3>6. n \in 0 .. Len(q) /\ n \in Nat /\ First(q, n) = q
      BY <1>3, <3>3, FirstFacts
    <3>7. Len(e) = 0 /\ 1 .. Len(q) - n = {} /\ Len(q) <= Len(e) + n
      BY <1>1, <1>3, <3>3
    <3>8. InOrder(q, w, e, v, n)
      BY <1>3, <3>3, <3>4, <3>5, <3>6, <3>7 DEF InOrder
    <3> QED
      BY <1>1, <2>2, <3>2, <3>8
  <2> QED
    BY <2>1, <2>2
<1> QED
  BY <1>4, Zenon DEF Ordered, Current

LEMMA PassOrdered ==
    ASSUME SendQueueInv, NEW inc \in {0, 1}, Pass(inc)
    PROVE  Ordered(Current, Current')
<1>1. PICK st : st = Current
  OBVIOUS
<1>2. st \in State /\ Typed(st) /\ AllOK(st)
  BY <1>1, InvFacts, StateTyped
<1>3. ASSUME NEW u \in Sockets
      PROVE  InOrder(sock[u].sendq, wire[u], sock'[u].sendq, wire'[u], 0)
  <2>1. PICK l : l = IF sock[u].flag = "DEAD" THEN sock[u]
                     ELSE DelayPass(StonePass(sock[u], inc), inc)
    OBVIOUS
  <2>2. sock'[u] = l
    BY <2>1 DEF Pass
  <2>3. sock[u] \in Socket /\ SocketOK(u, sock[u], wire[u]) /\ sock[u].sendq \in Seq(Message)
    BY <1>1, <1>2 DEF State, AllOK, Current, Typed
  <2>4. Redelayed(sock[u].sendq, l.sendq)
    BY <2>1, <2>3, PassOne DEF Passed
  <2> QED
    BY <2>2, <2>3, <2>4, KeptInOrder
<1> QED
  BY <1>3, Zenon DEF Ordered, Current

(* A step that becomes r does to the queues what r does. *)
LEMMA BecomeOrdered ==
    ASSUME NEW st, st = Current, NEW r, Become(r), Ordered(st, r)
    PROVE  Ordered(Current, Current')
<1>1. sock' = r.sock /\ wire' = r.wire
  BY DEF Become
<1>2. PICK c : c = Current'
  OBVIOUS
<1>3. c.sock = r.sock /\ c.wire = r.wire
  BY <1>1, <1>2 DEF Current
<1>4. Ordered(st, c)
  BY <1>3, Zenon DEF Ordered
<1> QED
  BY <1>2, <1>4, Zenon

(* A step that leaves the queues alone. *)
LEMMA QuietOrdered ==
    ASSUME SendQueueInv, \A u \in Sockets : sock'[u].sendq = sock[u].sendq
    PROVE  Ordered(Current, Current')
<1>1. ASSUME NEW u \in Sockets
      PROVE  InOrder(sock[u].sendq, wire[u], sock'[u].sendq, wire'[u], 0)
  <2>1. sock[u].sendq \in Seq(Message)
    BY InvFacts, StateTyped DEF Typed, Current
  <2> QED
    BY <2>1, SameInOrder
<1> QED
  BY <1>1, Zenon DEF Ordered, Current

LEMMA ConnectOrdered ==
    ASSUME SendQueueInv, NEW s \in Sockets, Connected(s)
    PROVE  Ordered(Current, Current')
<1>1. PICK c, k, l, st, m, r :
        /\ c = Current /\ k = c.sock[s] /\ l = [k EXCEPT !.flag = "CONN"]
        /\ st = [Current EXCEPT !.sock[s].flag = "CONN"]
        /\ m = NewMessage(0, "connect", ConnectDelay) /\ r = addq(st, s, m)
  OBVIOUS
<1>2. c \in State /\ nextid \in Nat /\ pass.inc \in {0, 1}
  BY <1>1, InvFacts
<1>3. m \in Message
  BY <1>1, <1>2, SendQueueAssumption DEF NewMessage, Message, Apis
<1>4. k \in Socket /\ k.flag = "SYN"
  BY <1>1, <1>2 DEF State, Connected, Current
<1>5. l \in Socket
  BY <1>1, <1>4 DEF Socket
<1>6. st = With(c, s, l)
  BY <1>1, <1>2 DEF State, With
<1>7. st \in State /\ OnlyAt(c, st, s) /\ st.wire = c.wire
  <2>1. Replaced(c, st, s, l)
    BY <1>2, <1>5, <1>6, SetSocket, Zenon
  <2> QED
    BY <2>1 DEF Replaced
<1>8. Ordered(st, r)
  BY <1>1, <1>2, <1>3, <1>7, AddqServes, ServedOrdered
<1>9. Ordered(c, r)
  <2> SUFFICES ASSUME NEW u \in Sockets, c.sock[u].flag = "CONN"
               PROVE  \E n : InOrder(c.sock[u].sendq, c.wire[u], r.sock[u].sendq, r.wire[u], n)
    BY Zenon DEF Ordered
  <2>1. u # s
    BY <1>1, <1>4
  <2>2. st.sock[u] = c.sock[u]
    BY <1>7, <2>1 DEF OnlyAt
  <2> QED
    BY <1>7, <1>8, <2>2 DEF Ordered
<1>10. Become(r)
  BY <1>1 DEF Connected
<1> QED
  BY <1>1, <1>9, <1>10, BecomeOrdered

LEMMA StepOrdered ==
    ASSUME SendQueueInv, [Next]_vars
    PROVE  Ordered(Current, Current')
<1>1. PICK st : st = Current
  OBVIOUS
<1>2. /\ st \in State /\ TypeOK /\ nextid \in Nat /\ pass.inc \in {0, 1}
      /\ sock \in [Sockets -> Socket] /\ st.urgent \in {0, 1}
  BY <1>1, InvFacts DEF TypeOK, State
<1>3. \A len \in Lengths : len \in Nat
  BY SendQueueAssumption
<1>4. ASSUME NEW s \in Sockets, NEW len \in Lengths, Write(s, len)
      PROVE  Ordered(Current, Current')
  <2>1. PICK m, r, u, seen : /\ m = NewMessage(len, "writesock", 0) /\ r = writesock(st, s, m)
                             /\ u = IF st.sock[s].flag = "SYN" THEN 0 ELSE st.urgent
                             /\ seen = [st EXCEPT !.urgent = u]
    OBVIOUS
  <2>2. m \in Message
    BY <1>2, <1>3, <2>1 DEF NewMessage, Message, Apis
  <2>3. u \in {0, 1}
    BY <1>2, <2>1
  <2>4. seen \in State /\ seen.sock = st.sock /\ seen.wire = st.wire /\ seen.urgent = u
    BY <1>2, <2>1, <2>3 DEF State
  <2>5. r = IF seen.urgent = 0 THEN addq(seen, s, m) ELSE WriteNow(seen, s, m)
    BY <2>1, <2>4 DEF writesock
  <2>6. Ordered(st, r)
    BY <1>2, <2>2, <2>4, <2>5, WriteOrdered
  <2>7. Become(r)
    BY <1>1, <1>4, <2>1 DEF Write
  <2> QED
    BY <1>1, <2>6, <2>7, BecomeOrdered
<1>5. ASSUME NEW s \in Sockets, NEW len \in Lengths, WriteUrgent(s, len)
      PROVE  Ordered(Current, Current')
  <2>0. PICK m, st1 : m = NewMessage(len, "URGENT", 0) /\ st1 = [st EXCEPT !.urgent = 1]
    OBVIOUS
  <2>1. PICK r, u, seen : /\ r = writesock(st1, s, m)
                          /\ u = IF st1.sock[s].flag = "SYN" THEN 0 ELSE st1.urgent
                          /\ seen = [st1 EXCEPT !.urgent = u]
    OBVIOUS
  <2>2. m \in Message
    BY <1>2, <1>3, <2>0 DEF NewMessage, Message, Apis
  <2>3. st1 \in State /\ st1.sock = st.sock /\ st1.wire = st.wire /\ st1.urgent = 1
    BY <1>2, <2>0 DEF State
  <2>4. u \in {0, 1}
    BY <2>1, <2>3
  <2>5. seen \in State /\ seen.sock = st.sock /\ seen.wire = st.wire /\ seen.urgent = u
    BY <2>1, <2>3, <2>4 DEF State
  <2>6. r = IF seen.urgent = 0 THEN addq(seen, s, m) ELSE WriteNow(seen, s, m)
    BY <2>1, <2>5 DEF writesock
  <2>7. Ordered(st, r)
    BY <1>2, <2>2, <2>5, <2>6, WriteOrdered
  <2>8. Become(r)
    BY <1>1, <1>5, <2>0, <2>1 DEF WriteUrgent
  <2> QED
    BY <1>1, <2>7, <2>8, BecomeOrdered
<1>6. ASSUME NEW s \in Sockets, NEW len \in Lengths, WriteDelay(s, len, ConnectDelay)
      PROVE  Ordered(Current, Current')
  <2>1. PICK m, r : m = NewMessage(len, "DELAY", ConnectDelay) /\ r = addq(st, s, m)
    OBVIOUS
  <2>2. m \in Message
    BY <1>2, <1>3, <2>1, SendQueueAssumption DEF NewMessage, Message, Apis
  <2>3. Ordered(st, r)
    BY <1>2, <2>1, <2>2, AddqServes, ServedOrdered
  <2>4. Become(r)
    BY <1>1, <1>6, <2>1 DEF WriteDelay
  <2> QED
    BY <1>1, <2>3, <2>4, BecomeOrdered
<1>7. ASSUME NEW s \in Sockets, Flush(s) PROVE Ordered(Current, Current')
  <2>1. PICK r : r = flushsendq(st, s, FALSE)
    OBVIOUS
  <2>2. AllServed(st, r)
    BY <1>2, <2>1, AllServedNone, FlushServes
  <2>3. Become(r)
    BY <1>1, <1>7, <2>1 DEF Flush
  <2> QED
    BY <1>1, <2>2, <2>3, ServedOrdered, BecomeOrdered
<1>8. ASSUME NEW s \in Sockets, Pong(s) PROVE Ordered(Current, Current')
  <2>1. \A u \in Sockets : sock'[u].sendq = sock[u].sendq
    BY <1>2, <1>8 DEF Pong, Socket
  <2> QED
    BY <2>1, QuietOrdered
<1>9. CASE UNCHANGED vars
  <2>1. \A u \in Sockets : sock'[u].sendq = sock[u].sendq
    BY <1>9 DEF vars
  <2> QED
    BY <2>1, QuietOrdered
<1>10. ASSUME NEW s \in Sockets, WriteToNone(s) PROVE Ordered(Current, Current')
  <2>1. \A u \in Sockets : sock'[u].sendq = sock[u].sendq
    BY <1>10 DEF WriteToNone
  <2> QED
    BY <2>1, QuietOrdered
<1>11. ASSUME NEW s \in Sockets, createsocket(s) PROVE Ordered(Current, Current')
  <2>1. \A u \in Sockets : sock[u].flag = "CONN" => sock'[u].sendq = sock[u].sendq
    BY <1>2, <1>11 DEF createsocket
  <2>2. \A u \in Sockets : sock[u].sendq \in Seq(Message)
    BY <1>2 DEF Socket
  <2>3. ASSUME NEW u \in Sockets, sock[u].flag = "CONN"
        PROVE  InOrder(sock[u].sendq, wire[u], sock'[u].sendq, wire'[u], 0)
    BY <2>1, <2>2, <2>3, SameInOrder
  <2> QED
    BY <2>3, Zenon DEF Ordered, Current
<1> QED
  BY <1>4, <1>5, <1>6, <1>7, <1>8, <1>9, <1>10, <1>11, ConnectOrdered, PassOrdered, KillOrdered DEF Next

(* However handlers write to sockets and groups, and whichever of            *)
(* flushsendq() in socketdriver, the forced flush of a full queue in addq()  *)
(* and killsocket() takes messages off a queue: what leaves the queue of a   *)
(* connected socket is on its wire in queue order, empty lines apart, and    *)
(* the rest stays queued in order; a kill writes the whole queue, stoned or  *)
(* not.                                                                      *)
THEOREM MessagesServedInOrder == Spec => ServedInOrder
<1>1. SendQueueInv /\ [Next]_vars => (\A s \in Sockets : sock[s].flag = "CONN" => Serves(s))
  <2> SUFFICES ASSUME SendQueueInv, [Next]_vars, NEW s \in Sockets, sock[s].flag = "CONN"
               PROVE  Serves(s)
    OBVIOUS
  <2>1. Ordered(Current, Current')
    BY StepOrdered
  <2>2. \E n : InOrder(sock[s].sendq, wire[s], sock'[s].sendq, wire'[s], n)
    <3>1. /\ Current.sock = sock /\ Current.wire = wire
          /\ Current'.sock = sock' /\ Current'.wire = wire'
      BY DEF Current
    <3> QED
      BY <2>1, <3>1, Zenon DEF Ordered
  <2>3. SendQueueInv => Typed(Current)
    BY InvFacts, StateTyped
  <2>4. SendQueueInv'
    BY StepInv
  <2>5. Typed(Current)'
    BY <2>4 DEF SendQueueInv, TypeOK, Typed, Current, Socket
  <2> QED
    BY <2>2, <2>3, <2>5, OrderedServes
<1>2. SendQueueInv /\ [Next]_vars
        => [\A s \in Sockets : sock[s].flag = "CONN" => Serves(s)]_vars
  BY <1>1
<1> QED
  BY <1>2, Invariance, PTL DEF Spec, ServedInOrder
=============================================================================
