-------------------------- MODULE ContainerProofs --------------------------
(***************************************************************************)
(* Theorems about the two containers of libv, each on its own.             *)
(*                                                                         *)
(* Hmap, for every hash function and any number of keys, nodes and         *)
(* buckets: the nodes are owned by the table, they stay where they are,    *)
(* iteration is complete, and the table is a finite map.                   *)
(*                                                                         *)
(* Slice, for every capacity, growth factor and set of elements, and for   *)
(* every outcome of malloc and realloc: the memory is as large as claimed, *)
(* reserved room keeps the buffer in place, iteration is complete, and the *)
(* slice is a list.                                                        *)
(***************************************************************************)
EXTENDS Hmap, Slice, SequenceTheorems, FiniteSetTheorems, WellFoundedInduction, TLAPS

(***************************************************************************)
(* Numbers, sequences and recursive functions                              *)
(***************************************************************************)

(* A set of numbers that is not empty has a least element.                 *)
LEMMA Least ==
    ASSUME NEW T, T \subseteq Nat, T # {}
    PROVE  \E n \in T : \A m \in T : n <= m
<1> DEFINE R == OpToRel(<, Nat)
<1>1. IsWellFoundedOn(R, Nat)
  BY NatLessThanWellFounded
<1>2. \A x, y \in Nat : <<x, y>> \in R <=> x < y
  BY DEF OpToRel
<1> HIDE DEF R
<1>3. PICK n \in T : \A y \in T : ~(<<y, n>> \in R)
  BY <1>1, WFMin
<1>4. ASSUME NEW m \in T PROVE n <= m
  <2>1. m \in Nat /\ n \in Nat /\ ~(m < n)
    BY <1>2, <1>3
  <2> QED
    BY <2>1, SMT
<1> QED
  BY <1>4

LEMMA MinIn ==
    ASSUME NEW T, T \subseteq Nat, T # {}
    PROVE  Min(T) \in T /\ \A m \in T : Min(T) <= m
<1>1. \E n \in T : \A m \in T : n <= m
  BY Least
<1> QED
  BY <1>1, Zenon DEF Min

(* Induction up to a bound, for a set of numbers.                          *)
LEMMA UpTo ==
    ASSUME NEW N \in Nat, NEW G, 0 \in G,
           \A i \in 0 .. N : i # 0 /\ i - 1 \in G => i \in G
    PROVE  \A i \in 0 .. N : i \in G
<1> DEFINE T == {i \in 0 .. N : i \notin G}
<1>1. SUFFICES ASSUME T # {} PROVE FALSE
  OBVIOUS
<1>2. T \subseteq Nat
  BY SMT
<1>3. PICK n \in T : \A m \in T : n <= m
  <2> HIDE DEF T
  <2> QED
    BY <1>1, <1>2, Least
<1>4. n \in 0 .. N /\ n \notin G /\ n # 0
  OBVIOUS
<1>5. n - 1 \in 0 .. N /\ ~(n <= n - 1)
  BY <1>4, SMT
<1>6. n - 1 \in G
  BY <1>3, <1>5, Zenon
<1> QED
  BY <1>4, <1>6

(* What RemoveAt leaves, place by place.                                   *)
LEMMA RemovePlaces ==
    ASSUME NEW S, NEW s \in Seq(S), NEW i \in 1 .. Len(s)
    PROVE  RemoveAt(s, i) = [k \in 1 .. Len(s) - 1 |-> IF k < i THEN s[k] ELSE s[k + 1]]
<1> DEFINE n == Len(s)
           a == SubSeq(s, 1, i - 1)
           b == SubSeq(s, i + 1, n)
           r == [k \in 1 .. n - 1 |-> IF k < i THEN s[k] ELSE s[k + 1]]
<1>1. n \in Nat /\ i \in Nat /\ i > 0 /\ i <= n /\ \A k \in 1 .. n : s[k] \in S
  OBVIOUS
<1>2. /\ a \in Seq(S) /\ Len(a) = i - 1
      /\ \A k \in 1 .. i - 1 : a[k] = s[k]
  BY <1>1
<1>3. /\ b \in Seq(S) /\ Len(b) = n - i
      /\ \A k \in 1 .. n - i : b[k] = s[i + 1 + k - 1]
  BY <1>1
<1> HIDE DEF a, b
<1>4. /\ a \o b \in Seq(S) /\ Len(a \o b) = n - 1
      /\ \A k \in 1 .. n - 1 : (a \o b)[k] = IF k <= i - 1 THEN a[k] ELSE b[k - (i - 1)]
  <2>1. /\ a \o b \in Seq(S) /\ Len(a \o b) = Len(a) + Len(b)
        /\ \A k \in 1 .. Len(a) + Len(b) :
              (a \o b)[k] = IF k <= Len(a) THEN a[k] ELSE b[k - Len(a)]
    BY <1>2, <1>3, ConcatProperties
  <2>2. Len(a) = i - 1 /\ Len(a) + Len(b) = n - 1
    BY <1>1, <1>2, <1>3
  <2> QED
    BY <2>1, <2>2
<1>5. ASSUME NEW k \in 1 .. n - 1 PROVE (a \o b)[k] = r[k]
  <2>1. CASE k < i
    <3>1. k <= i - 1 /\ k \in 1 .. i - 1
      BY <1>1, <2>1
    <3>2. (a \o b)[k] = a[k]
      BY <1>4, <3>1
    <3> QED
      BY <1>2, <2>1, <3>1, <3>2
  <2>2. CASE ~(k < i)
    <3>1. ~(k <= i - 1) /\ k - (i - 1) \in 1 .. n - i /\ i + 1 + (k - (i - 1)) - 1 = k + 1
      BY <1>1, <2>2
    <3>2. (a \o b)[k] = b[k - (i - 1)]
      BY <1>4, <3>1
    <3>3. b[k - (i - 1)] = s[k + 1]
      BY <1>3, <3>1
    <3> QED
      BY <2>2, <3>2, <3>3
  <2> QED
    BY <2>1, <2>2
<1>6. r \in Seq(S) /\ Len(r) = n - 1
  BY <1>1
<1>7. a \o b = r
  BY <1>4, <1>5, <1>6, SeqEqual
<1> QED
  BY <1>7 DEF RemoveAt, a, b

LEMMA FrontPlaces ==
    ASSUME NEW S, NEW s \in Seq(S), NEW x \in S
    PROVE  /\ <<x>> \o s \in Seq(S)
           /\ Len(<<x>> \o s) = Len(s) + 1
           /\ (<<x>> \o s)[1] = x
           /\ \A k \in 1 .. Len(s) : (<<x>> \o s)[k + 1] = s[k]
<1>1. <<x>> \in Seq(S) /\ Len(<<x>>) = 1 /\ <<x>>[1] = x /\ Len(s) \in Nat
  OBVIOUS
<1>2. /\ <<x>> \o s \in Seq(S) /\ Len(<<x>> \o s) = Len(<<x>>) + Len(s)
      /\ \A k \in 1 .. Len(<<x>>) + Len(s) :
            (<<x>> \o s)[k] = IF k <= Len(<<x>>) THEN <<x>>[k] ELSE s[k - Len(<<x>>)]
  BY <1>1, ConcatProperties
<1>3. Len(<<x>>) + Len(s) = Len(s) + 1 /\ 1 \in 1 .. Len(s) + 1
  BY <1>1
<1>4. (<<x>> \o s)[1] = x
  BY <1>1, <1>2, <1>3
<1>5. ASSUME NEW k \in 1 .. Len(s) PROVE (<<x>> \o s)[k + 1] = s[k]
  <2>1. k + 1 \in 1 .. Len(<<x>>) + Len(s) /\ ~(k + 1 <= Len(<<x>>)) /\ (k + 1) - Len(<<x>>) = k
    BY <1>1
  <2> QED
    BY <1>2, <2>1
<1> QED
  BY <1>1, <1>2, <1>3, <1>4, <1>5

(***************************************************************************)
(* Placement: the buckets b hold the nodes of S, each once and in the      *)
(* bucket that its hash h selects                                          *)
(***************************************************************************)

Placed(b, n, S, h) ==
    /\ b \in [0 .. n - 1 -> Seq(S)]
    /\ \A i \in 0 .. n - 1 : \A p \in 1 .. Len(b[i]) :
          /\ h[b[i][p]] % n = i
          /\ \A q \in 1 .. Len(b[i]) : b[i][q] = b[i][p] => q = p
    /\ \A x \in S : \E i \in 0 .. n - 1 : \E p \in 1 .. Len(b[i]) : b[i][p] = x

LEMMA PlacedFrame ==
    ASSUME NEW n \in Nat, NEW S, NEW h, NEW g, NEW b, Placed(b, n, S, h),
           \A x \in S : g[x] = h[x]
    PROVE  Placed(b, n, S, g)
<1>1. ASSUME NEW i \in 0 .. n - 1, NEW p \in 1 .. Len(b[i]) PROVE g[b[i][p]] % n = i
  <2>1. b[i] \in Seq(S) /\ h[b[i][p]] % n = i
    BY Zenon DEF Placed
  <2>2. b[i][p] \in S
    BY <2>1
  <2> QED
    BY <2>1, <2>2
<1> QED
  BY <1>1, Zenon DEF Placed

(* A node that is not there is put in front of its bucket.                 *)
LEMMA PlacedFront ==
    ASSUME NEW n \in Nat \ {0}, NEW S, NEW h, NEW b, Placed(b, n, S, h),
           NEW x, x \notin S, h[x] \in Nat
    PROVE  Placed(InFront(b, h[x] % n, x), n, S \cup {x}, h)
<1> DEFINE T == S \cup {x}
           e == h[x] % n
           c == InFront(b, e, x)
           k == <<x>> \o b[e]
<1>1. e \in 0 .. n - 1
  BY SMT
<1>2. b \in [0 .. n - 1 -> Seq(S)] /\ b[e] \in Seq(S)
  BY <1>1, Zenon DEF Placed
<1>3. ASSUME NEW s \in Seq(S) PROVE s \in Seq(T)
  OBVIOUS
<1>4. /\ k \in Seq(T) /\ Len(k) = Len(b[e]) + 1 /\ k[1] = x
      /\ \A p \in 1 .. Len(b[e]) : k[p + 1] = b[e][p]
  <2>1. x \in T /\ b[e] \in Seq(T)
    BY <1>2, <1>3, Zenon
  <2> HIDE DEF T, e
  <2> QED
    BY <2>1, FrontPlaces
<1>5. Len(b[e]) \in Nat
  BY <1>2
<1>6. ASSUME NEW p \in 1 .. Len(k), p # 1
      PROVE  p - 1 \in 1 .. Len(b[e]) /\ k[p] = b[e][p - 1] /\ b[e][p - 1] \in S
  <2> HIDE DEF k, e
  <2>1. p - 1 \in 1 .. Len(b[e]) /\ (p - 1) + 1 = p
    BY <1>4, <1>5, <1>6
  <2>2. k[p] = b[e][p - 1]
    BY <1>4, <2>1
  <2>3. b[e][p - 1] \in S
    BY <1>2, <2>1
  <2> QED
    BY <2>1, <2>2, <2>3
<1>7. \A i \in 0 .. n - 1 : c[i] = IF i = e THEN k ELSE b[i]
  BY <1>2, Zenon DEF InFront
<1>8. c \in [0 .. n - 1 -> Seq(T)]
  <2>1. c = [i \in 0 .. n - 1 |-> IF i = e THEN k ELSE b[i]]
    <3>1. DOMAIN b = 0 .. n - 1
      BY <1>2, Zenon
    <3>2. c = [i \in DOMAIN b |-> IF i = e THEN k ELSE b[i]]
      <4>1. c = [j \in DOMAIN b |-> IF j = e THEN <<x>> \o b[j] ELSE b[j]]
        BY Zenon DEF InFront
      <4> QED
        BY <4>1, Zenon
    <3> QED
      BY <3>1, <3>2, Zenon
  <2>2. \A i \in 0 .. n - 1 : b[i] \in Seq(T)
    BY <1>2, <1>3, Zenon
  <2> HIDE DEF c, k, T, e
  <2> QED
    BY <1>4, <2>1, <2>2, Zenon
<1>9. \A i \in 0 .. n - 1 : \A p \in 1 .. Len(b[i]) :
          /\ h[b[i][p]] % n = i
          /\ \A q \in 1 .. Len(b[i]) : b[i][q] = b[i][p] => q = p
  BY Zenon DEF Placed
<1>10. \A y \in S : \E i \in 0 .. n - 1 : \E p \in 1 .. Len(b[i]) : b[i][p] = y
  BY Zenon DEF Placed
<1>11. x \notin S /\ h[x] % n = e
  OBVIOUS
<1> HIDE DEF k, c, e
<1>12. ASSUME NEW i \in 0 .. n - 1, NEW p \in 1 .. Len(c[i])
       PROVE  /\ h[c[i][p]] % n = i
              /\ \A q \in 1 .. Len(c[i]) : c[i][q] = c[i][p] => q = p
  <2>1. CASE i # e
    <3>1. c[i] = b[i]
      BY <1>7, <2>1
    <3> QED
      BY <1>9, <3>1, Zenon
  <2>2. CASE i = e
    <3>1. c[i] = k
      BY <1>7, <2>2
    <3>2. CASE p = 1
      <4>1. k[p] = x
        BY <1>4, <3>2
      <4>2. ASSUME NEW q \in 1 .. Len(k), q # 1 PROVE k[q] # x
        BY <1>6, <1>11, <4>2
      <4> QED
        BY <1>11, <2>2, <3>1, <3>2, <4>1, <4>2, Zenon
    <3>3. CASE p # 1
      <4>1. p - 1 \in 1 .. Len(b[e]) /\ k[p] = b[e][p - 1] /\ b[e][p - 1] \in S
        BY <1>6, <3>1, <3>3
      <4>2. h[k[p]] % n = i
        BY <1>1, <1>9, <2>2, <4>1, Zenon
      <4>3. ASSUME NEW q \in 1 .. Len(k), k[q] = k[p] PROVE q = p
        <5>1. q # 1
          BY <1>4, <1>11, <4>1, <4>3
        <5>2. q - 1 \in 1 .. Len(b[e]) /\ k[q] = b[e][q - 1]
          BY <1>6, <5>1
        <5>3. q - 1 = p - 1
          BY <1>1, <1>9, <4>1, <4>3, <5>2, Zenon
        <5>4. p \in Int
          BY <3>1, <1>4, <1>5, <4>1
        <5> QED
          BY <5>3, <5>4
      <4> QED
        BY <3>1, <4>2, <4>3, Zenon
    <3> QED
      BY <3>2, <3>3
  <2> QED
    BY <2>1, <2>2
<1>13. ASSUME NEW y \in T PROVE \E i \in 0 .. n - 1 : \E p \in 1 .. Len(c[i]) : c[i][p] = y
  <2>1. CASE y = x
    <3>1. 1 \in 1 .. Len(k) /\ c[e] = k
      BY <1>1, <1>4, <1>5, <1>7
    <3> QED
      BY <1>1, <1>4, <2>1, <3>1, Zenon
  <2>2. CASE y # x
    <3>1. PICK i \in 0 .. n - 1 : \E p \in 1 .. Len(b[i]) : b[i][p] = y
      BY <1>10, <2>2, Zenon
    <3>2. PICK p \in 1 .. Len(b[i]) : b[i][p] = y
      BY <3>1
    <3>3. CASE i # e
      BY <1>7, <3>2, <3>3, Zenon
    <3>4. CASE i = e
      <4>1. p + 1 \in 1 .. Len(k) /\ k[p + 1] = y /\ c[e] = k
        BY <1>1, <1>4, <1>5, <1>7, <3>2, <3>4
      <4> QED
        BY <1>1, <4>1, Zenon
    <3> QED
      BY <3>3, <3>4
  <2> QED
    BY <2>1, <2>2
<1>14. Placed(c, n, T, h)
  <2> HIDE DEF T
  <2> QED
    BY <1>8, <1>12, <1>13, Zenon DEF Placed
<1> QED
  BY <1>14, Zenon DEF c, e

(* The node at place p of bucket i is unlinked.                            *)
LEMMA PlacedCut ==
    ASSUME NEW n \in Nat \ {0}, NEW S, NEW h, NEW b, Placed(b, n, S, h),
           NEW i \in 0 .. n - 1, NEW p \in 1 .. Len(b[i])
    PROVE  Placed([b EXCEPT ![i] = RemoveAt(b[i], p)], n, S \ {b[i][p]}, h)
<1> DEFINE x == b[i][p]
           T == S \ {x}
           k == RemoveAt(b[i], p)
           c == [b EXCEPT ![i] = k]
           Old(q) == IF q < p THEN q ELSE q + 1
<1>1. b \in [0 .. n - 1 -> Seq(S)] /\ b[i] \in Seq(S) /\ Len(b[i]) \in Nat
  <2>1. b \in [0 .. n - 1 -> Seq(S)]
    BY Zenon DEF Placed
  <2> QED
    BY <2>1
<1>2. \A j \in 0 .. n - 1 : \A q \in 1 .. Len(b[j]) :
          /\ h[b[j][q]] % n = j
          /\ \A r \in 1 .. Len(b[j]) : b[j][r] = b[j][q] => r = q
  BY Zenon DEF Placed
<1>3. \A y \in S : \E j \in 0 .. n - 1 : \E q \in 1 .. Len(b[j]) : b[j][q] = y
  BY Zenon DEF Placed
<1>4. k = [q \in 1 .. Len(b[i]) - 1 |-> IF q < p THEN b[i][q] ELSE b[i][q + 1]]
  BY <1>1, RemovePlaces
<1>5. /\ \A q \in 1 .. Len(b[i]) - 1 : k[q] = b[i][Old(q)] /\ Old(q) \in 1 .. Len(b[i]) /\ Old(q) # p
      /\ Len(k) = Len(b[i]) - 1
  BY <1>1, <1>4
<1>6. ASSUME NEW q \in 1 .. Len(b[i]) - 1 PROVE k[q] \in T
  <2>1. k[q] = b[i][Old(q)] /\ Old(q) \in 1 .. Len(b[i]) /\ Old(q) # p
    BY <1>5
  <2> HIDE DEF k, Old
  <2>2. b[i][Old(q)] \in S
    BY <1>1, <2>1
  <2>3. b[i][Old(q)] # x
    BY <1>2, <2>1
  <2> QED
    BY <2>1, <2>2, <2>3
<1>7. k \in Seq(T)
  <2>1. DOMAIN k = 1 .. Len(b[i]) - 1
    BY <1>4, Zenon
  <2>2. Len(b[i]) - 1 \in Nat
    BY <1>1
  <2>3. k = [q \in 1 .. Len(b[i]) - 1 |-> k[q]]
    BY <1>4, Zenon
  <2> DEFINE m == Len(b[i]) - 1
  <2> HIDE DEF k, T
  <2>4. k \in [1 .. m -> T]
    BY <1>6, <2>3, Zenon
  <2>5. m \in Nat
    BY <2>2
  <2> HIDE DEF m
  <2> QED
    BY <2>4, <2>5
<1>8. ASSUME NEW j \in 0 .. n - 1, j # i PROVE c[j] = b[j] /\ b[j] \in Seq(T)
  <2>1. b[j] \in Seq(S) /\ c[j] = b[j]
    BY <1>1, <1>8, Zenon
  <2>2. ASSUME NEW q \in 1 .. Len(b[j]) PROVE b[j][q] \in T
    <3>1. b[j][q] \in S
      BY <2>1
    <3>2. h[b[j][q]] % n = j /\ h[b[i][p]] % n = i
      BY <1>2, Zenon
    <3> QED
      BY <1>8, <3>1, <3>2
  <2> HIDE DEF T
  <2> QED
    BY <2>1, <2>2
<1>9. c[i] = k
  BY <1>1, Zenon
<1>10. c \in [0 .. n - 1 -> Seq(T)]
  <2>1. c = [j \in 0 .. n - 1 |-> IF j = i THEN k ELSE b[j]]
    BY <1>1, Zenon
  <2> HIDE DEF c, T, k
  <2>2. \A j \in 0 .. n - 1 : (IF j = i THEN k ELSE b[j]) \in Seq(T)
    BY <1>7, <1>8, Zenon
  <2> QED
    BY <2>1, <2>2, Zenon
<1> HIDE DEF k, c, T, Old
<1>11. ASSUME NEW j \in 0 .. n - 1, NEW q \in 1 .. Len(c[j])
       PROVE  /\ h[c[j][q]] % n = j
              /\ \A r \in 1 .. Len(c[j]) : c[j][r] = c[j][q] => r = q
  <2>1. CASE j # i
    BY <1>2, <1>8, <2>1, Zenon
  <2>2. CASE j = i
    <3>1. c[j] = k /\ q \in 1 .. Len(b[i]) - 1
      BY <1>5, <1>9, <2>2
    <3>2. k[q] = b[i][Old(q)] /\ Old(q) \in 1 .. Len(b[i])
      BY <1>5, <3>1
    <3>3. h[k[q]] % n = i
      BY <1>2, <3>2
    <3>4. ASSUME NEW r \in 1 .. Len(k), k[r] = k[q] PROVE r = q
      <4>1. r \in 1 .. Len(b[i]) - 1
        BY <1>5
      <4>2. k[r] = b[i][Old(r)] /\ Old(r) \in 1 .. Len(b[i])
        BY <1>5, <4>1
      <4>3. Old(r) = Old(q)
        BY <1>2, <3>2, <3>4, <4>2, Zenon
      <4> QED
        BY <1>1, <3>1, <4>1, <4>3 DEF Old
    <3> QED
      BY <2>2, <3>1, <3>3, <3>4, Zenon
  <2> QED
    BY <2>1, <2>2
<1>12. ASSUME NEW y \in T PROVE \E j \in 0 .. n - 1 : \E q \in 1 .. Len(c[j]) : c[j][q] = y
  <2>1. y \in S /\ y # x
    BY Zenon DEF T
  <2>2. PICK j \in 0 .. n - 1 : \E q \in 1 .. Len(b[j]) : b[j][q] = y
    BY <1>3, <2>1
  <2>3. PICK q \in 1 .. Len(b[j]) : b[j][q] = y
    BY <2>2
  <2>4. CASE j # i
    BY <1>8, <2>3, <2>4, Zenon
  <2>5. CASE j = i
    <3>1. q # p
      BY <2>1, <2>3, <2>5
    <3>2. PICK r \in 1 .. Len(b[i]) - 1 : Old(r) = q
      <4>1. CASE q < p
        <5>1. q \in 1 .. Len(b[i]) - 1 /\ Old(q) = q
          BY <1>1, <2>5, <4>1 DEF Old
        <5> QED
          BY <5>1, Zenon
      <4>2. CASE ~(q < p)
        <5>1. q - 1 \in 1 .. Len(b[i]) - 1 /\ Old(q - 1) = q
          BY <1>1, <2>5, <3>1, <4>2 DEF Old
        <5> QED
          BY <5>1, Zenon
      <4> QED
        BY <4>1, <4>2
    <3>3. r \in 1 .. Len(k) /\ k[r] = y
      BY <1>5, <2>3, <2>5, <3>2
    <3> QED
      BY <1>9, <3>3, Zenon
  <2> QED
    BY <2>4, <2>5
<1>13. Placed(c, n, T, h)
  BY <1>10, <1>11, <1>12, Zenon DEF Placed
<1> QED
  BY <1>13, Zenon DEF c, k, T

(***************************************************************************)
(* Growth                                                                  *)
(***************************************************************************)

(* The hash of the key of each node that is in use.                        *)
Home == [x \in Nodes |-> IF node[x] = Free THEN 0 ELSE hash[node[x].key]]

LEMMA FreeIsNoNode ==
    ASSUME NEW k, NEW v \in Values
    PROVE  [key |-> k, value |-> v] # Free
<1>1. [key |-> k, value |-> v].value = v /\ Free.value = Absent
  BY DEF Free
<1> QED
  BY <1>1, AbsentAssumption

LEMMA HomeOf ==
    ASSUME TypeOK
    PROVE  /\ Allocated \subseteq Nodes
           /\ \A x \in Allocated : /\ node[x] \in [key : Keys, value : Values]
                                   /\ Home[x] = hash[node[x].key] /\ Home[x] \in Nat
<1>1. Hashes \subseteq Nat
  BY HmapAssumption
<1> QED
  BY <1>1 DEF TypeOK, Allocated, Home

(* The inner loop moves the nodes of a chain to new buckets.               *)
LEMMA PlacedRelink ==
    ASSUME TypeOK, NEW n \in Nat \ {0}, NEW S, S \subseteq Allocated,
           NEW b, Placed(b, n, S, Home),
           NEW chain \in Seq(Allocated),
           \A p \in 1 .. Len(chain) : chain[p] \notin S,
           \A p, q \in 1 .. Len(chain) : chain[p] = chain[q] => p = q
    PROVE  Placed(relink(b, chain, n), n, S \cup {chain[p] : p \in 1 .. Len(chain)}, Home)
<1> DEFINE N == Len(chain)
           Step(c, j) == InFront(c, hash[node[chain[j]].key] % n, chain[j])
           Is(g, m) == g = [j \in 0 .. m |-> IF j = 0 THEN b ELSE Step(g[j - 1], j)]
           T == {m \in Nat : ~ \E g : Is(g, m)}
<1>0. N \in Nat
  OBVIOUS
<1>1. T = {}
  <2> HIDE DEF Step
  <2>1. SUFFICES ASSUME T # {} PROVE FALSE
    OBVIOUS
  <2>2. PICK m \in T : \A l \in T : m <= l
    <3>1. T \subseteq Nat
      OBVIOUS
    <3> HIDE DEF T
    <3> QED
      BY <2>1, <3>1, Least
  <2>3. \E g : Is(g, 0)
    <3> DEFINE g == [j \in 0 .. 0 |-> b]
    <3>1. Is(g, 0)
      BY SMT
    <3> QED
      BY <3>1
  <2>4. m \in Nat /\ m # 0
    BY <2>3
  <2>5. m - 1 \in Nat /\ ~(m <= m - 1)
    BY <2>4, SMT
  <2>6. PICK g : Is(g, m - 1)
    <3>1. m - 1 \notin T
      BY <2>2, <2>5, Zenon
    <3> QED
      BY <2>5, <3>1, Zenon
  <2> DEFINE f == [j \in 0 .. m |-> IF j = m THEN Step(g[m - 1], m) ELSE g[j]]
  <2>7. ASSUME NEW j \in 0 .. m PROVE f[j] = IF j = 0 THEN b ELSE Step(f[j - 1], j)
    <3>1. j = m => j # 0 /\ j - 1 \in 0 .. m /\ j - 1 # m
      BY <2>4, SMT
    <3>2. j # m => j \in 0 .. m - 1 /\ (j # 0 => j - 1 \in 0 .. m /\ j - 1 # m)
      BY <2>4, SMT
    <3>3. j # m => g[j] = IF j = 0 THEN b ELSE Step(g[j - 1], j)
      BY <2>6, <3>2, Zenon
    <3> QED
      BY <3>1, <3>2, <3>3
  <2>8. Is(f, m)
    BY <2>7, Zenon
  <2> QED
    BY <2>8, Zenon
<1>2. \E g : Is(g, N)
  BY <1>0, <1>1
<1> DEFINE moved[j \in 0 .. Len(chain)] ==
             IF j = 0 THEN b ELSE InFront(moved[j - 1], hash[node[chain[j]].key] % n, chain[j])
<1>3. Is(moved, N)
  BY <1>2, Zenon DEF moved
<1>4. relink(b, chain, n) = moved[N]
  BY Zenon DEF relink
<1> HIDE DEF moved
<1>5. moved[0] = b
  <2>1. 0 \in 0 .. N
    BY <1>0
  <2> QED
    BY <1>3, <2>1, Zenon
<1>6. ASSUME NEW j \in 0 .. N, j # 0 PROVE moved[j] = Step(moved[j - 1], j)
  BY <1>3, <1>6, Zenon
<1> DEFINE Done(j) == S \cup {chain[p] : p \in 1 .. j}
           G == {j \in 0 .. N : Placed(moved[j], n, Done(j), Home)}
<1>7. 0 \in G
  <2>1. Done(0) = S /\ 0 \in 0 .. N
    BY <1>0
  <2> HIDE DEF Done
  <2> QED
    BY <1>5, <2>1
<1>8. ASSUME NEW j \in 0 .. N, j # 0, j - 1 \in G PROVE j \in G
  <2> DEFINE x == chain[j]
  <2>1. j \in 1 .. N /\ x \in Allocated
    BY <1>0, <1>8
  <2>2. x \in Nodes /\ Home[x] = hash[node[x].key] /\ Home[x] \in Nat
    BY <2>1, HomeOf, Zenon
  <2>3. x \notin Done(j - 1)
    <3>1. x \notin S
      BY <2>1
    <3>2. ASSUME NEW p \in 1 .. j - 1 PROVE chain[p] # x
      <4>1. p \in 1 .. N /\ p # j
        BY <1>0, <2>1
      <4> QED
        BY <2>1, <4>1
    <3> QED
      BY <3>1, <3>2
  <2>4. Done(j) = Done(j - 1) \cup {x}
    <3>1. 1 .. j = (1 .. j - 1) \cup {j}
      BY <2>1
    <3> QED
      BY <3>1
  <2>5. Placed(moved[j - 1], n, Done(j - 1), Home)
    BY <1>8, Zenon
  <2> HIDE DEF Done, x
  <2>6. Placed(InFront(moved[j - 1], Home[x] % n, x), n, Done(j - 1) \cup {x}, Home)
    BY <2>2, <2>3, <2>5, PlacedFront
  <2>7. moved[j] = InFront(moved[j - 1], Home[x] % n, x)
    BY <1>6, <1>8, <2>2, Zenon DEF x
  <2> QED
    BY <2>4, <2>6, <2>7, Zenon
<1>9. \A j \in 0 .. N : j \in G
  <2> HIDE DEF G, N
  <2> QED
    BY <1>0, <1>7, <1>8, UpTo
<1>10. Placed(moved[N], n, Done(N), Home)
  <2>1. N \in 0 .. N
    BY <1>0
  <2> QED
    BY <1>9, <2>1, Zenon
<1> QED
  BY <1>4, <1>10, Zenon DEF Done, N

(* hmap_grow keeps every node, each once and in its new bucket.            *)
LEMMA PlacedGrow ==
    ASSUME TypeOK, NEW n \in Nat \ {0}, nbuckets \in Nat \ {0},
           Placed(buckets, nbuckets, Allocated, Home)
    PROVE  Placed(hmap_grow(n), n, Allocated, Home)
<1> DEFINE N == nbuckets
           empty == [j \in 0 .. n - 1 |-> <<>>]
           Step(c, i) == relink(c, buckets[i - 1], n)
           Is(g, m) == g = [i \in 0 .. m |-> IF i = 0 THEN empty ELSE Step(g[i - 1], i)]
           T == {m \in Nat : ~ \E g : Is(g, m)}
<1>0. N \in Nat
  OBVIOUS
<1>1. T = {}
  <2> HIDE DEF Step, empty
  <2>1. SUFFICES ASSUME T # {} PROVE FALSE
    OBVIOUS
  <2>2. PICK m \in T : \A l \in T : m <= l
    <3>1. T \subseteq Nat
      OBVIOUS
    <3> HIDE DEF T
    <3> QED
      BY <2>1, <3>1, Least
  <2>3. \E g : Is(g, 0)
    <3> DEFINE g == [i \in 0 .. 0 |-> empty]
    <3>1. Is(g, 0)
      BY SMT
    <3> QED
      BY <3>1
  <2>4. m \in Nat /\ m # 0
    BY <2>3
  <2>5. m - 1 \in Nat /\ ~(m <= m - 1)
    BY <2>4, SMT
  <2>6. PICK g : Is(g, m - 1)
    <3>1. m - 1 \notin T
      BY <2>2, <2>5, Zenon
    <3> QED
      BY <2>5, <3>1, Zenon
  <2> DEFINE f == [i \in 0 .. m |-> IF i = m THEN Step(g[m - 1], m) ELSE g[i]]
  <2>7. ASSUME NEW i \in 0 .. m PROVE f[i] = IF i = 0 THEN empty ELSE Step(f[i - 1], i)
    <3>1. i = m => i # 0 /\ i - 1 \in 0 .. m /\ i - 1 # m
      BY <2>4, SMT
    <3>2. i # m => i \in 0 .. m - 1 /\ (i # 0 => i - 1 \in 0 .. m /\ i - 1 # m)
      BY <2>4, SMT
    <3>3. i # m => g[i] = IF i = 0 THEN empty ELSE Step(g[i - 1], i)
      BY <2>6, <3>2, Zenon
    <3> QED
      BY <3>1, <3>2, <3>3
  <2>8. Is(f, m)
    BY <2>7, Zenon
  <2> QED
    BY <2>8, Zenon
<1>2. \E g : Is(g, N)
  BY <1>0, <1>1
<1> DEFINE grown[i \in 0 .. nbuckets] ==
             IF i = 0 THEN [j \in 0 .. n - 1 |-> <<>>] ELSE relink(grown[i - 1], buckets[i - 1], n)
<1>3. Is(grown, N)
  BY <1>2, Zenon DEF grown
<1>4. hmap_grow(n) = grown[N]
  BY Zenon DEF hmap_grow
<1> HIDE DEF grown
<1>5. grown[0] = empty
  <2>1. 0 \in 0 .. N
    BY <1>0
  <2> QED
    BY <1>3, <2>1, Zenon
<1>6. ASSUME NEW i \in 0 .. N, i # 0 PROVE grown[i] = relink(grown[i - 1], buckets[i - 1], n)
  BY <1>3, <1>6, Zenon
<1>7. /\ buckets \in [0 .. N - 1 -> Seq(Allocated)]
      /\ \A i \in 0 .. N - 1 : \A p \in 1 .. Len(buckets[i]) :
            /\ Home[buckets[i][p]] % N = i
            /\ \A q \in 1 .. Len(buckets[i]) : buckets[i][q] = buckets[i][p] => q = p
      /\ \A x \in Allocated : \E i \in 0 .. N - 1 : \E p \in 1 .. Len(buckets[i]) : buckets[i][p] = x
  BY Zenon DEF Placed
<1>8. \A x \in Allocated : Home[x] \in Nat
  BY HomeOf, Zenon
<1> DEFINE Done(i) == {x \in Allocated : Home[x] % N < i}
           G == {i \in 0 .. N : Placed(grown[i], n, Done(i), Home)}
<1> HIDE DEF Step
<1>9. 0 \in G
  <2>1. Done(0) = {}
    <3>1. ASSUME NEW x \in Allocated PROVE ~(Home[x] % N < 0)
      <4>1. Home[x] \in Nat
        BY <1>8
      <4> DEFINE y == Home[x]
      <4> HIDE DEF y
      <4>2. y \in Nat /\ N \in Nat \ {0}
        BY <4>1 DEF y
      <4>3. ~(y % N < 0)
        BY <4>2, SMT
      <4> QED
        BY <4>3 DEF y
    <3> QED
      BY <3>1, Zenon
  <2>2. Placed(empty, n, {}, Home)
    <3>1. empty \in [0 .. n - 1 -> Seq({})]
      OBVIOUS
    <3>2. \A i \in 0 .. n - 1 : empty[i] = <<>>
      BY Zenon
    <3> HIDE DEF empty
    <3>3. \A i \in 0 .. n - 1 : \A p \in 1 .. Len(empty[i]) : FALSE
      BY <3>2
    <3> QED
      BY <3>1, <3>3, Zenon DEF Placed
  <2>3. 0 \in 0 .. N
    BY <1>0
  <2> HIDE DEF Done, empty
  <2> QED
    BY <1>5, <2>1, <2>2, <2>3
<1>10. ASSUME NEW i \in 0 .. N, i # 0, i - 1 \in G PROVE i \in G
  <2> DEFINE chain == buckets[i - 1]
             S == Done(i - 1)
  <2>1. i - 1 \in 0 .. N - 1
    BY <1>0, <1>10
  <2>2. chain \in Seq(Allocated)
    BY <1>7, <2>1, Zenon
  <2>3. \A p \in 1 .. Len(chain) : Home[chain[p]] % N = i - 1
    BY <1>7, <2>1, Zenon
  <2>4. \A p, q \in 1 .. Len(chain) : chain[p] = chain[q] => p = q
    BY <1>7, <2>1, Zenon
  <2>5. \A p \in 1 .. Len(chain) : chain[p] \notin S
    <3>1. ~(i - 1 < i - 1)
      BY <2>1
    <3> QED
      BY <2>3, <3>1, Zenon
  <2>6. S \subseteq Allocated /\ Placed(grown[i - 1], n, S, Home)
    BY <1>10, Zenon
  <2>7. Done(i) = S \cup {chain[p] : p \in 1 .. Len(chain)}
    <3>1. ASSUME NEW x \in Allocated
          PROVE  Home[x] % N < i <=> Home[x] % N < i - 1 \/ Home[x] % N = i - 1
      <4> DEFINE y == Home[x] % N
      <4>1. y \in Int
        <5>1. Home[x] \in Nat
          BY <1>8
        <5> QED
          BY <5>1, SMT
      <4> HIDE DEF y
      <4>2. y < i <=> y < i - 1 \/ y = i - 1
        BY <2>1, <4>1
      <4> QED
        BY <4>2 DEF y
    <3>2. ASSUME NEW x \in Allocated, Home[x] % N = i - 1
          PROVE  \E p \in 1 .. Len(chain) : chain[p] = x
      BY <1>7, <3>2, Zenon
    <3>3. ASSUME NEW p \in 1 .. Len(chain) PROVE chain[p] \in Allocated
      BY <2>2
    <3> HIDE DEF chain
    <3>4. ASSUME NEW x \in Done(i) PROVE x \in S \cup {chain[p] : p \in 1 .. Len(chain)}
      BY <3>1, <3>2, Zenon
    <3>5. ASSUME NEW x \in S PROVE x \in Done(i)
      BY <3>1, Zenon
    <3>6. ASSUME NEW p \in 1 .. Len(chain) PROVE chain[p] \in Done(i)
      BY <2>3, <3>1, <3>3, Zenon
    <3> QED
      BY <3>4, <3>5, <3>6, Zenon
  <2> HIDE DEF S, chain, Done
  <2>8. Placed(relink(grown[i - 1], chain, n), n, S \cup {chain[p] : p \in 1 .. Len(chain)}, Home)
    BY <2>2, <2>4, <2>5, <2>6, PlacedRelink
  <2>9. grown[i] = relink(grown[i - 1], chain, n)
    BY <1>6, <1>10, Zenon DEF chain
  <2> QED
    BY <2>7, <2>8, <2>9, Zenon
<1>11. \A i \in 0 .. N : i \in G
  <2> HIDE DEF G, N
  <2> QED
    BY <1>0, <1>9, <1>10, UpTo
<1>12. Done(N) = Allocated
  <2>1. ASSUME NEW x \in Allocated PROVE Home[x] % N < N
    <3> DEFINE y == Home[x]
    <3>1. y \in Nat /\ N \in Nat \ {0}
      BY <1>8
    <3> HIDE DEF y
    <3>2. y % N < N
      BY <3>1, SMT
    <3> QED
      BY <3>2 DEF y
  <2> QED
    BY <2>1, Zenon
<1>13. Placed(grown[N], n, Done(N), Home)
  <2>1. N \in 0 .. N
    BY <1>0
  <2> QED
    BY <1>11, <2>1, Zenon
<1> QED
  BY <1>4, <1>12, <1>13, Zenon DEF N

(***************************************************************************)
(* The table                                                               *)
(***************************************************************************)

(* No two nodes have the same key.                                         *)
KeysOnce == \A x, y \in Allocated : node[x].key = node[y].key => x = y

Counted == IsFiniteSet(Allocated) /\ len = Cardinality(Allocated)

TableInv == TypeOK /\ Placed(buckets, nbuckets, Allocated, Home) /\ KeysOnce /\ Counted

(* The walk along a chain finds the node of a key wherever it is placed.   *)
LEMMA Find ==
    ASSUME TypeOK, NEW n \in Nat \ {0}, NEW b, Placed(b, n, Allocated, Home), NEW k \in Keys
    PROVE  /\ hash[k] % n \in 0 .. n - 1
           /\ FindIn(b[hash[k] % n], k) # NULL =>
                \E p \in 1 .. Len(b[hash[k] % n]) :
                    /\ p = Min(Hits(b[hash[k] % n], k))
                    /\ FindIn(b[hash[k] % n], k) = b[hash[k] % n][p]
                    /\ b[hash[k] % n][p] \in Allocated
                    /\ node[b[hash[k] % n][p]].key = k
           /\ FindIn(b[hash[k] % n], k) = NULL => \A x \in Allocated : node[x].key # k
<1> DEFINE e == hash[k] % n
           c == b[e]
           H == Hits(c, k)
<1>1. e \in 0 .. n - 1
  <2>1. hash[k] \in Nat
    BY HmapAssumption DEF TypeOK
  <2> DEFINE y == hash[k]
  <2> HIDE DEF y
  <2>2. y % n \in 0 .. n - 1
    BY <2>1, SMT DEF y
  <2> QED
    BY <2>2 DEF y
<1>2. /\ c \in Seq(Allocated)
      /\ \A x \in Allocated : \E i \in 0 .. n - 1 : \E p \in 1 .. Len(b[i]) : b[i][p] = x
      /\ \A i \in 0 .. n - 1 : \A p \in 1 .. Len(b[i]) : Home[b[i][p]] % n = i
  BY <1>1, Zenon DEF Placed
<1>3. DOMAIN c = 1 .. Len(c) /\ Len(c) \in Nat
  BY <1>2
<1>4. H = {p \in 1 .. Len(c) : node[c[p]].key = k}
  BY <1>3, Zenon DEF Hits
<1>5. FindIn(c, k) = IF H = {} THEN NULL ELSE c[Min(H)]
  BY Zenon DEF FindIn
<1>6. ASSUME H # {}
      PROVE  /\ Min(H) \in 1 .. Len(c) /\ c[Min(H)] \in Allocated /\ node[c[Min(H)]].key = k
             /\ FindIn(c, k) = c[Min(H)] /\ FindIn(c, k) # NULL
  <2>1. H \subseteq Nat
    BY <1>3, <1>4
  <2>2. Min(H) \in H
    <3> HIDE DEF H
    <3> QED
      BY <1>6, <2>1, MinIn
  <2>3. Min(H) \in 1 .. Len(c) /\ node[c[Min(H)]].key = k
    <3> HIDE DEF H
    <3> QED
      BY <1>4, <2>2
  <2> DEFINE m == Min(H)
  <2> HIDE DEF m
  <2>4. m \in 1 .. Len(c)
    BY <2>3 DEF m
  <2>5. c[m] \in Allocated
    <3> HIDE DEF c
    <3> QED
      BY <1>2, <2>4
  <2>6. c[m] # NULL
    BY <2>5, HmapAssumption DEF Allocated, NULL
  <2> QED
    BY <1>5, <1>6, <2>3, <2>5, <2>6, Zenon DEF m
<1>7. ASSUME NEW x \in Allocated, node[x].key = k PROVE H # {}
  <2>1. PICK i \in 0 .. n - 1 : \E p \in 1 .. Len(b[i]) : b[i][p] = x
    BY <1>2
  <2>2. PICK p \in 1 .. Len(b[i]) : b[i][p] = x
    BY <2>1
  <2>3. Home[x] = hash[k]
    BY <1>7, HomeOf
  <2>4. i = e
    BY <1>2, <2>2, <2>3
  <2> QED
    BY <1>4, <1>7, <2>2, <2>4, Zenon
<1> HIDE DEF H, c, e
<1>8. FindIn(c, k) # NULL =>
        \E p \in 1 .. Len(c) :
            p = Min(H) /\ FindIn(c, k) = c[p] /\ c[p] \in Allocated /\ node[c[p]].key = k
  <2>1. FindIn(c, k) # NULL => H # {}
    BY <1>5
  <2> QED
    BY <1>6, <2>1, Zenon
<1>9. FindIn(c, k) = NULL => \A x \in Allocated : node[x].key # k
  BY <1>6, <1>7, Zenon
<1> QED
  BY <1>1, <1>8, <1>9, Zenon DEF H, c, e

(* Lookup finds the one node that has the key.                             *)
LEMMA LookupFinds ==
    ASSUME TableInv
    PROVE  \A k \in Keys :
             /\ \A x \in Allocated : node[x].key = k => Lookup(k) = x
             /\ Lookup(k) # NULL => Lookup(k) \in Allocated /\ node[Lookup(k)].key = k
<1> SUFFICES ASSUME NEW k \in Keys
             PROVE  /\ \A x \in Allocated : node[x].key = k => Lookup(k) = x
                    /\ Lookup(k) # NULL => Lookup(k) \in Allocated /\ node[Lookup(k)].key = k
  OBVIOUS
<1>0. TypeOK /\ Placed(buckets, nbuckets, Allocated, Home) /\ KeysOnce
  BY DEF TableInv
<1>1. CASE nbuckets = 0
  <2>1. Lookup(k) = NULL
    BY <1>1 DEF Lookup
  <2>2. Allocated = {}
    <3>1. \A x \in Allocated : \E i \in 0 .. nbuckets - 1 : TRUE
      BY <1>0, Zenon DEF Placed
    <3>2. 0 .. nbuckets - 1 = {}
      BY <1>1
    <3> QED
      BY <3>1, <3>2
  <2> QED
    BY <2>1, <2>2
<1>2. CASE nbuckets # 0
  <2> DEFINE e == hash[k] % nbuckets
             f == FindIn(buckets[e], k)
  <2>1. Lookup(k) = f
    BY <1>2, Zenon DEF Lookup
  <2>2. nbuckets \in Nat \ {0}
    BY <1>0, <1>2 DEF TypeOK
  <2>3. /\ f # NULL => f \in Allocated /\ node[f].key = k
        /\ f = NULL => \A x \in Allocated : node[x].key # k
    <3> HIDE DEF f
    <3>1. /\ FindIn(buckets[e], k) # NULL =>
               FindIn(buckets[e], k) \in Allocated /\ node[FindIn(buckets[e], k)].key = k
          /\ FindIn(buckets[e], k) = NULL => \A x \in Allocated : node[x].key # k
      BY <1>0, <2>2, Find
    <3> QED
      BY <3>1, Zenon DEF f
  <2> HIDE DEF f
  <2> QED
    BY <1>0, <2>1, <2>3 DEF KeysOnce
<1> QED
  BY <1>1, <1>2

(* What hmap_insert does, whether it grew or not: buckets b, the same nodes
   placed among n buckets, then an update, a new node, or nothing.         *)
LEMMA InsertEffect ==
    ASSUME TableInv, NEW k \in Keys, NEW v \in Values, hmap_insert(k, v)
    PROVE  \E b : /\ nbuckets' \in Nat \ {0} /\ Placed(b, nbuckets', Allocated, Home)
                  /\ \/ /\ \E x \in Allocated : node[x].key = k /\ node' = [node EXCEPT ![x].value = v]
                        /\ buckets' = b /\ len' = len
                     \/ \E x \in Nodes \ Allocated :
                          /\ \A y \in Allocated : node[y].key # k
                          /\ node' = [node EXCEPT ![x] = [key |-> k, value |-> v]]
                          /\ buckets' = InFront(b, hash[k] % nbuckets', x)
                          /\ len' = len + 1
                     \/ node' = node /\ buckets' = b /\ len' = len
<1>0. TypeOK /\ Placed(buckets, nbuckets, Allocated, Home)
  BY DEF TableInv
<1>1. nbuckets \in Nat \ {0}
  BY <1>0 DEF TypeOK, hmap_insert
<1>2. \E b : /\ nbuckets' \in Nat \ {0} /\ Placed(b, nbuckets', Allocated, Home)
             /\ store(b, hash[k] % nbuckets', k, v)
  <2>1. CASE nbuckets' = nbuckets /\ store(buckets, hash[k] % nbuckets, k, v)
    <3>1. store(buckets, hash[k] % nbuckets', k, v) /\ Placed(buckets, nbuckets', Allocated, Home)
      BY <1>0, <2>1, Zenon
    <3> QED
      BY <1>1, <2>1, <3>1, Zenon
  <2>2. CASE nbuckets' = 2 * nbuckets /\ store(hmap_grow(2 * nbuckets), hash[k] % (2 * nbuckets), k, v)
    <3>1. 2 * nbuckets \in Nat \ {0}
      BY <1>1
    <3>2. Placed(hmap_grow(2 * nbuckets), 2 * nbuckets, Allocated, Home)
      BY <1>0, <1>1, <3>1, PlacedGrow
    <3>3. /\ Placed(hmap_grow(2 * nbuckets), nbuckets', Allocated, Home)
          /\ store(hmap_grow(2 * nbuckets), hash[k] % nbuckets', k, v)
          /\ nbuckets' \in Nat \ {0}
      BY <2>2, <3>1, <3>2, Zenon
    <3> QED
      BY <3>3, Zenon
  <2> QED
    BY <2>1, <2>2, Zenon DEF hmap_insert
<1>3. PICK b : /\ nbuckets' \in Nat \ {0} /\ Placed(b, nbuckets', Allocated, Home)
               /\ store(b, hash[k] % nbuckets', k, v)
  BY <1>2
<1> DEFINE n == nbuckets'
           e == hash[k] % n
           f == FindIn(b[e], k)
<1>4. /\ f # NULL => f \in Allocated /\ node[f].key = k
      /\ f = NULL => \A x \in Allocated : node[x].key # k
  <2> HIDE DEF n, f
  <2>1. n \in Nat \ {0} /\ Placed(b, n, Allocated, Home)
    BY <1>3 DEF n
  <2>2. /\ FindIn(b[e], k) # NULL => FindIn(b[e], k) \in Allocated /\ node[FindIn(b[e], k)].key = k
        /\ FindIn(b[e], k) = NULL => \A x \in Allocated : node[x].key # k
    BY <1>0, <2>1, Find
  <2> QED
    BY <2>2, Zenon DEF f
<1>5. \/ f # NULL /\ node' = [node EXCEPT ![f].value = v] /\ buckets' = b /\ len' = len
      \/ /\ f = NULL /\ Allocated # Nodes
         /\ node' = [node EXCEPT ![Min(Nodes \ Allocated)] = [key |-> k, value |-> v]]
         /\ buckets' = InFront(b, e, Min(Nodes \ Allocated))
         /\ len' = len + 1
      \/ buckets' = b /\ node' = node /\ len' = len
  BY <1>3, Zenon DEF store
<1> HIDE DEF f
<1>6. CASE f # NULL /\ node' = [node EXCEPT ![f].value = v] /\ buckets' = b /\ len' = len
  BY <1>3, <1>4, <1>6, Zenon
<1>7. CASE /\ f = NULL /\ Allocated # Nodes
           /\ node' = [node EXCEPT ![Min(Nodes \ Allocated)] = [key |-> k, value |-> v]]
           /\ buckets' = InFront(b, e, Min(Nodes \ Allocated))
           /\ len' = len + 1
  <2> DEFINE x == Min(Nodes \ Allocated)
  <2>1. Nodes \ Allocated \subseteq Nat /\ Nodes \ Allocated # {}
    BY <1>7, HmapAssumption DEF Allocated
  <2>2. x \in Nodes \ Allocated
    BY <2>1, MinIn
  <2> HIDE DEF x
  <2>3. \A y \in Allocated : node[y].key # k
    BY <1>4, <1>7
  <2>4. /\ node' = [node EXCEPT ![x] = [key |-> k, value |-> v]]
        /\ buckets' = InFront(b, hash[k] % nbuckets', x)
        /\ len' = len + 1
    BY <1>7, Zenon DEF x
  <2> QED
    BY <1>3, <2>2, <2>3, <2>4, Zenon
<1>8. CASE buckets' = b /\ node' = node /\ len' = len
  BY <1>3, <1>8, Zenon
<1> QED
  BY <1>5, <1>6, <1>7, <1>8, Zenon

LEMMA DeleteEffect ==
    ASSUME TableInv, NEW k \in Keys, hmap_delete(k)
    PROVE  /\ nbuckets \in Nat \ {0}
           /\ \E i \in 0 .. nbuckets - 1 : \E p \in 1 .. Len(buckets[i]) :
                /\ buckets[i][p] \in Allocated /\ node[buckets[i][p]].key = k
                /\ buckets' = [buckets EXCEPT ![i] = RemoveAt(buckets[i], p)]
                /\ node' = [node EXCEPT ![buckets[i][p]] = Free]
                /\ len' = len - 1
<1>0. TypeOK /\ Placed(buckets, nbuckets, Allocated, Home)
  BY DEF TableInv
<1> DEFINE e == hash[k] % nbuckets
           f == FindIn(buckets[e], k)
<1>1. nbuckets # 0 /\ Lookup(k) = f /\ f # NULL
  BY DEF hmap_delete, Lookup
<1>2. nbuckets \in Nat \ {0}
  BY <1>0, <1>1 DEF TypeOK
<1>3. /\ buckets' = [buckets EXCEPT ![e] = RemoveAt(buckets[e], Min(Hits(buckets[e], k)))]
      /\ node' = [node EXCEPT ![Lookup(k)] = Free] /\ len' = len - 1
  BY Zenon DEF hmap_delete
<1>4. /\ e \in 0 .. nbuckets - 1
      /\ \E p \in 1 .. Len(buckets[e]) :
           /\ p = Min(Hits(buckets[e], k)) /\ f = buckets[e][p]
           /\ buckets[e][p] \in Allocated /\ node[buckets[e][p]].key = k
  <2>1. FindIn(buckets[hash[k] % nbuckets], k) # NULL
    BY <1>1
  <2>2. /\ e \in 0 .. nbuckets - 1
        /\ FindIn(buckets[hash[k] % nbuckets], k) # NULL =>
             \E p \in 1 .. Len(buckets[hash[k] % nbuckets]) :
               /\ p = Min(Hits(buckets[hash[k] % nbuckets], k))
               /\ FindIn(buckets[hash[k] % nbuckets], k) = buckets[hash[k] % nbuckets][p]
               /\ buckets[hash[k] % nbuckets][p] \in Allocated
               /\ node[buckets[hash[k] % nbuckets][p]].key = k
    BY <1>0, <1>2, Find
  <2> QED
    BY <2>1, <2>2, Zenon
<1> QED
  BY <1>1, <1>2, <1>3, <1>4, Zenon

(***************************************************************************)
(* Every operation keeps the table                                         *)
(***************************************************************************)

LEMMA PlacedTypes ==
    ASSUME NEW n \in Nat, NEW S, NEW h, NEW b, Placed(b, n, S, h), S \subseteq Nodes
    PROVE  b \in [0 .. n - 1 -> Seq(Nodes)]
<1>1. b \in [0 .. n - 1 -> Seq(S)]
  BY Zenon DEF Placed
<1>2. Seq(S) \subseteq Seq(Nodes)
  OBVIOUS
<1> QED
  BY <1>1, <1>2, Zenon

(* A node that stays allocated and keeps its key keeps its bucket.         *)
LEMMA HomeStays ==
    ASSUME hash' = hash, NEW x \in Allocated, x \in Allocated', node'[x].key = node[x].key
    PROVE  Home'[x] = Home[x]
BY Zenon DEF Home, Allocated

(* The new state's types, put together.                                    *)
LEMMA TypesFrom ==
    ASSUME TypeOK, hash' = hash, nbuckets' \in Nat,
           Placed(buckets', nbuckets', Allocated', Home'), Counted',
           node' \in [Nodes -> [key : Keys, value : Values] \cup {Free}],
           iter' \in [bucket_idx : 0 .. nbuckets', node : Nodes \cup {NULL}],
           walk' \in {"none", "on", "over"}
    PROVE  TypeOK'
<1>1. Allocated' \subseteq Nodes
  BY Zenon DEF Allocated
<1>2. buckets' \in [0 .. nbuckets' - 1 -> Seq(Nodes)]
  <2> DEFINE b == buckets'
             n == nbuckets'
             S == Allocated'
             h == Home'
  <2> HIDE DEF b, n, S, h
  <2>1. n \in Nat /\ Placed(b, n, S, h) /\ S \subseteq Nodes
    BY <1>1, Zenon DEF b, n, S, h
  <2>2. b \in [0 .. n - 1 -> Seq(Nodes)]
    BY <2>1, PlacedTypes
  <2> QED
    BY <2>2, Zenon DEF b, n
<1>3. len' \in Nat
  BY FS_CardinalityType DEF Counted
<1>4. hash' \in [Keys -> Hashes]
  BY DEF TypeOK
<1> QED
  BY <1>2, <1>3, <1>4 DEF TypeOK

LEMMA EndWalkTypes ==
    ASSUME EndWalk, nbuckets' \in Nat
    PROVE  /\ iter' \in [bucket_idx : 0 .. nbuckets', node : Nodes \cup {NULL}]
           /\ walk' \in {"none", "on", "over"}
BY DEF EndWalk

(* A node gets another value.                                              *)
LEMMA UpdateKeeps ==
    ASSUME TableInv, hash' = hash, EndWalk, nbuckets' \in Nat,
           Placed(buckets', nbuckets', Allocated, Home), len' = len,
           NEW v \in Values, NEW x \in Allocated, node' = [node EXCEPT ![x].value = v]
    PROVE  TableInv'
<1>0. TypeOK /\ KeysOnce /\ Counted
  BY DEF TableInv
<1>1. x \in Nodes /\ node[x] \in [key : Keys, value : Values] /\ Allocated \subseteq Nodes
  BY <1>0, HomeOf
<1>2. /\ node' \in [Nodes -> [key : Keys, value : Values] \cup {Free}]
      /\ \A y \in Nodes : y # x => node'[y] = node[y]
      /\ node'[x] = [key |-> node[x].key, value |-> v]
  <2>1. node \in [Nodes -> [key : Keys, value : Values] \cup {Free}]
    BY <1>0 DEF TypeOK
  <2> QED
    BY <1>1, <2>1
<1>3. node'[x] # Free /\ node[x] # Free /\ node'[x].key = node[x].key
  BY <1>2, FreeIsNoNode DEF Allocated
<1>4. Allocated' = Allocated
  BY <1>1, <1>2, <1>3, Zenon DEF Allocated
<1>5. \A y \in Allocated : node'[y].key = node[y].key
  BY <1>1, <1>2, <1>3, Zenon
<1>6. \A y \in Allocated : Home'[y] = Home[y]
  BY <1>4, <1>5, HomeStays
<1>7. Placed(buckets', nbuckets', Allocated', Home')
  <2> DEFINE b == buckets'
             n == nbuckets'
             g == Home'
  <2> HIDE DEF b, n, g
  <2>1. n \in Nat /\ Placed(b, n, Allocated, Home) /\ \A y \in Allocated : g[y] = Home[y]
    BY <1>6, Zenon DEF b, n, g
  <2>2. Placed(b, n, Allocated, g)
    BY <2>1, PlacedFrame
  <2> QED
    BY <1>4, <2>2, Zenon DEF b, n, g
<1>8. KeysOnce'
  <2> SUFFICES ASSUME NEW y \in Allocated', NEW z \in Allocated', node'[y].key = node'[z].key
               PROVE  y = z
    BY DEF KeysOnce
  <2>1. y \in Allocated /\ z \in Allocated
    BY <1>4
  <2>2. node[y].key = node[z].key
    BY <1>5, <2>1
  <2> QED
    BY <1>0, <2>1, <2>2, Zenon DEF KeysOnce
<1>9. Counted'
  BY <1>0, <1>4, Zenon DEF Counted
<1>10. TypeOK'
  BY <1>0, <1>2, <1>7, <1>9, TypesFrom, EndWalkTypes
<1> QED
  BY <1>7, <1>8, <1>9, <1>10, Zenon DEF TableInv

(* A new node is put in front of its bucket.                               *)
LEMMA NewNodeKeeps ==
    ASSUME TableInv, hash' = hash, EndWalk, nbuckets' \in Nat \ {0},
           NEW b, Placed(b, nbuckets', Allocated, Home), len' = len + 1,
           NEW k \in Keys, NEW v \in Values, NEW x \in Nodes \ Allocated,
           \A y \in Allocated : node[y].key # k,
           node' = [node EXCEPT ![x] = [key |-> k, value |-> v]],
           buckets' = InFront(b, hash[k] % nbuckets', x)
    PROVE  TableInv'
<1>0. TypeOK /\ KeysOnce /\ Counted
  BY DEF TableInv
<1>1. x \in Nodes /\ x \notin Allocated /\ Allocated \subseteq Nodes
  BY <1>0, HomeOf
<1>2. /\ node' \in [Nodes -> [key : Keys, value : Values] \cup {Free}]
      /\ \A y \in Nodes : y # x => node'[y] = node[y]
      /\ node'[x] = [key |-> k, value |-> v]
  <2>1. node \in [Nodes -> [key : Keys, value : Values] \cup {Free}]
    BY <1>0 DEF TypeOK
  <2> QED
    BY <1>1, <2>1
<1>3. node'[x] # Free /\ node'[x].key = k
  BY <1>2, FreeIsNoNode
<1>4. Allocated' = Allocated \cup {x}
  BY <1>1, <1>2, <1>3, Zenon DEF Allocated
<1>5. \A y \in Allocated : node'[y].key = node[y].key
  BY <1>1, <1>2, Zenon
<1>6. \A y \in Allocated : Home'[y] = Home[y]
  BY <1>4, <1>5, HomeStays
<1>7. Home'[x] = hash[k] /\ Home'[x] \in Nat
  <2>1. hash[k] \in Nat
    BY <1>0, HmapAssumption DEF TypeOK
  <2>2. Home'[x] = hash[k]
    BY <1>1, <1>3, Zenon DEF Home
  <2> QED
    BY <2>1, <2>2
<1>8. Placed(buckets', nbuckets', Allocated', Home')
  <2> DEFINE n == nbuckets'
             g == Home'
  <2> HIDE DEF n, g
  <2>1. n \in Nat \ {0} /\ Placed(b, n, Allocated, Home) /\ \A y \in Allocated : g[y] = Home[y]
    BY <1>6, Zenon DEF n, g
  <2>2. Placed(b, n, Allocated, g)
    BY <2>1, PlacedFrame
  <2>3. g[x] \in Nat /\ g[x] = hash[k]
    BY <1>7, Zenon DEF g
  <2>4. Placed(InFront(b, g[x] % n, x), n, Allocated \cup {x}, g)
    BY <1>1, <2>1, <2>2, <2>3, PlacedFront
  <2> QED
    BY <1>4, <2>3, <2>4, Zenon DEF n, g
<1>9. KeysOnce'
  <2> SUFFICES ASSUME NEW y \in Allocated', NEW z \in Allocated', node'[y].key = node'[z].key
               PROVE  y = z
    BY DEF KeysOnce
  <2>1. CASE y \in Allocated /\ z \in Allocated
    BY <1>0, <1>5, <2>1, Zenon DEF KeysOnce
  <2>2. CASE y = x \/ z = x
    BY <1>3, <1>4, <1>5, <2>2, Zenon
  <2> QED
    BY <1>4, <2>1, <2>2
<1>10. Counted'
  <2>1. IsFiniteSet(Allocated) /\ len = Cardinality(Allocated)
    BY <1>0 DEF Counted
  <2>2. IsFiniteSet(Allocated \cup {x}) /\ Cardinality(Allocated \cup {x}) = Cardinality(Allocated) + 1
    BY <1>1, <2>1, FS_AddElement
  <2> QED
    BY <1>4, <2>1, <2>2, Zenon DEF Counted
<1>11. TypeOK'
  BY <1>0, <1>2, <1>8, <1>10, TypesFrom, EndWalkTypes
<1> QED
  BY <1>8, <1>9, <1>10, <1>11, Zenon DEF TableInv

(* The nodes stay as they are, among the same or new buckets.              *)
LEMMA SameNodesKeep ==
    ASSUME TableInv, hash' = hash, node' = node, len' = len, nbuckets' \in Nat,
           Placed(buckets', nbuckets', Allocated, Home),
           iter' \in [bucket_idx : 0 .. nbuckets', node : Nodes \cup {NULL}],
           walk' \in {"none", "on", "over"}
    PROVE  TableInv'
<1>0. TypeOK /\ KeysOnce /\ Counted
  BY DEF TableInv
<1>1. Allocated' = Allocated /\ Home' = Home
  BY Zenon DEF Allocated, Home
<1>2. Placed(buckets', nbuckets', Allocated', Home')
  BY <1>1, Zenon
<1>3. KeysOnce' /\ Counted'
  BY <1>0, <1>1, Zenon DEF KeysOnce, Counted
<1>4. node' \in [Nodes -> [key : Keys, value : Values] \cup {Free}]
  BY <1>0, Zenon DEF TypeOK
<1>5. TypeOK'
  BY <1>0, <1>2, <1>3, <1>4, TypesFrom
<1> QED
  BY <1>2, <1>3, <1>5, Zenon DEF TableInv

LEMMA InsertKeeps ==
    ASSUME TableInv, NEW k \in Keys, NEW v \in Values, hmap_insert(k, v)
    PROVE  TableInv'
<1>1. hash' = hash /\ EndWalk
  BY DEF hmap_insert
<1>2. PICK b : /\ nbuckets' \in Nat \ {0} /\ Placed(b, nbuckets', Allocated, Home)
               /\ \/ /\ \E x \in Allocated : node[x].key = k /\ node' = [node EXCEPT ![x].value = v]
                     /\ buckets' = b /\ len' = len
                  \/ \E x \in Nodes \ Allocated :
                       /\ \A y \in Allocated : node[y].key # k
                       /\ node' = [node EXCEPT ![x] = [key |-> k, value |-> v]]
                       /\ buckets' = InFront(b, hash[k] % nbuckets', x)
                       /\ len' = len + 1
                  \/ node' = node /\ buckets' = b /\ len' = len
  BY InsertEffect
<1>3. nbuckets' \in Nat
  BY <1>2
<1>4. CASE /\ \E x \in Allocated : node[x].key = k /\ node' = [node EXCEPT ![x].value = v]
           /\ buckets' = b /\ len' = len
  <2>1. Placed(buckets', nbuckets', Allocated, Home)
    BY <1>2, <1>4, Zenon
  <2>2. PICK x \in Allocated : node' = [node EXCEPT ![x].value = v]
    BY <1>4
  <2> QED
    BY <1>1, <1>3, <1>4, <2>1, <2>2, UpdateKeeps
<1>5. CASE \E x \in Nodes \ Allocated :
             /\ \A y \in Allocated : node[y].key # k
             /\ node' = [node EXCEPT ![x] = [key |-> k, value |-> v]]
             /\ buckets' = InFront(b, hash[k] % nbuckets', x)
             /\ len' = len + 1
  <2>1. PICK x \in Nodes \ Allocated :
             /\ \A y \in Allocated : node[y].key # k
             /\ node' = [node EXCEPT ![x] = [key |-> k, value |-> v]]
             /\ buckets' = InFront(b, hash[k] % nbuckets', x)
             /\ len' = len + 1
    BY <1>5
  <2> QED
    BY <1>1, <1>2, <2>1, NewNodeKeeps
<1>6. CASE node' = node /\ buckets' = b /\ len' = len
  <2>1. Placed(buckets', nbuckets', Allocated, Home)
    BY <1>2, <1>6, Zenon
  <2> QED
    BY <1>1, <1>3, <1>6, <2>1, SameNodesKeep, EndWalkTypes
<1> QED
  BY <1>2, <1>4, <1>5, <1>6, Zenon

LEMMA DeleteKeeps ==
    ASSUME TableInv, NEW k \in Keys, hmap_delete(k)
    PROVE  TableInv'
<1>0. TypeOK /\ Placed(buckets, nbuckets, Allocated, Home) /\ KeysOnce /\ Counted
  BY DEF TableInv
<1>1. hash' = hash /\ EndWalk /\ nbuckets' = nbuckets
  BY DEF hmap_delete
<1>2. nbuckets \in Nat \ {0}
  BY DeleteEffect
<1> DEFINE Unlinks(i, p) ==
             /\ buckets[i][p] \in Allocated /\ node[buckets[i][p]].key = k
             /\ buckets' = [buckets EXCEPT ![i] = RemoveAt(buckets[i], p)]
             /\ node' = [node EXCEPT ![buckets[i][p]] = Free]
             /\ len' = len - 1
<1>a. PICK i \in 0 .. nbuckets - 1 : \E p \in 1 .. Len(buckets[i]) : Unlinks(i, p)
  BY DeleteEffect
<1>3. PICK p \in 1 .. Len(buckets[i]) : Unlinks(i, p)
  BY <1>a
<1> DEFINE x == buckets[i][p]
<1>4. Placed([buckets EXCEPT ![i] = RemoveAt(buckets[i], p)], nbuckets, Allocated \ {x}, Home)
  BY <1>0, <1>2, PlacedCut
<1>5. /\ x \in Allocated /\ Placed(buckets', nbuckets, Allocated \ {x}, Home)
      /\ node' = [node EXCEPT ![x] = Free]
  BY <1>3, <1>4, Zenon
<1> HIDE DEF x
<1>6. x \in Nodes /\ Allocated \subseteq Nodes
  BY <1>0, <1>5, HomeOf
<1>7. /\ node' \in [Nodes -> [key : Keys, value : Values] \cup {Free}]
      /\ \A y \in Nodes : y # x => node'[y] = node[y]
      /\ node'[x] = Free
  <2>1. node \in [Nodes -> [key : Keys, value : Values] \cup {Free}]
    BY <1>0 DEF TypeOK
  <2> QED
    BY <1>5, <1>6, <2>1
<1>8. Allocated' = Allocated \ {x}
  BY <1>6, <1>7, Zenon DEF Allocated
<1>9. \A y \in Allocated \ {x} : node'[y].key = node[y].key
  BY <1>6, <1>7, Zenon
<1>10. \A y \in Allocated \ {x} : Home'[y] = Home[y]
  BY <1>1, <1>8, <1>9, HomeStays
<1>11. Placed(buckets', nbuckets', Allocated', Home')
  <2> DEFINE b == buckets'
             g == Home'
             S == Allocated \ {x}
  <2> HIDE DEF b, g, S
  <2>1. nbuckets \in Nat /\ Placed(b, nbuckets, S, Home) /\ \A y \in S : g[y] = Home[y]
    BY <1>2, <1>5, <1>10, Zenon DEF b, g, S
  <2>2. Placed(b, nbuckets, S, g)
    BY <2>1, PlacedFrame
  <2> QED
    BY <1>1, <1>8, <2>2, Zenon DEF b, g, S
<1>12. KeysOnce'
  <2> SUFFICES ASSUME NEW y \in Allocated', NEW z \in Allocated', node'[y].key = node'[z].key
               PROVE  y = z
    BY DEF KeysOnce
  <2>1. y \in Allocated \ {x} /\ z \in Allocated \ {x}
    BY <1>8
  <2>2. node[y].key = node[z].key
    BY <1>9, <2>1
  <2> QED
    BY <1>0, <2>1, <2>2, Zenon DEF KeysOnce
<1>13. Counted'
  <2>1. IsFiniteSet(Allocated) /\ len = Cardinality(Allocated)
    BY <1>0 DEF Counted
  <2>2. IsFiniteSet(Allocated \ {x}) /\ Cardinality(Allocated \ {x}) = Cardinality(Allocated) - 1
    BY <1>5, <2>1, FS_RemoveElement
  <2> QED
    BY <1>3, <1>8, <2>1, <2>2, Zenon DEF Counted
<1>14. nbuckets' \in Nat
  BY <1>1, <1>2
<1>15. TypeOK'
  BY <1>0, <1>1, <1>7, <1>11, <1>13, <1>14, TypesFrom, EndWalkTypes
<1> QED
  BY <1>11, <1>12, <1>13, <1>15, Zenon DEF TableInv

(* Without buckets there is no node.                                       *)
LEMMA NoBucketsNoNodes ==
    ASSUME TableInv, nbuckets = 0
    PROVE  Allocated = {}
<1>1. \A x \in Allocated : \E i \in 0 .. nbuckets - 1 : TRUE
  BY Zenon DEF TableInv, Placed
<1>2. 0 .. nbuckets - 1 = {}
  OBVIOUS
<1> QED
  BY <1>1, <1>2

LEMMA EmptyTable ==
    ASSUME NEW n \in Nat, NEW b, b = [i \in 0 .. n - 1 |-> <<>>], NEW h
    PROVE  Placed(b, n, {}, h)
<1>1. b \in [0 .. n - 1 -> Seq({})]
  OBVIOUS
<1>2. \A i \in 0 .. n - 1 : b[i] = <<>>
  BY Zenon
<1>3. \A i \in 0 .. n - 1 : \A p \in 1 .. Len(b[i]) : FALSE
  BY <1>2
<1> QED
  BY <1>1, <1>3, Zenon DEF Placed

LEMMA InitKeeps ==
    ASSUME TableInv, hmap_init
    PROVE  TableInv'
<1>1. /\ hash' = hash /\ node' = node /\ EndWalk /\ nbuckets' = InitBuckets /\ len' = 0
      /\ buckets' = [i \in 0 .. InitBuckets - 1 |-> <<>>] /\ nbuckets = 0
  BY DEF hmap_init
<1>2. Allocated = {}
  BY <1>1, NoBucketsNoNodes
<1>3. nbuckets' \in Nat
  BY <1>1, HmapAssumption
<1>4. Placed(buckets', nbuckets', Allocated, Home)
  BY <1>1, <1>2, HmapAssumption, EmptyTable
<1>5. len' = len
  BY <1>1, <1>2, FS_EmptySet DEF TableInv, Counted
<1> QED
  BY <1>1, <1>3, <1>4, <1>5, SameNodesKeep, EndWalkTypes

(* A node that malloc handed out is in some bucket: hmap_deinit frees all. *)
LEMMA DeinitKeeps ==
    ASSUME TableInv, hmap_deinit
    PROVE  TableInv' /\ node' = [x \in Nodes |-> Free] /\ Allocated' = {}
<1>0. TypeOK /\ Placed(buckets, nbuckets, Allocated, Home)
  BY DEF TableInv
<1>1. /\ hash' = hash /\ EndWalk /\ nbuckets' = 0 /\ len' = 0
      /\ buckets' = [i \in {} |-> <<>>]
      /\ node' = [x \in Nodes |->
                    IF \E i \in DOMAIN buckets : x \in ToSet(buckets[i]) THEN Free ELSE node[x]]
  BY DEF hmap_deinit
<1>2. ASSUME NEW x \in Nodes PROVE node'[x] = Free
  <2>1. CASE x \in Allocated
    <3>1. DOMAIN buckets = 0 .. nbuckets - 1 /\ \A i \in 0 .. nbuckets - 1 : buckets[i] \in Seq(Nodes)
      BY <1>0 DEF TypeOK
    <3>2. PICK i \in 0 .. nbuckets - 1 : \E p \in 1 .. Len(buckets[i]) : buckets[i][p] = x
      BY <1>0, <2>1, Zenon DEF Placed
    <3>3. DOMAIN buckets[i] = 1 .. Len(buckets[i])
      BY <3>1
    <3>4. x \in ToSet(buckets[i])
      BY <3>2, <3>3, Zenon DEF ToSet
    <3> QED
      BY <1>1, <3>1, <3>4, Zenon
  <2>2. CASE x \notin Allocated
    <3>1. node[x] = Free
      BY <2>2 DEF Allocated
    <3> QED
      BY <1>1, <3>1, Zenon
  <2> QED
    BY <2>1, <2>2
<1>3. node' = [x \in Nodes |-> Free]
  <2>1. node' = [x \in Nodes |-> node'[x]]
    BY <1>1, Zenon
  <2> QED
    BY <1>2, <2>1, Zenon
<1>4. Allocated' = {}
  BY <1>2, Zenon DEF Allocated
<1>5. Placed(buckets', nbuckets', Allocated', Home')
  <2>1. 0 .. 0 - 1 = {}
    OBVIOUS
  <2>2. buckets' = [i \in 0 .. 0 - 1 |-> <<>>]
    BY <1>1, <2>1, Zenon
  <2> DEFINE g == Home'
  <2> HIDE DEF g
  <2>3. Placed(buckets', 0, {}, g)
    BY <2>2, EmptyTable
  <2> QED
    BY <1>1, <1>4, <2>3, Zenon DEF g
<1>6. KeysOnce'
  BY <1>4, Zenon DEF KeysOnce
<1>7. Counted'
  BY <1>1, <1>4, FS_EmptySet DEF Counted
<1>8. node' \in [Nodes -> [key : Keys, value : Values] \cup {Free}]
  BY <1>3, Zenon
<1>9. TypeOK'
  <2>1. nbuckets' \in Nat
    BY <1>1
  <2> QED
    BY <1>0, <1>1, <1>5, <1>7, <1>8, <2>1, TypesFrom, EndWalkTypes
<1> QED
  BY <1>3, <1>4, <1>5, <1>6, <1>7, <1>9, Zenon DEF TableInv

(***************************************************************************)
(* Iteration: seen holds the keys of the places the iterator has passed    *)
(***************************************************************************)

Filled(i, p) == i \in 0 .. nbuckets - 1 /\ p \in 1 .. Len(buckets[i])

(* The iterator has passed place p of bucket i: the bucket is behind it, or
   it is the current one and the place is not beyond the current node.     *)
Shown(i, p) ==
    /\ i < iter.bucket_idx
    /\ i = iter.bucket_idx - 1 =>
         \E q \in 1 .. Len(buckets[i]) : p <= q /\ buckets[i][q] = iter.node

InSeen(k) == \E q \in 1 .. Len(seen) : seen[q] = k

UnderWay ==
    /\ nbuckets > 0
    /\ iter.node = NULL => iter.bucket_idx = 0
    /\ iter.node # NULL =>
         /\ iter.bucket_idx > 0
         /\ \E q \in 1 .. Len(buckets[iter.bucket_idx - 1]) :
               buckets[iter.bucket_idx - 1][q] = iter.node
    /\ \A i, p : Filled(i, p) => (Shown(i, p) <=> InSeen(node[buckets[i][p]].key))

WalkInv ==
    /\ seen \in Seq(Keys)
    /\ \A p, q \in 1 .. Len(seen) : seen[p] = seen[q] => p = q
    /\ \A q \in 1 .. Len(seen) : \E x \in Allocated : node[x].key = seen[q]
    /\ walk = "on" => UnderWay
    /\ walk = "over" => \A x \in Allocated : InSeen(node[x].key)

LEMMA FilledNode ==
    ASSUME TableInv, NEW i, NEW p, Filled(i, p)
    PROVE  /\ buckets[i][p] \in Allocated
           /\ hash[node[buckets[i][p]].key] % nbuckets = i
           /\ \A q \in 1 .. Len(buckets[i]) : buckets[i][q] = buckets[i][p] => q = p
<1>0. TypeOK /\ Placed(buckets, nbuckets, Allocated, Home)
  BY DEF TableInv
<1>1. i \in 0 .. nbuckets - 1 /\ p \in 1 .. Len(buckets[i])
  BY DEF Filled
<1>2. /\ buckets[i] \in Seq(Allocated) /\ Home[buckets[i][p]] % nbuckets = i
      /\ \A q \in 1 .. Len(buckets[i]) : buckets[i][q] = buckets[i][p] => q = p
  BY <1>0, <1>1, Zenon DEF Placed
<1>3. buckets[i][p] \in Allocated
  BY <1>1, <1>2
<1>4. Home[buckets[i][p]] = hash[node[buckets[i][p]].key]
  BY <1>0, <1>3, HomeOf
<1> QED
  BY <1>2, <1>3, <1>4

(* A key is in one place.                                                  *)
LEMMA OnePlace ==
    ASSUME TableInv, NEW i, NEW p, Filled(i, p), NEW j, NEW q, Filled(j, q),
           node[buckets[i][p]].key = node[buckets[j][q]].key
    PROVE  i = j /\ p = q
<1>1. buckets[i][p] \in Allocated /\ buckets[j][q] \in Allocated
  BY FilledNode
<1>2. buckets[i][p] = buckets[j][q]
  BY <1>1, Zenon DEF TableInv, KeysOnce
<1>3. i = j
  <2>1. hash[node[buckets[i][p]].key] % nbuckets = i /\ hash[node[buckets[j][q]].key] % nbuckets = j
    BY FilledNode
  <2> QED
    BY <1>2, <2>1
<1>4. p = q
  <2>1. \A r \in 1 .. Len(buckets[j]) : buckets[j][r] = buckets[j][q] => r = q
    BY FilledNode
  <2>2. p \in 1 .. Len(buckets[j])
    BY <1>3 DEF Filled
  <2> QED
    BY <1>2, <1>3, <2>1, <2>2
<1> QED
  BY <1>3, <1>4

(* The walk goes one place further and shows the node there.               *)
LEMMA ShowKeeps ==
    ASSUME TableInv, WalkInv, walk = "on", UNCHANGED <<hash, table>>, walk' = walk,
           NEW i, NEW p, Filled(i, p), ~Shown(i, p),
           iter' = [bucket_idx |-> i + 1, node |-> buckets[i][p]],
           seen' = Append(seen, node[buckets[i][p]].key),
           \A j, q : Filled(j, q) => (Shown(j, q)' <=> Shown(j, q) \/ (j = i /\ q = p))
    PROVE  WalkInv'
<1> DEFINE x == buckets[i][p]
           k == node[x].key
<1>0. TypeOK /\ nbuckets > 0 /\ nbuckets \in Nat
  BY DEF TableInv, TypeOK, WalkInv, UnderWay
<1>1. x \in Allocated /\ node[x] \in [key : Keys, value : Values] /\ k \in Keys
  <2>1. x \in Allocated
    BY FilledNode
  <2>2. node[x] \in [key : Keys, value : Values]
    BY <1>0, <2>1, HomeOf
  <2> QED
    BY <2>1, <2>2
<1>2. \A j, q : Filled(j, q)' <=> Filled(j, q)
  BY DEF Filled, table
<1>3. hash' = hash /\ buckets' = buckets /\ nbuckets' = nbuckets /\ node' = node /\ Allocated' = Allocated
  BY DEF table, Allocated
<1>4. ~InSeen(k)
  BY DEF WalkInv, UnderWay
<1>5. seen \in Seq(Keys) /\ Len(seen) \in Nat
  BY DEF WalkInv
<1> HIDE DEF k
<1>6. /\ seen' \in Seq(Keys) /\ Len(seen') = Len(seen) + 1
      /\ seen'[Len(seen) + 1] = k
      /\ \A q \in 1 .. Len(seen) : seen'[q] = seen[q]
  <2>1. seen' = Append(seen, k)
    BY DEF k
  <2> QED
    BY <1>1, <1>5, <2>1
<1>7. ASSUME NEW l PROVE InSeen(l)' <=> InSeen(l) \/ l = k
  <2>1. ASSUME InSeen(l)' PROVE InSeen(l) \/ l = k
    <3>1. PICK q \in 1 .. Len(seen') : seen'[q] = l
      BY <2>1 DEF InSeen
    <3>2. CASE q = Len(seen) + 1
      BY <1>6, <3>1, <3>2
    <3>3. CASE q # Len(seen) + 1
      <4>1. q \in 1 .. Len(seen)
        BY <1>5, <1>6, <3>3
      <4> QED
        BY <1>6, <3>1, <4>1 DEF InSeen
    <3> QED
      BY <3>2, <3>3
  <2>2. ASSUME InSeen(l) PROVE InSeen(l)'
    <3>1. PICK q \in 1 .. Len(seen) : seen[q] = l
      BY <2>2 DEF InSeen
    <3>2. q \in 1 .. Len(seen') /\ seen'[q] = l
      BY <1>5, <1>6, <3>1
    <3> QED
      BY <3>2, Zenon DEF InSeen
  <2>3. ASSUME l = k PROVE InSeen(l)'
    <3>1. Len(seen) + 1 \in 1 .. Len(seen')
      BY <1>5, <1>6
    <3> QED
      BY <1>6, <2>3, <3>1, Zenon DEF InSeen
  <2> QED
    BY <2>1, <2>2, <2>3
<1>8. ASSUME NEW q \in 1 .. Len(seen'), NEW r \in 1 .. Len(seen'), seen'[q] = seen'[r] PROVE q = r
  <2>1. \A s \in 1 .. Len(seen) : seen[s] # k
    BY <1>4, Zenon DEF InSeen
  <2>2. /\ q \in 1 .. Len(seen) \/ q = Len(seen) + 1
        /\ r \in 1 .. Len(seen) \/ r = Len(seen) + 1
    BY <1>5, <1>6
  <2>3. \A s, t \in 1 .. Len(seen) : seen[s] = seen[t] => s = t
    BY DEF WalkInv
  <2> QED
    BY <1>6, <1>8, <2>1, <2>2, <2>3
<1>9. ASSUME NEW q \in 1 .. Len(seen') PROVE \E y \in Allocated' : node'[y].key = seen'[q]
  <2>1. CASE q = Len(seen) + 1
    BY <1>1, <1>3, <1>6, <2>1 DEF k
  <2>2. CASE q # Len(seen) + 1
    <3>1. q \in 1 .. Len(seen)
      BY <1>5, <1>6, <2>2
    <3>2. \E y \in Allocated : node[y].key = seen[q]
      BY <3>1, Zenon DEF WalkInv
    <3> QED
      BY <1>3, <1>6, <3>1, <3>2
  <2> QED
    BY <2>1, <2>2
<1>10. UnderWay'
  <2>1. nbuckets' > 0
    BY <1>0, <1>3
  <2>2. iter'.node = x /\ iter'.bucket_idx = i + 1 /\ x # NULL
    BY <1>1, HmapAssumption DEF Allocated, NULL
  <2>3. i \in 0 .. nbuckets - 1 /\ p \in 1 .. Len(buckets[i])
    BY DEF Filled
  <2>4. iter'.bucket_idx > 0 /\ iter'.bucket_idx - 1 = i
    BY <1>0, <2>2, <2>3
  <2>5. \E q \in 1 .. Len(buckets'[iter'.bucket_idx - 1]) : buckets'[iter'.bucket_idx - 1][q] = iter'.node
    BY <1>3, <2>2, <2>3, <2>4
  <2>6. ASSUME NEW j, NEW q, Filled(j, q) PROVE Shown(j, q)' <=> InSeen(node[buckets[j][q]].key)'
    <3>1. Shown(j, q) <=> InSeen(node[buckets[j][q]].key)
      BY <2>6 DEF WalkInv, UnderWay
    <3>2. node[buckets[j][q]].key = k <=> j = i /\ q = p
      BY <2>6, OnePlace DEF k
    <3>3. InSeen(node[buckets[j][q]].key)' <=> InSeen(node[buckets[j][q]].key) \/ node[buckets[j][q]].key = k
      <4> DEFINE l == node[buckets[j][q]].key
      <4>1. l' = l
        BY <1>3
      <4> QED
        BY <1>3, <1>7, <4>1 DEF InSeen
    <3> QED
      BY <2>6, <3>1, <3>2, <3>3
  <2> QED
    BY <1>2, <2>1, <2>2, <2>4, <2>5, <2>6, Zenon DEF UnderWay
<1>11. walk' # "over"
  OBVIOUS
<1> QED
  BY <1>6, <1>8, <1>9, <1>10, <1>11, Zenon DEF WalkInv

(* Where the iterator stands, the next pointer leads one place further.    *)
LEMMA NextPlace ==
    ASSUME TableInv, NEW i, NEW p, Filled(i, p)
    PROVE  NextInChain(buckets[i][p]) = IF p < Len(buckets[i]) THEN buckets[i][p + 1] ELSE NULL
<1> DEFINE x == buckets[i][p]
           I == {q \in 1 .. Len(buckets[i]) : buckets[i][q] = x}
<1>1. /\ hash[node[x].key] % nbuckets = i
      /\ \A q \in 1 .. Len(buckets[i]) : buckets[i][q] = x => q = p
  BY FilledNode
<1>2. p \in 1 .. Len(buckets[i])
  BY DEF Filled
<1>3. I = {p}
  BY <1>1, <1>2
<1>4. Min(I) = p
  <2>1. {p} \subseteq Nat /\ {p} # {}
    BY <1>2
  <2>2. Min({p}) \in {p}
    BY <2>1, MinIn
  <2> QED
    BY <1>3, <2>2
<1>5. SelectInSeq(buckets[i], LAMBDA m : m = x) = p
  BY <1>3, <1>4, Zenon DEF SelectInSeq
<1> QED
  BY <1>1, <1>5, Zenon DEF NextInChain

(* The places shown, by the position of the iterator in its bucket.        *)
LEMMA ShownUpTo ==
    ASSUME TableInv, iter.bucket_idx \in Nat,
           NEW r, Filled(iter.bucket_idx - 1, r),
           buckets[iter.bucket_idx - 1][r] = iter.node,
           NEW j, NEW q, Filled(j, q)
    PROVE  Shown(j, q) <=> j < iter.bucket_idx /\ (j = iter.bucket_idx - 1 => q <= r)
<1>1. \A s \in 1 .. Len(buckets[iter.bucket_idx - 1]) :
         buckets[iter.bucket_idx - 1][s] = iter.node => s = r
  BY FilledNode
<1>2. r \in 1 .. Len(buckets[iter.bucket_idx - 1])
  BY DEF Filled
<1>3. ASSUME j = iter.bucket_idx - 1
      PROVE  (\E s \in 1 .. Len(buckets[j]) : q <= s /\ buckets[j][s] = iter.node) <=> q <= r
  BY <1>1, <1>2, <1>3
<1> QED
  BY <1>3, Zenon DEF Shown

LEMMA IterNextKeeps ==
    ASSUME TableInv, WalkInv, hmap_iter_next
    PROVE  TableInv' /\ WalkInv'
<1> DEFINE bi == iter.bucket_idx
           next == IF iter.node = NULL THEN NULL ELSE NextInChain(iter.node)
           Showing(i, p) ==
             /\ Filled(i, p) /\ ~Shown(i, p) /\ i \in 0 .. nbuckets - 1
             /\ iter' = [bucket_idx |-> i + 1, node |-> buckets[i][p]]
             /\ seen' = Append(seen, node[buckets[i][p]].key) /\ walk' = walk
             /\ \A j, q : Filled(j, q) => (Shown(j, q)' <=> Shown(j, q) \/ (j = i /\ q = p))
<1>0. TypeOK /\ walk = "on" /\ UnderWay /\ hash' = hash /\ UNCHANGED table
  BY DEF TableInv, WalkInv, hmap_iter_next
<1>1. bi \in 0 .. nbuckets /\ nbuckets \in Nat /\ iter.node \in Nodes \cup {NULL} /\ nbuckets > 0
  BY <1>0 DEF TypeOK, UnderWay
<1>2. buckets' = buckets /\ nbuckets' = nbuckets /\ node' = node /\ len' = len
  BY <1>0 DEF table
<1>3. \A j, q : Filled(j, q)' <=> Filled(j, q)
  BY <1>2 DEF Filled
<1>4. \A j, q : Filled(j, q) => j \in Nat /\ q \in Nat /\ q >= 1 /\ q <= Len(buckets[j])
                                /\ j <= nbuckets - 1 /\ j \in 0 .. nbuckets - 1 /\ q \in 1 .. Len(buckets[j])
  <2>1. \A j \in 0 .. nbuckets - 1 : Len(buckets[j]) \in Nat
    BY <1>0 DEF TypeOK
  <2> QED
    BY <1>1, <2>1 DEF Filled
<1>5. \A i, p : /\ Filled(i, p) /\ iter' = [bucket_idx |-> i + 1, node |-> buckets[i][p]]
                => \A j, q : Filled(j, q) =>
                     (Shown(j, q)' <=> j < i + 1 /\ (j = i => q <= p))
  <2> SUFFICES ASSUME NEW i, NEW p, Filled(i, p),
                      iter' = [bucket_idx |-> i + 1, node |-> buckets[i][p]],
                      NEW j, NEW q, Filled(j, q)
               PROVE  Shown(j, q)' <=> j < i + 1 /\ (j = i => q <= p)
    OBVIOUS
  <2>1. iter'.bucket_idx = i + 1 /\ iter'.node = buckets[i][p] /\ (i + 1) - 1 = i
    BY <1>4
  <2>2. \A s \in 1 .. Len(buckets[i]) : buckets[i][s] = buckets[i][p] => s = p
    BY FilledNode
  <2>3. p \in 1 .. Len(buckets[i])
    BY DEF Filled
  <2>4. ASSUME j = i
        PROVE  (\E s \in 1 .. Len(buckets[j]) : q <= s /\ buckets[j][s] = buckets[i][p]) <=> q <= p
    BY <2>2, <2>3, <2>4
  <2> QED
    BY <1>2, <2>1, <2>4, Zenon DEF Shown
<1>6. ASSUME next # NULL,
             iter' = [iter EXCEPT !.node = next], Show(next)
      PROVE  \E i, p : Showing(i, p)
  <2>1. iter.node # NULL /\ next = NextInChain(iter.node)
    BY <1>6
  <2>2. PICK r \in 1 .. Len(buckets[bi - 1]) : bi > 0 /\ buckets[bi - 1][r] = iter.node
    BY <1>0, <2>1, Zenon DEF UnderWay
  <2>3. bi - 1 \in 0 .. nbuckets - 1 /\ Filled(bi - 1, r) /\ (bi - 1) + 1 = bi
    BY <1>1, <2>2 DEF Filled
  <2>4. next = IF r < Len(buckets[bi - 1]) THEN buckets[bi - 1][r + 1] ELSE NULL
    <3>1. NextInChain(buckets[bi - 1][r]) = IF r < Len(buckets[bi - 1]) THEN buckets[bi - 1][r + 1] ELSE NULL
      BY <2>3, NextPlace
    <3> QED
      BY <2>1, <2>2, <3>1
  <2> HIDE DEF next
  <2>5. r < Len(buckets[bi - 1]) /\ next = buckets[bi - 1][r + 1]
    BY <1>6, <2>4
  <2>6. Filled(bi - 1, r + 1) /\ r \in Nat
    BY <1>4, <2>3, <2>5 DEF Filled
  <2>7. \A j, q : Filled(j, q) => (Shown(j, q) <=> j < bi /\ (j = bi - 1 => q <= r))
    <3>1. bi \in Nat
      BY <1>1
    <3> QED
      BY <2>2, <2>3, <3>1, ShownUpTo
  <2>8. iter' = [bucket_idx |-> (bi - 1) + 1, node |-> buckets[bi - 1][r + 1]]
    <3>1. iter = [bucket_idx |-> bi, node |-> iter.node]
      BY <1>0 DEF TypeOK
    <3> QED
      BY <1>6, <2>3, <2>5, <3>1
  <2>9. \A j, q : Filled(j, q) => (Shown(j, q)' <=> j < (bi - 1) + 1 /\ (j = bi - 1 => q <= r + 1))
    BY <1>5, <2>6, <2>8
  <2>10. ASSUME NEW j, NEW q, Filled(j, q)
         PROVE  Shown(j, q)' <=> Shown(j, q) \/ (j = bi - 1 /\ q = r + 1)
    <3>1. j \in Nat /\ q \in Nat
      BY <1>4, <2>10
    <3>2. Shown(j, q)' <=> j < (bi - 1) + 1 /\ (j = bi - 1 => q <= r + 1)
      BY <2>9, <2>10
    <3>3. Shown(j, q) <=> j < bi /\ (j = bi - 1 => q <= r)
      BY <2>7, <2>10
    <3> QED
      BY <1>1, <2>6, <3>1, <3>2, <3>3
  <2>11. ~Shown(bi - 1, r + 1)
    <3>1. Shown(bi - 1, r + 1) <=> bi - 1 < bi /\ (bi - 1 = bi - 1 => r + 1 <= r)
      BY <2>6, <2>7
    <3> QED
      BY <2>6, <3>1
  <2>12. seen' = Append(seen, node[buckets[bi - 1][r + 1]].key) /\ walk' = walk
    BY <1>6, <2>5 DEF Show
  <2>13. Showing(bi - 1, r + 1)
    BY <2>3, <2>6, <2>8, <2>10, <2>11, <2>12, Zenon
  <2> HIDE DEF Showing
  <2> QED
    BY <2>13, Zenon
<1>7. ASSUME next = NULL PROVE \A j, q : Filled(j, q) => (Shown(j, q) <=> j < bi)
  <2>1. CASE iter.node = NULL
    <3>1. bi = 0
      BY <1>0, <2>1 DEF UnderWay
    <3> QED
      BY <1>4, <3>1 DEF Shown
  <2>2. CASE iter.node # NULL
    <3>2. PICK r \in 1 .. Len(buckets[bi - 1]) : bi > 0 /\ buckets[bi - 1][r] = iter.node
      BY <1>0, <2>2, Zenon DEF UnderWay
    <3>3. bi - 1 \in 0 .. nbuckets - 1 /\ Filled(bi - 1, r) /\ bi \in Nat
      BY <1>1, <3>2 DEF Filled
    <3>4. NULL = IF r < Len(buckets[bi - 1]) THEN buckets[bi - 1][r + 1] ELSE NULL
      <4>1. NextInChain(buckets[bi - 1][r]) = IF r < Len(buckets[bi - 1]) THEN buckets[bi - 1][r + 1] ELSE NULL
        BY <3>3, NextPlace
      <4> QED
        BY <1>7, <2>2, <3>2, <4>1
    <3>5. ~(r < Len(buckets[bi - 1]))
      <4>1. ASSUME r < Len(buckets[bi - 1]) PROVE FALSE
        <5>1. Filled(bi - 1, r + 1)
          BY <1>4, <3>3, <4>1 DEF Filled
        <5>2. buckets[bi - 1][r + 1] \in Allocated
          BY <5>1, FilledNode
        <5> QED
          BY <3>4, <4>1, <5>2, HmapAssumption DEF Allocated, NULL
      <4> QED
        BY <4>1
    <3>6. ASSUME NEW j, NEW q, Filled(j, q) PROVE Shown(j, q) <=> j < bi
      <4>1. Shown(j, q) <=> j < bi /\ (j = bi - 1 => q <= r)
        BY <3>2, <3>3, <3>6, ShownUpTo
      <4>2. j = bi - 1 => q <= r
        BY <1>4, <3>3, <3>5, <3>6
      <4> QED
        BY <4>1, <4>2
    <3> QED
      BY <3>6
  <2> QED
    BY <2>1, <2>2
<1>8. FilledFrom(bi) \subseteq Nat /\ \A i \in FilledFrom(bi) : i \in 0 .. nbuckets - 1 /\ i >= bi /\ Filled(i, 1)
  <2>1. FilledFrom(bi) \subseteq Nat /\ \A i \in FilledFrom(bi) : i \in 0 .. nbuckets - 1 /\ i >= bi /\ buckets[i] # <<>>
    BY <1>1 DEF FilledFrom
  <2>2. \A i \in 0 .. nbuckets - 1 : buckets[i] # <<>> => 1 \in 1 .. Len(buckets[i])
    <3>1. \A i \in 0 .. nbuckets - 1 : buckets[i] \in Seq(Nodes)
      BY <1>0 DEF TypeOK
    <3>2. ASSUME NEW s \in Seq(Nodes), s # <<>> PROVE 1 \in 1 .. Len(s)
      BY <3>2
    <3> QED
      BY <3>1, <3>2
  <2> QED
    BY <2>1, <2>2 DEF Filled
<1>9. \A j, q : Filled(j, q) /\ j >= bi => j \in FilledFrom(bi)
  <2> SUFFICES ASSUME NEW j, NEW q, Filled(j, q), j >= bi PROVE j \in FilledFrom(bi)
    OBVIOUS
  <2>1. j \in bi .. nbuckets - 1 /\ q \in 1 .. Len(buckets[j])
    BY <1>1, <1>4
  <2>2. buckets[j] # <<>>
    BY <2>1
  <2> QED
    BY <2>1, <2>2 DEF FilledFrom
<1>10. ASSUME next = NULL, FilledFrom(bi) # {},
              iter' = [bucket_idx |-> Min(FilledFrom(bi)) + 1, node |-> buckets[Min(FilledFrom(bi))][1]],
              Show(buckets[Min(FilledFrom(bi))][1])
       PROVE  \E i, p : Showing(i, p)
  <2> DEFINE i == Min(FilledFrom(bi))
  <2>1. i \in FilledFrom(bi) /\ \A j \in FilledFrom(bi) : i <= j
    BY <1>8, <1>10, MinIn
  <2> HIDE DEF i
  <2>2. i \in 0 .. nbuckets - 1 /\ i >= bi /\ Filled(i, 1)
    BY <1>8, <2>1
  <2>3. /\ iter' = [bucket_idx |-> i + 1, node |-> buckets[i][1]]
        /\ seen' = Append(seen, node[buckets[i][1]].key) /\ walk' = walk
    BY <1>10, Zenon DEF i, Show
  <2>4. \A j, q : Filled(j, q) => (Shown(j, q)' <=> j < i + 1 /\ (j = i => q <= 1))
    BY <1>5, <2>2, <2>3
  <2>5. ASSUME NEW j, NEW q, Filled(j, q) PROVE Shown(j, q)' <=> Shown(j, q) \/ (j = i /\ q = 1)
    <3>1. j \in Nat /\ q \in Nat /\ q >= 1
      BY <1>4, <2>5
    <3>2. Shown(j, q)' <=> j < i + 1 /\ (j = i => q <= 1)
      BY <2>4, <2>5
    <3>3. Shown(j, q) <=> j < bi
      BY <1>7, <1>10, <2>5
    <3>4. j >= bi => i <= j
      BY <1>9, <2>1, <2>5
    <3> QED
      BY <1>1, <2>2, <3>1, <3>2, <3>3, <3>4
  <2>6. ~Shown(i, 1)
    <3>1. Shown(i, 1) <=> i < bi
      BY <1>7, <1>10, <2>2
    <3> QED
      BY <1>1, <2>2, <3>1
  <2>7. Showing(i, 1)
    BY <2>2, <2>3, <2>5, <2>6, Zenon
  <2> HIDE DEF Showing
  <2> QED
    BY <2>7, Zenon
<1>11. ASSUME NEW i, NEW p, Showing(i, p) PROVE TableInv' /\ WalkInv'
  <2>1. WalkInv'
    BY <1>0, <1>11, ShowKeeps
  <2>2. iter' \in [bucket_idx : 0 .. nbuckets', node : Nodes \cup {NULL}] /\ walk' \in {"none", "on", "over"}
    <3>1. buckets[i][p] \in Nodes
      BY <1>11, FilledNode DEF Allocated
    <3>2. i + 1 \in 0 .. nbuckets
      BY <1>1, <1>11
    <3> QED
      BY <1>0, <1>2, <1>11, <3>1, <3>2
  <2>3. Placed(buckets', nbuckets', Allocated, Home) /\ nbuckets' \in Nat
    BY <1>1, <1>2, Zenon DEF TableInv
  <2>4. TableInv'
    BY <1>0, <1>2, <2>2, <2>3, SameNodesKeep
  <2> QED
    BY <2>1, <2>4
<1>12. ASSUME next = NULL, FilledFrom(bi) = {},
              iter' = [bucket_idx |-> nbuckets, node |-> NULL], walk' = "over", seen' = seen
       PROVE  TableInv' /\ WalkInv'
  <2>1. iter' \in [bucket_idx : 0 .. nbuckets', node : Nodes \cup {NULL}] /\ walk' \in {"none", "on", "over"}
    BY <1>1, <1>2, <1>12
  <2>2. Placed(buckets', nbuckets', Allocated, Home) /\ nbuckets' \in Nat
    BY <1>1, <1>2, Zenon DEF TableInv
  <2>3. TableInv'
    BY <1>0, <1>2, <2>1, <2>2, SameNodesKeep
  <2>4. Allocated' = Allocated
    BY <1>2 DEF Allocated
  <2>5. ASSUME NEW x \in Allocated PROVE InSeen(node[x].key)
    <3>1. PICK i \in 0 .. nbuckets - 1 : \E p \in 1 .. Len(buckets[i]) : buckets[i][p] = x
      BY Zenon DEF TableInv, Placed
    <3>2. PICK p \in 1 .. Len(buckets[i]) : buckets[i][p] = x
      BY <3>1
    <3>3. Filled(i, p)
      BY DEF Filled
    <3>4. i < bi
      BY <1>1, <1>9, <1>12, <3>3
    <3>5. Shown(i, p)
      BY <1>7, <1>12, <3>3, <3>4
    <3> QED
      BY <1>0, <3>2, <3>3, <3>5, Zenon DEF UnderWay
  <2>6. \A x \in Allocated' : InSeen(node[x].key)'
    BY <1>2, <1>12, <2>4, <2>5 DEF InSeen
  <2>7. WalkInv'
    <3>1. /\ seen' \in Seq(Keys)
          /\ \A p, q \in 1 .. Len(seen') : seen'[p] = seen'[q] => p = q
          /\ \A q \in 1 .. Len(seen') : \E x \in Allocated' : node'[x].key = seen'[q]
      BY <1>2, <1>12, <2>4, Zenon DEF WalkInv
    <3>2. walk' # "on"
      BY <1>12
    <3> QED
      BY <2>6, <3>1, <3>2, Zenon DEF WalkInv
  <2> QED
    BY <2>3, <2>7
<1>13. \/ next # NULL /\ iter' = [iter EXCEPT !.node = next] /\ Show(next)
       \/ /\ next = NULL /\ FilledFrom(bi) # {}
          /\ iter' = [bucket_idx |-> Min(FilledFrom(bi)) + 1, node |-> buckets[Min(FilledFrom(bi))][1]]
          /\ Show(buckets[Min(FilledFrom(bi))][1])
       \/ /\ next = NULL /\ FilledFrom(bi) = {}
          /\ iter' = [bucket_idx |-> nbuckets, node |-> NULL] /\ walk' = "over" /\ seen' = seen
  BY Zenon DEF hmap_iter_next
<1> HIDE DEF next, bi, Showing
<1> QED
  BY <1>6, <1>10, <1>11, <1>12, <1>13, Zenon

(***************************************************************************)
(* The inductive invariant                                                 *)
(***************************************************************************)

HmapInv == TableInv /\ WalkInv

(* No walk is under way once the map has changed.                          *)
LEMMA EndWalkKeeps ==
    ASSUME EndWalk
    PROVE  WalkInv'
<1>1. seen' = <<>> /\ walk' = "none"
  BY DEF EndWalk
<1>2. seen' \in Seq(Keys) /\ 1 .. Len(seen') = {}
  BY <1>1
<1>3. walk' # "on" /\ walk' # "over"
  BY <1>1
<1> QED
  BY <1>2, <1>3, Zenon DEF WalkInv

LEMMA IterInitKeeps ==
    ASSUME TableInv, hmap_iter_init
    PROVE  TableInv' /\ WalkInv'
<1>1. /\ hash' = hash /\ buckets' = buckets /\ nbuckets' = nbuckets /\ node' = node /\ len' = len
      /\ iter' = [bucket_idx |-> 0, node |-> NULL] /\ seen' = <<>> /\ walk' = "on" /\ nbuckets > 0
  BY DEF hmap_iter_init, table
<1>2. nbuckets \in Nat
  BY DEF TableInv, TypeOK
<1>3. TableInv'
  <2>1. iter' \in [bucket_idx : 0 .. nbuckets', node : Nodes \cup {NULL}] /\ walk' \in {"none", "on", "over"}
    BY <1>1, <1>2
  <2>2. Placed(buckets', nbuckets', Allocated, Home) /\ nbuckets' \in Nat
    BY <1>1, <1>2, Zenon DEF TableInv
  <2> QED
    BY <1>1, <2>1, <2>2, SameNodesKeep
<1>4. seen' \in Seq(Keys) /\ 1 .. Len(seen') = {}
  BY <1>1
<1>5. \A k : ~InSeen(k)'
  BY <1>4 DEF InSeen
<1>6. iter'.bucket_idx = 0 /\ iter'.node = NULL
  BY <1>1
<1>7. ASSUME NEW i, NEW p, Filled(i, p)' PROVE ~Shown(i, p)'
  <2>1. i \in 0 .. nbuckets - 1
    BY <1>1, <1>7 DEF Filled
  <2> QED
    BY <1>2, <1>6, <2>1 DEF Shown
<1>8. UnderWay'
  <2>1. \A i, p : Filled(i, p)' => (Shown(i, p)' <=> InSeen(node[buckets[i][p]].key)')
    BY <1>5, <1>7, Zenon DEF InSeen
  <2>2. nbuckets' > 0
    BY <1>1
  <2> QED
    BY <1>6, <2>1, <2>2, Zenon DEF UnderWay
<1>9. walk' # "over"
  BY <1>1
<1> QED
  BY <1>3, <1>4, <1>8, <1>9, Zenon DEF WalkInv

LEMMA HmapInit == Init => HmapInv
<1> SUFFICES ASSUME Init PROVE HmapInv
  OBVIOUS
<1>1. /\ hash \in [Keys -> Hashes] /\ buckets = [i \in {} |-> <<>>] /\ nbuckets = 0 /\ len = 0
      /\ node = [n \in Nodes |-> Free]
      /\ iter = [bucket_idx |-> 0, node |-> NULL] /\ seen = <<>> /\ walk = "none"
  BY DEF Init
<1>2. Allocated = {}
  BY <1>1, Zenon DEF Allocated
<1>3. 0 .. 0 - 1 = {}
  OBVIOUS
<1>4. Placed(buckets, nbuckets, Allocated, Home)
  <2>1. buckets = [i \in 0 .. 0 - 1 |-> <<>>]
    BY <1>1, <1>3, Zenon
  <2>2. Placed(buckets, 0, {}, Home)
    BY <2>1, EmptyTable
  <2> QED
    BY <1>1, <1>2, <2>2, Zenon
<1>5. KeysOnce /\ Counted
  BY <1>1, <1>2, FS_EmptySet DEF KeysOnce, Counted
<1>6. TypeOK
  <2>1. buckets \in [0 .. nbuckets - 1 -> Seq(Nodes)]
    BY <1>1, <1>3
  <2>2. iter \in [bucket_idx : 0 .. nbuckets, node : Nodes \cup {NULL}]
    BY <1>1
  <2>3. node \in [Nodes -> [key : Keys, value : Values] \cup {Free}]
    BY <1>1, Zenon
  <2> QED
    BY <1>1, <2>1, <2>2, <2>3 DEF TypeOK
<1>7. WalkInv
  <2>1. seen \in Seq(Keys) /\ 1 .. Len(seen) = {}
    BY <1>1
  <2>2. walk # "on" /\ walk # "over"
    BY <1>1
  <2> QED
    BY <2>1, <2>2, Zenon DEF WalkInv
<1> QED
  BY <1>4, <1>5, <1>6, <1>7 DEF HmapInv, TableInv

LEMMA StutterKeeps ==
    ASSUME HmapInv, UNCHANGED vars
    PROVE  HmapInv'
<1>1. /\ hash' = hash /\ buckets' = buckets /\ nbuckets' = nbuckets /\ len' = len /\ node' = node
      /\ iter' = iter /\ seen' = seen /\ walk' = walk
  BY DEF vars, table, cursor
<1>2. Allocated' = Allocated
  BY <1>1, Zenon DEF Allocated
<1>3. TableInv'
  <2>1. TypeOK
    BY DEF HmapInv, TableInv
  <2>2. /\ Placed(buckets', nbuckets', Allocated, Home) /\ nbuckets' \in Nat
        /\ iter' \in [bucket_idx : 0 .. nbuckets', node : Nodes \cup {NULL}]
        /\ walk' \in {"none", "on", "over"}
    BY <1>1, <2>1, Zenon DEF HmapInv, TableInv, TypeOK
  <2> QED
    BY <1>1, <2>2, SameNodesKeep DEF HmapInv
<1>4. ASSUME UnderWay PROVE UnderWay'
  <2>1. ASSUME NEW i, NEW p, Filled(i, p)'
        PROVE  Shown(i, p)' <=> InSeen(node[buckets[i][p]].key)'
    <3>1. Filled(i, p)
      BY <1>1, <2>1, Zenon DEF Filled
    <3>2. Shown(i, p) <=> InSeen(node[buckets[i][p]].key)
      BY <1>4, <3>1, Zenon DEF UnderWay
    <3>3. Shown(i, p)' <=> Shown(i, p)
      BY <1>1, Zenon DEF Shown
    <3>4. InSeen(node[buckets[i][p]].key)' <=> InSeen(node[buckets[i][p]].key)
      BY <1>1, Zenon DEF InSeen
    <3> QED
      BY <3>2, <3>3, <3>4
  <2>2. /\ nbuckets' > 0 /\ (iter'.node = NULL => iter'.bucket_idx = 0)
        /\ iter'.node # NULL =>
             /\ iter'.bucket_idx > 0
             /\ \E q \in 1 .. Len(buckets'[iter'.bucket_idx - 1]) :
                   buckets'[iter'.bucket_idx - 1][q] = iter'.node
    BY <1>1, <1>4, Zenon DEF UnderWay
  <2> QED
    BY <2>1, <2>2, Zenon DEF UnderWay
<1>5. \A x \in Allocated : InSeen(node[x].key)' <=> InSeen(node[x].key)
  BY <1>1, Zenon DEF InSeen
<1>6. WalkInv'
  BY <1>1, <1>2, <1>4, <1>5, Zenon DEF HmapInv, WalkInv
<1> QED
  BY <1>3, <1>6 DEF HmapInv

LEMMA HmapStep == HmapInv /\ [Next]_vars => HmapInv'
<1> SUFFICES ASSUME HmapInv, [Next]_vars PROVE HmapInv'
  OBVIOUS
<1>0. TableInv /\ WalkInv
  BY DEF HmapInv
<1>1. CASE hmap_init
  BY <1>0, <1>1, InitKeeps, EndWalkKeeps DEF hmap_init, HmapInv
<1>2. CASE hmap_deinit
  BY <1>0, <1>2, DeinitKeeps, EndWalkKeeps DEF hmap_deinit, HmapInv
<1>3. ASSUME NEW k \in Keys, NEW v \in Values, hmap_insert(k, v) PROVE HmapInv'
  BY <1>0, <1>3, InsertKeeps, EndWalkKeeps DEF hmap_insert, HmapInv
<1>4. ASSUME NEW k \in Keys, hmap_delete(k) PROVE HmapInv'
  BY <1>0, <1>4, DeleteKeeps, EndWalkKeeps DEF hmap_delete, HmapInv
<1>5. CASE hmap_iter_init
  BY <1>0, <1>5, IterInitKeeps DEF HmapInv
<1>6. CASE hmap_iter_next
  BY <1>0, <1>6, IterNextKeeps DEF HmapInv
<1>7. CASE UNCHANGED vars
  BY <1>7, StutterKeeps
<1> QED
  BY <1>1, <1>2, <1>3, <1>4, <1>5, <1>6, <1>7 DEF Next

(* Every node that malloc handed out to the map is in the bucket its hash
   selects, once, and in no other, and len counts them: for every hash
   function and through any number of insertions, growths, deletions and
   failed allocations nothing is lost, linked twice or leaked.             *)
THEOREM NodesAreOwned == Spec => []NodesOwned
<1>1. HmapInv => NodesOwned
  <2> SUFFICES ASSUME HmapInv PROVE NodesOwned
    OBVIOUS
  <2>0. TableInv /\ TypeOK /\ Placed(buckets, nbuckets, Allocated, Home) /\ Counted
    BY DEF HmapInv, TableInv
  <2>1. DOMAIN buckets = 0 .. nbuckets - 1 /\ \A i \in 0 .. nbuckets - 1 : DOMAIN buckets[i] = 1 .. Len(buckets[i])
    BY <2>0 DEF TypeOK
  <2>2. ASSUME NEW i \in DOMAIN buckets, NEW p \in DOMAIN buckets[i]
        PROVE  /\ node[buckets[i][p]] # Free /\ hash[node[buckets[i][p]].key] % nbuckets = i
               /\ \A q \in DOMAIN buckets[i] : buckets[i][q] = buckets[i][p] => q = p
    <3>1. Filled(i, p) /\ DOMAIN buckets[i] = 1 .. Len(buckets[i])
      BY <2>1 DEF Filled
    <3>2. buckets[i][p] \in Allocated
      BY <2>0, <3>1, FilledNode
    <3>3. node[buckets[i][p]] # Free
      BY <3>2 DEF Allocated
    <3> QED
      BY <2>0, <3>1, <3>3, FilledNode
  <2>3. ASSUME NEW x \in Allocated PROVE \E i \in DOMAIN buckets : x \in ToSet(buckets[i])
    <3>1. PICK i \in 0 .. nbuckets - 1 : \E p \in 1 .. Len(buckets[i]) : buckets[i][p] = x
      BY <2>0, Zenon DEF Placed
    <3>2. x \in ToSet(buckets[i])
      BY <2>1, <3>1, Zenon DEF ToSet
    <3> QED
      BY <2>1, <3>2
  <2> QED
    BY <2>0, <2>2, <2>3, Zenon DEF NodesOwned, Counted
<1> QED
  BY <1>1, HmapInit, HmapStep, PTL DEF Spec

(* HMAP_FOREACH over a map that does not change shows every key of the map
   once, however the keys are spread over the buckets.                     *)
THEOREM IterationIsComplete == Spec => []IterationComplete
<1>1. HmapInv => IterationComplete
  <2> SUFFICES ASSUME HmapInv, walk = "over"
               PROVE  /\ \A p, q \in DOMAIN seen : seen[p] = seen[q] => p = q
                      /\ ToSet(seen) = {k \in Keys : Lookup(k) # NULL}
    BY DEF IterationComplete
  <2>0. TableInv /\ WalkInv /\ TypeOK
    BY DEF HmapInv, TableInv
  <2>1. seen \in Seq(Keys) /\ DOMAIN seen = 1 .. Len(seen)
    BY <2>0 DEF WalkInv
  <2>2. ToSet(seen) = {seen[q] : q \in 1 .. Len(seen)}
    BY <2>1, Zenon DEF ToSet
  <2>3. ASSUME NEW q \in 1 .. Len(seen) PROVE seen[q] \in Keys /\ Lookup(seen[q]) # NULL
    <3>1. seen[q] \in Keys
      BY <2>1
    <3>2. PICK x \in Allocated : node[x].key = seen[q]
      BY <2>0, Zenon DEF WalkInv
    <3>3. Lookup(seen[q]) = x
      BY <2>0, <3>1, <3>2, LookupFinds
    <3> QED
      BY <3>1, <3>3, HmapAssumption DEF Allocated, NULL
  <2>4. ASSUME NEW k \in Keys, Lookup(k) # NULL PROVE \E q \in 1 .. Len(seen) : seen[q] = k
    <3>1. Lookup(k) \in Allocated /\ node[Lookup(k)].key = k
      BY <2>0, <2>4, LookupFinds
    <3>2. InSeen(node[Lookup(k)].key)
      BY <2>0, <3>1, Zenon DEF WalkInv
    <3> QED
      BY <3>1, <3>2, Zenon DEF InSeen
  <2>5. ToSet(seen) = {k \in Keys : Lookup(k) # NULL}
    BY <2>2, <2>3, <2>4, Zenon
  <2> QED
    BY <2>0, <2>1, <2>5 DEF WalkInv
<1> QED
  BY <1>1, HmapInit, HmapStep, PTL DEF Spec

(***************************************************************************)
(* Pointers to nodes, and the finite map                                   *)
(***************************************************************************)

LookupRight ==
    \A k \in Keys :
      /\ \A x \in Allocated : node[x].key = k => Lookup(k) = x
      /\ Lookup(k) # NULL => Lookup(k) \in Allocated /\ node[Lookup(k)].key = k

LEMMA LookupIsRight == TableInv => LookupRight
BY LookupFinds DEF LookupRight

LEMMA LookupIsRightNext == TableInv' => LookupRight'
BY LookupIsRight, PTL

(* What a step does to the nodes: one that was there keeps its key, and one
   that was not gets a key that no node had.                               *)
LEMMA StepKeys ==
    ASSUME HmapInv, [Next]_vars, NEW y \in Allocated'
    PROVE  \/ y \in Allocated /\ node'[y].key = node[y].key
           \/ \A z \in Allocated : node[z].key # node'[y].key
<1>0. TableInv /\ TypeOK /\ node \in [Nodes -> [key : Keys, value : Values] \cup {Free}]
  BY DEF HmapInv, TableInv, TypeOK
<1>a. y \in Nodes /\ node'[y] # Free
  BY DEF Allocated
<1>1. ASSUME node' = node PROVE y \in Allocated /\ node'[y].key = node[y].key
  BY <1>1, <1>a DEF Allocated
<1>2. CASE hmap_init \/ hmap_iter_init \/ hmap_iter_next \/ UNCHANGED vars
  BY <1>1, <1>2 DEF hmap_init, hmap_iter_init, hmap_iter_next, vars, table
<1>3. CASE hmap_deinit
  BY <1>0, <1>3, DeinitKeeps
<1>4. ASSUME NEW k \in Keys, NEW v \in Values, hmap_insert(k, v)
      PROVE  \/ y \in Allocated /\ node'[y].key = node[y].key
             \/ \A z \in Allocated : node[z].key # node'[y].key
  <2>1. \/ \E x \in Allocated : node[x].key = k /\ node' = [node EXCEPT ![x].value = v]
        \/ \E x \in Nodes \ Allocated :
             /\ \A z \in Allocated : node[z].key # k
             /\ node' = [node EXCEPT ![x] = [key |-> k, value |-> v]]
        \/ node' = node
    BY <1>0, <1>4, InsertEffect, Zenon
  <2>2. CASE \E x \in Allocated : node' = [node EXCEPT ![x].value = v]
    <3>1. PICK x \in Allocated : node' = [node EXCEPT ![x].value = v]
      BY <2>2
    <3>2. x \in Nodes /\ node[x] \in [key : Keys, value : Values] /\ node[x] # Free
      BY <1>0, HomeOf DEF Allocated
    <3>3. y # x => node'[y] = node[y]
      BY <1>0, <1>a, <3>1
    <3>4. node'[x].key = node[x].key
      BY <1>0, <3>1, <3>2
    <3> QED
      BY <1>a, <3>2, <3>3, <3>4 DEF Allocated
  <2>3. CASE \E x \in Nodes \ Allocated :
               /\ \A z \in Allocated : node[z].key # k
               /\ node' = [node EXCEPT ![x] = [key |-> k, value |-> v]]
    <3>1. PICK x \in Nodes \ Allocated :
               /\ \A z \in Allocated : node[z].key # k
               /\ node' = [node EXCEPT ![x] = [key |-> k, value |-> v]]
      BY <2>3
    <3>2. y # x => node'[y] = node[y]
      BY <1>0, <1>a, <3>1
    <3>3. node'[x].key = k
      BY <1>0, <3>1
    <3> QED
      BY <1>a, <3>1, <3>2, <3>3 DEF Allocated
  <2> QED
    BY <1>1, <2>1, <2>2, <2>3
<1>5. ASSUME NEW k \in Keys, hmap_delete(k)
      PROVE  y \in Allocated /\ node'[y].key = node[y].key
  <2>1. node' = [node EXCEPT ![Lookup(k)] = Free]
    BY <1>5 DEF hmap_delete
  <2>2. y # Lookup(k)
    BY <1>0, <1>a, <2>1
  <2>3. node'[y] = node[y]
    BY <1>0, <1>a, <2>1, <2>2
  <2> QED
    BY <1>a, <2>3 DEF Allocated
<1> QED
  BY <1>2, <1>3, <1>4, <1>5 DEF Next

(* A node that hmap_get or hmap_insert returned for a key stays its node
   until the key is deleted: growth relinks nodes and never moves them.    *)
THEOREM NodesStayInPlace == Spec => NodesStay
<1>1. HmapInv /\ HmapInv' /\ [Next]_vars =>
        [\A k \in Keys : Lookup(k) # NULL /\ Lookup(k)' # NULL => Lookup(k)' = Lookup(k)]_vars
  <2> SUFFICES ASSUME HmapInv, HmapInv', [Next]_vars,
                      NEW k \in Keys, Lookup(k) # NULL, Lookup(k)' # NULL
               PROVE  Lookup(k)' = Lookup(k)
    OBVIOUS
  <2>1. LookupRight /\ LookupRight'
    BY LookupIsRight, LookupIsRightNext DEF HmapInv
  <2> DEFINE x == Lookup(k)
             y == Lookup(k)'
  <2>2. x \in Allocated /\ node[x].key = k
    BY <2>1 DEF LookupRight
  <2>3. y \in Allocated' /\ node'[y].key = k
    BY <2>1 DEF LookupRight
  <2>4. \/ y \in Allocated /\ node'[y].key = node[y].key
        \/ \A z \in Allocated : node[z].key # node'[y].key
    BY <2>3, StepKeys
  <2>5. y \in Allocated /\ node[y].key = k
    BY <2>2, <2>3, <2>4
  <2>6. x = y
    <3> HIDE DEF y
    <3> QED
      BY <2>1, <2>5 DEF LookupRight
  <2> QED
    BY <2>6
<1> QED
  BY <1>1, HmapInit, HmapStep, PTL DEF Spec, NodesStay

(* The value of a key, by the node that has it.                            *)
ContentsRight ==
    /\ Contents = [k \in Keys |-> Contents[k]]
    /\ \A k \in Keys :
         /\ \A x \in Allocated : node[x].key = k => Contents[k] = node[x].value
         /\ (\A x \in Allocated : node[x].key # k) => Contents[k] = Absent

LEMMA ContentsAreRight == TableInv => ContentsRight
<1> SUFFICES ASSUME TableInv PROVE ContentsRight
  OBVIOUS
<1>1. LookupRight
  BY LookupIsRight
<1>2. \A k \in Keys : Contents[k] = IF Lookup(k) = NULL THEN Absent ELSE node[Lookup(k)].value
  BY Zenon DEF Contents
<1>3. Contents = [k \in Keys |-> Contents[k]]
  BY <1>2, Zenon DEF Contents
<1>4. \A x \in Allocated : x # NULL
  BY HmapAssumption DEF Allocated, NULL
<1>5. ASSUME NEW k \in Keys, NEW x \in Allocated, node[x].key = k PROVE Contents[k] = node[x].value
  BY <1>1, <1>2, <1>4, <1>5, Zenon DEF LookupRight
<1>6. ASSUME NEW k \in Keys, \A x \in Allocated : node[x].key # k PROVE Contents[k] = Absent
  BY <1>1, <1>2, <1>6, Zenon DEF LookupRight
<1> QED
  BY <1>3, <1>5, <1>6, Zenon DEF ContentsRight

LEMMA ContentsAreRightNext == TableInv' => ContentsRight'
BY ContentsAreRight, PTL

(* A key whose node, if any, a step leaves alone keeps its value.          *)
LEMMA KeyKept ==
    ASSUME ContentsRight, ContentsRight', NEW k \in Keys,
           \A x \in Allocated : node[x].key = k => x \in Allocated' /\ node'[x] = node[x],
           \A x \in Allocated' : node'[x].key = k => x \in Allocated /\ node'[x] = node[x]
    PROVE  Contents'[k] = Contents[k]
<1>1. CASE \E x \in Allocated : node[x].key = k
  <2>1. PICK x \in Allocated : node[x].key = k
    BY <1>1
  <2>2. x \in Allocated' /\ node'[x] = node[x]
    BY <2>1
  <2>3. Contents[k] = node[x].value /\ Contents'[k] = node'[x].value
    BY <2>1, <2>2, Zenon DEF ContentsRight
  <2> QED
    BY <2>2, <2>3
<1>2. CASE \A x \in Allocated : node[x].key # k
  <2>1. \A x \in Allocated' : node'[x].key # k
    BY <1>2
  <2> QED
    BY <1>2, <2>1, Zenon DEF ContentsRight
<1> QED
  BY <1>1, <1>2

(* A step that changes the value of one key only changes the map there.    *)
LEMMA OneKey ==
    ASSUME ContentsRight, ContentsRight', NEW k \in Keys, NEW v, Contents'[k] = v,
           \A l \in Keys : l # k => Contents'[l] = Contents[l]
    PROVE  Contents' = [Contents EXCEPT ![k] = v]
<1> DEFINE c == Contents
           d == Contents'
<1>1. c = [l \in Keys |-> c[l]] /\ d = [l \in Keys |-> d[l]]
  BY DEF ContentsRight
<1> HIDE DEF c, d
<1>2. d[k] = v /\ \A l \in Keys : l # k => d[l] = c[l]
  BY DEF c, d
<1>3. [c EXCEPT ![k] = v] = [l \in Keys |-> IF l = k THEN v ELSE c[l]]
  BY <1>1, Zenon
<1>4. d = [l \in Keys |-> IF l = k THEN v ELSE c[l]]
  BY <1>1, <1>2, Zenon
<1> QED
  BY <1>3, <1>4, Zenon DEF c, d

LEMMA MapStep ==
    ASSUME HmapInv, HmapInv', [Next]_vars
    PROVE  [Map!Next]_Contents
<1>0. /\ TableInv /\ TypeOK /\ ContentsRight /\ ContentsRight'
      /\ node \in [Nodes -> [key : Keys, value : Values] \cup {Free}]
  BY ContentsAreRight, ContentsAreRightNext DEF HmapInv, TableInv, TypeOK
<1>1. ASSUME node' = node PROVE Contents' = Contents
  <2>1. Allocated' = Allocated
    BY <1>1 DEF Allocated
  <2>2. ASSUME NEW k \in Keys PROVE Contents'[k] = Contents[k]
    BY <1>0, <1>1, <2>1, KeyKept
  <2>3. Contents = [k \in Keys |-> Contents[k]] /\ Contents' = [k \in Keys |-> Contents'[k]]
    BY <1>0 DEF ContentsRight
  <2> QED
    BY <2>2, <2>3, Zenon
<1>2. CASE hmap_init \/ hmap_iter_init \/ hmap_iter_next \/ UNCHANGED vars
  BY <1>1, <1>2 DEF hmap_init, hmap_iter_init, hmap_iter_next, vars, table
<1>3. CASE hmap_deinit
  <2>1. Allocated' = {}
    BY <1>0, <1>3, DeinitKeeps
  <2>2. \A k \in Keys : Contents'[k] = Absent
    BY <1>0, <2>1, Zenon DEF ContentsRight
  <2>3. Contents' = [k \in Keys |-> Contents'[k]]
    BY <1>0 DEF ContentsRight
  <2>4. Map!Clear
    BY <2>2, <2>3, Zenon DEF Map!Clear
  <2> QED
    BY <2>4 DEF Map!Next
<1>4. ASSUME NEW k \in Keys, NEW v \in Values, hmap_insert(k, v)
      PROVE  [Map!Next]_Contents
  <2>1. \/ \E x \in Allocated : node[x].key = k /\ node' = [node EXCEPT ![x].value = v]
        \/ \E x \in Nodes \ Allocated :
             /\ \A z \in Allocated : node[z].key # k
             /\ node' = [node EXCEPT ![x] = [key |-> k, value |-> v]]
        \/ node' = node
    BY <1>0, <1>4, InsertEffect, Zenon
  <2>2. ASSUME Contents' = [Contents EXCEPT ![k] = v] PROVE Map!Next
    BY <2>2 DEF Map!Insert, Map!Next
  <2>3. ASSUME NEW x \in Nodes, x \in Allocated => node[x].key = k,
               node'[x] = [key |-> k, value |-> v], \A y \in Nodes : y # x => node'[y] = node[y]
        PROVE  Contents' = [Contents EXCEPT ![k] = v]
    <3>1. node'[x].key = k /\ node'[x].value = v
      BY <2>3
    <3>2. x \in Allocated'
      BY <2>3, FreeIsNoNode DEF Allocated
    <3>3. Contents'[k] = v
      BY <1>0, <3>1, <3>2, Zenon DEF ContentsRight
    <3>4. ASSUME NEW l \in Keys, l # k PROVE Contents'[l] = Contents[l]
      <4>1. ASSUME NEW y \in Allocated, node[y].key = l PROVE y \in Allocated' /\ node'[y] = node[y]
        BY <2>3, <3>4, <4>1 DEF Allocated
      <4>2. ASSUME NEW y \in Allocated', node'[y].key = l PROVE y \in Allocated /\ node'[y] = node[y]
        BY <2>3, <3>1, <3>4, <4>2 DEF Allocated
      <4> QED
        BY <1>0, <4>1, <4>2, KeyKept
    <3> QED
      BY <1>0, <3>3, <3>4, OneKey
  <2>4. CASE \E x \in Allocated : node[x].key = k /\ node' = [node EXCEPT ![x].value = v]
    <3>1. PICK x \in Allocated : node[x].key = k /\ node' = [node EXCEPT ![x].value = v]
      BY <2>4
    <3>2. x \in Nodes /\ node[x] \in [key : Keys, value : Values]
      BY <1>0, HomeOf
    <3>3. node'[x] = [key |-> k, value |-> v] /\ \A y \in Nodes : y # x => node'[y] = node[y]
      BY <1>0, <3>1, <3>2
    <3> QED
      BY <2>2, <2>3, <3>1, <3>2, <3>3
  <2>5. CASE \E x \in Nodes \ Allocated :
               /\ \A z \in Allocated : node[z].key # k
               /\ node' = [node EXCEPT ![x] = [key |-> k, value |-> v]]
    <3>1. PICK x \in Nodes \ Allocated : node' = [node EXCEPT ![x] = [key |-> k, value |-> v]]
      BY <2>5
    <3>2. node'[x] = [key |-> k, value |-> v] /\ \A y \in Nodes : y # x => node'[y] = node[y]
      BY <1>0, <3>1
    <3> QED
      BY <2>2, <2>3, <3>1, <3>2
  <2> QED
    BY <1>1, <2>1, <2>4, <2>5
<1>5. ASSUME NEW k \in Keys, hmap_delete(k)
      PROVE  [Map!Next]_Contents
  <2> DEFINE x == Lookup(k)
  <2>1. x # NULL /\ node' = [node EXCEPT ![x] = Free]
    BY <1>5 DEF hmap_delete
  <2>2. x \in Allocated /\ node[x].key = k
    BY <1>0, <2>1, LookupIsRight DEF LookupRight
  <2> HIDE DEF x
  <2>3. x \in Nodes /\ node[x] \in [key : Keys, value : Values] /\ Allocated \subseteq Nodes
    BY <1>0, <2>2, HomeOf
  <2>4. node'[x] = Free /\ \A y \in Nodes : y # x => node'[y] = node[y]
    BY <1>0, <2>1, <2>3
  <2>5. Contents[k] # Absent
    <3>1. Contents[k] = node[x].value
      BY <1>0, <2>2, Zenon DEF ContentsRight
    <3> QED
      BY <2>3, <3>1, AbsentAssumption
  <2>6. Contents'[k] = Absent
    <3>1. ASSUME NEW y \in Allocated' PROVE node'[y].key # k
      <4>1. y \in Nodes /\ node'[y] # Free
        BY DEF Allocated
      <4>2. y # x /\ node'[y] = node[y]
        BY <2>4, <4>1
      <4>3. y \in Allocated
        BY <4>1, <4>2 DEF Allocated
      <4> QED
        BY <1>0, <2>2, <4>2, <4>3 DEF TableInv, KeysOnce
    <3> QED
      BY <1>0, <3>1, Zenon DEF ContentsRight
  <2>7. ASSUME NEW l \in Keys, l # k PROVE Contents'[l] = Contents[l]
    <3>1. ASSUME NEW y \in Allocated, node[y].key = l PROVE y \in Allocated' /\ node'[y] = node[y]
      BY <2>2, <2>3, <2>4, <2>7, <3>1 DEF Allocated
    <3>2. ASSUME NEW y \in Allocated', node'[y].key = l PROVE y \in Allocated /\ node'[y] = node[y]
      BY <2>4, <2>7, <3>2 DEF Allocated
    <3> QED
      BY <1>0, <3>1, <3>2, KeyKept
  <2>8. Contents' = [Contents EXCEPT ![k] = Absent]
    BY <1>0, <2>6, <2>7, OneKey
  <2>9. Map!Delete(k)
    BY <2>5, <2>8 DEF Map!Delete
  <2> QED
    BY <2>9 DEF Map!Next
<1> QED
  BY <1>2, <1>3, <1>4, <1>5 DEF Next

(* What hmap_get finds is a finite map: an insertion changes its own key
   only, a deletion removes its own, and growth, a failed allocation and
   iteration change nothing at all.                                        *)
THEOREM MapRefinement == Spec => ImplementsFiniteMap
<1>1. Init => Map!Init
  <2> SUFFICES ASSUME Init PROVE Map!Init
    OBVIOUS
  <2>1. Allocated = {}
    BY DEF Init, Allocated
  <2>2. ContentsRight
    BY HmapInit, ContentsAreRight DEF HmapInv
  <2>3. \A k \in Keys : Contents[k] = Absent
    BY <2>1, <2>2, Zenon DEF ContentsRight
  <2>4. Contents = [k \in Keys |-> Contents[k]]
    BY <2>2 DEF ContentsRight
  <2> QED
    BY <2>3, <2>4, Zenon DEF Map!Init
<1>2. HmapInv /\ HmapInv' /\ [Next]_vars => [Map!Next]_Contents
  BY MapStep
<1> QED
  BY <1>1, <1>2, HmapInit, HmapStep, PTL DEF Spec, ImplementsFiniteMap, Map!Spec

(***************************************************************************)
(* Slice                                                                   *)
(***************************************************************************)

(* What is known of a buffer that Realloc, Room or a call's own buffer
   yields: it has the places it claims to have.                            *)
Sound(b) ==
    /\ b.ret \in {0, -1} /\ b.at \in Places /\ b.capacity \in Nat
    /\ b.data \in [0 .. b.capacity - 1 -> Elems \cup {Junk}]
    /\ capacity <= b.capacity

(* Whatever a call does to the iteration, the iterator stays well formed.   *)
LEMMA CursorKept == CursorOK /\ (KeepLoop \/ EndLoop) => CursorOK'
<1> SUFFICES ASSUME CursorOK, KeepLoop \/ EndLoop PROVE CursorOK'
  OBVIOUS
<1>1. CASE UNCHANGED iterator
  BY <1>1 DEF iterator, CursorOK
<1>2. CASE EndLoop
  BY <1>2 DEF EndLoop, CursorOK
<1> QED
  BY <1>1, <1>2 DEF KeepLoop, EndLoop

(* realloc yields the requested number of places or leaves the buffer alone. *)
LEMMA ReallocSound ==
    ASSUME BufferOK, NEW n \in Nat, n >= capacity, NEW b \in Realloc(n)
    PROVE  Sound(b) /\ (b.ret = 0 => b.capacity = n)
<1>1. CASE b = [Same EXCEPT !.ret = -1]
  BY <1>1 DEF Sound, Same, BufferOK
<1>2. ASSUME NEW a \in Places,
             b = [ret |-> 0, capacity |-> n, at |-> a,
                  data |-> [i \in 0 .. n - 1 |-> IF i < capacity THEN data[i] ELSE Junk]]
      PROVE  Sound(b) /\ b.capacity = n
  BY <1>2 DEF Sound, BufferOK
<1> QED
  BY <1>1, <1>2 DEF Realloc

(* slice_grow, if it succeeds, makes place for at least one more element;
   when there was place already the buffer is left as it is.               *)
LEMMA RoomSound ==
    ASSUME BufferOK, NEW b \in Room
    PROVE  Sound(b) /\ (b.ret = 0 => size < b.capacity) /\ (size < capacity => b = Same)
<1>1. CASE size < capacity
  BY <1>1 DEF Room, Sound, Same, BufferOK
<1>2. CASE size >= capacity
  <2>1. capacity > 0 => capacity * SLICE_GROWTH_FACTOR \in Nat
                        /\ capacity * SLICE_GROWTH_FACTOR > capacity
    BY SliceAssumption, SMT DEF BufferOK
  <2>2. NewCapacity \in Nat /\ NewCapacity > capacity
    BY <2>1, SliceAssumption DEF NewCapacity, BufferOK
  <2>3. b \in Realloc(NewCapacity)
    BY <1>2 DEF Room, slice_grow, BufferOK
  <2>4. Sound(b) /\ (b.ret = 0 => b.capacity = NewCapacity)
    BY <2>2, <2>3, ReallocSound DEF BufferOK
  <2> QED
    BY <1>2, <2>2, <2>4 DEF BufferOK
<1> QED
  BY <1>1, <1>2 DEF BufferOK

(* Every call keeps the buffer as large as `capacity' says and the elements
   inside it.                                                              *)
LEMMA BufferStep == SliceTypeOK /\ [SliceNext]_slice_vars => BufferOK'
<1> SUFFICES ASSUME BufferOK, [SliceNext]_slice_vars PROVE BufferOK'
  BY DEF SliceTypeOK
<1>1. ASSUME NEW n \in Capacities, slice_init(n) PROVE BufferOK'
  BY <1>1, SliceAssumption DEF slice_init, BufferOK
<1>2. ASSUME NEW n \in Capacities, slice_reserve(n) PROVE BufferOK'
  <2>1. PICK b \in (IF n <= capacity THEN {Same} ELSE Realloc(n)) :
          Install(b) /\ data' = b.data
    BY <1>2 DEF slice_reserve
  <2>2. Sound(b)
    BY <2>1, SliceAssumption, ReallocSound DEF Sound, Same, BufferOK
  <2> QED
    BY <1>2, <2>1, <2>2 DEF slice_reserve, Install, Sound, BufferOK
<1>3. CASE slice_deinit
  BY <1>3 DEF slice_deinit, NoBuffer, Places, BufferOK
<1>4. ASSUME NEW v \in Items, slice_push_back(v) PROVE BufferOK'
  <2>1. PICK b \in Room : /\ Install(b)
                          /\ data' = IF b.ret = 0 THEN [b.data EXCEPT ![size] = v] ELSE b.data
                          /\ size' = IF b.ret = 0 THEN size + 1 ELSE size
    BY <1>4 DEF slice_push_back
  <2>2. Sound(b) /\ (b.ret = 0 => size < b.capacity)
    BY RoomSound
  <2>3. data' \in [0 .. b.capacity - 1 -> Elems \cup {Junk}]
    BY <2>1, <2>2 DEF Sound, Elems, BufferOK
  <2> QED
    BY <2>1, <2>2, <2>3 DEF Install, Sound, BufferOK
<1>5. ASSUME NEW i \in 0 .. MaxCapacity, NEW v \in Items, slice_insert(i, v) PROVE BufferOK'
  <2>1. PICK b \in Room : /\ Install(b)
                          /\ data' = IF b.ret = 0 THEN Shifted(b.data, i, v) ELSE b.data
                          /\ size' = IF b.ret = 0 THEN size + 1 ELSE size
    BY <1>5 DEF slice_insert
  <2>2. Sound(b) /\ (b.ret = 0 => size < b.capacity)
    BY RoomSound
  <2>3. Shifted(b.data, i, v) \in [0 .. b.capacity - 1 -> Elems \cup {Junk}]
    <3>1. DOMAIN b.data = 0 .. b.capacity - 1
      BY <2>2 DEF Sound
    <3>2. ASSUME NEW j \in 0 .. b.capacity - 1, i < j
          PROVE  b.data[j - 1] \in Elems \cup {Junk}
      <4>1. j - 1 \in 0 .. b.capacity - 1
        BY <2>2, <3>2, SliceAssumption DEF Sound
      <4> QED
        BY <2>2, <4>1 DEF Sound
    <3>3. ASSUME NEW j \in 0 .. b.capacity - 1 PROVE b.data[j] \in Elems \cup {Junk}
      BY <2>2, <3>3 DEF Sound
    <3> QED
      BY <3>1, <3>2, <3>3 DEF Shifted, Elems
  <2> QED
    BY <2>1, <2>2, <2>3 DEF Install, Sound, BufferOK
<1>6. ASSUME NEW i \in 0 .. MaxCapacity, NEW v \in Items, slice_set(i, v) PROVE BufferOK'
  BY <1>6, SliceAssumption DEF slice_set, Elems, BufferOK
<1>7. ASSUME NEW i \in 0 .. MaxCapacity, slice_erase(i) PROVE BufferOK'
  BY <1>7, SliceAssumption DEF slice_erase, BufferOK
<1>8. CASE slice_pop_back
  BY <1>8 DEF slice_pop_back, BufferOK
<1>9. CASE slice_clear
  BY <1>9 DEF slice_clear, BufferOK
<1>10. ASSUME NEW n \in 0 .. MaxCapacity, NEW v \in Elems, slice_resize(n, v) PROVE BufferOK'
  <2> DEFINE FilledUp(b) == [j \in DOMAIN b.data |-> IF size <= j /\ j < n THEN v ELSE b.data[j]]
  <2>1. PICK b \in (IF n > capacity THEN Realloc(n) ELSE {Same}) :
          /\ Install(b)
          /\ data' = IF b.ret = 0 THEN FilledUp(b) ELSE b.data
          /\ size' = IF b.ret = 0 THEN n ELSE size
    BY <1>10 DEF slice_resize
  <2>2. n \in Nat
    BY SliceAssumption
  <2>3. Sound(b) /\ (b.ret = 0 => n <= b.capacity)
    BY <2>1, <2>2, ReallocSound DEF Sound, Same, BufferOK
  <2>4. FilledUp(b) \in [0 .. b.capacity - 1 -> Elems \cup {Junk}]
    BY <2>3 DEF Sound, Elems
  <2> QED
    BY <2>1, <2>2, <2>3, <2>4 DEF Install, Sound, BufferOK
<1>11. CASE UNCHANGED buffer
  BY <1>11 DEF buffer, BufferOK
<1> QED
  BY <1>1, <1>2, <1>3, <1>4, <1>5, <1>6, <1>7, <1>8, <1>9, <1>10, <1>11
  DEF SliceNext, slice_iter_init, slice_iter_next, slice_vars

(* The iterator never leaves the slice while it shows elements.            *)
LEMMA CursorStep == SliceTypeOK /\ [SliceNext]_slice_vars => CursorOK'
<1> SUFFICES ASSUME BufferOK, CursorOK, [SliceNext]_slice_vars PROVE CursorOK'
  BY DEF SliceTypeOK
<1>1. CASE KeepLoop \/ EndLoop
  BY <1>1, CursorKept
<1>2. CASE slice_iter_init
  BY <1>2 DEF slice_iter_init, CursorOK
<1>3. CASE slice_iter_next
  <2>1. index' \in Nat
    BY <1>3 DEF slice_iter_next, CursorOK
  <2>2. index' < size => data[index'] \in Elems \cup {Junk}
    BY <2>1 DEF BufferOK
  <2> QED
    BY <1>3, <2>1, <2>2 DEF slice_iter_next, CursorOK
<1>4. CASE UNCHANGED slice_vars
  BY <1>4 DEF slice_vars, iterator, CursorOK
<1> QED
  BY <1>1, <1>2, <1>3, <1>4
  DEF SliceNext, slice_init, slice_deinit, slice_reserve, slice_push_back, slice_insert, slice_set,
      slice_erase, slice_pop_back, slice_clear, slice_resize

(* A slice never claims more memory than it has, and its elements lie within
   it, whatever realloc answers.                                           *)
THEOREM SliceTypeCorrect == SliceSpec => []SliceTypeOK
<1>1. SliceInit => SliceTypeOK
  BY DEF SliceInit, SliceTypeOK, BufferOK, CursorOK, NoBuffer, Places
<1>2. SliceTypeOK /\ [SliceNext]_slice_vars => SliceTypeOK'
  BY BufferStep, CursorStep DEF SliceTypeOK
<1> QED
  BY <1>1, <1>2, PTL DEF SliceSpec

(* A call that changes the number of elements and finds room leaves the
   buffer alone.                                                           *)
LEMMA FittingCallStays ==
    ASSUME SliceTypeOK, [SliceNext]_slice_vars, live, live', size' # size, size' <= capacity
    PROVE  at' = at /\ capacity' = capacity
<1>0. BufferOK
  BY DEF SliceTypeOK
<1>1. ASSUME NEW b \in Room, Install(b), b.ret = 0, size' = size + 1
      PROVE  at' = at /\ capacity' = capacity
  <2>1. size < capacity
    BY <1>0, <1>1 DEF BufferOK
  <2>2. b = Same
    BY <1>0, <1>1, <2>1, RoomSound
  <2> QED
    BY <1>1, <2>2 DEF Install, Same
<1>2. ASSUME NEW n \in Capacities, slice_init(n) \/ slice_reserve(n) PROVE FALSE
  BY <1>2 DEF slice_init, slice_reserve
<1>3. ASSUME NEW v \in Items, slice_push_back(v) PROVE at' = at /\ capacity' = capacity
  BY <1>1, <1>3 DEF slice_push_back
<1>4. ASSUME NEW i, NEW v, slice_insert(i, v) PROVE at' = at /\ capacity' = capacity
  BY <1>1, <1>4 DEF slice_insert
<1>5. ASSUME NEW n \in 0 .. MaxCapacity, NEW v, slice_resize(n, v)
      PROVE  at' = at /\ capacity' = capacity
  <2>1. PICK b \in (IF n > capacity THEN Realloc(n) ELSE {Same}) :
          Install(b) /\ size' = IF b.ret = 0 THEN n ELSE size
    BY <1>5 DEF slice_resize
  <2>2. n <= capacity
    BY <2>1
  <2>3. b = Same
    BY <1>0, <2>1, <2>2, SliceAssumption DEF BufferOK
  <2> QED
    BY <2>1, <2>3 DEF Install, Same
<1>6. CASE slice_deinit
  BY <1>6 DEF slice_deinit, live
<1>7. ASSUME UNCHANGED <<capacity, at>> PROVE at' = at /\ capacity' = capacity
  BY <1>7
<1> QED
  BY <1>2, <1>3, <1>4, <1>5, <1>6, <1>7
  DEF SliceNext, slice_set, slice_erase, slice_pop_back, slice_clear, slice_iter_init,
      slice_iter_next, buffer, slice_vars

(* Room reserved with slice_reserve, or left by growth, keeps the buffer in
   place: only a call whose result does not fit moves it.                  *)
THEOREM RoomStays == SliceSpec => ReservedRoomStays
<1>1. SliceTypeOK /\ [SliceNext]_slice_vars =>
        [live /\ live' /\ size' # size /\ size' <= capacity => UNCHANGED <<at, capacity>>]_slice_vars
  BY FittingCallStays
<1> QED
  BY <1>1, SliceTypeCorrect, PTL DEF ReservedRoomStays, SliceSpec

(***************************************************************************)
(* SLICE_FOREACH                                                           *)
(***************************************************************************)

(* What a buffer keeps of the old one.                                     *)
Copied(b) == \A j \in 0 .. capacity - 1 : b.data[j] = data[j]

(* realloc copies, and otherwise the buffer is the old one.                *)
LEMMA ReallocCopies ==
    ASSUME BufferOK, NEW n \in Nat, n >= capacity, NEW b \in Realloc(n)
    PROVE  Copied(b)
<1>1. CASE b = [Same EXCEPT !.ret = -1]
  BY <1>1 DEF Same, Copied
<1>2. ASSUME NEW a \in Places,
             b = [ret |-> 0, capacity |-> n, at |-> a,
                  data |-> [i \in 0 .. n - 1 |-> IF i < capacity THEN data[i] ELSE Junk]]
      PROVE  Copied(b)
  BY <1>2 DEF Copied, BufferOK
<1> QED
  BY <1>1, <1>2 DEF Realloc

(* The places that Room provides are a superset of the old ones.           *)
LEMMA RoomCopies ==
    ASSUME BufferOK, NEW b \in Room
    PROVE  Copied(b) /\ DOMAIN b.data = 0 .. b.capacity - 1 /\ (b.ret # 0 => b = [Same EXCEPT !.ret = -1])
<1>1. CASE size < capacity
  BY <1>1 DEF Room, Copied, Same, BufferOK
<1>2. CASE size >= capacity
  <2>1. capacity > 0 => capacity * SLICE_GROWTH_FACTOR \in Nat
                        /\ capacity * SLICE_GROWTH_FACTOR > capacity
    BY SliceAssumption, SMT DEF BufferOK
  <2>2. NewCapacity \in Nat /\ NewCapacity >= capacity
    BY <2>1, SliceAssumption DEF NewCapacity, BufferOK
  <2>3. b \in Realloc(NewCapacity)
    BY <1>2 DEF Room, slice_grow, BufferOK
  <2>4. Copied(b)
    BY <2>2, <2>3, ReallocCopies
  <2>5. DOMAIN b.data = 0 .. b.capacity - 1
    BY RoomSound DEF Sound
  <2>6. b.ret # 0 => b = [Same EXCEPT !.ret = -1]
    BY <2>3 DEF Realloc
  <2> QED
    BY <2>4, <2>5, <2>6
<1> QED
  BY <1>1, <1>2 DEF BufferOK

(* A running iteration has shown the first index + 1 elements.             *)
ForeachInv ==
    /\ loop = "on" => /\ index < size /\ Len(shown) = index + 1
                      /\ \A k \in 1 .. Len(shown) : shown[k] = data[k - 1]
    /\ ForeachComplete

(* The elements shown are still there while elements are only appended.    *)
LEMMA ShownKept ==
    ASSUME SliceTypeOK, ForeachInv, KeepLoop, size <= size',
           \A j \in 0 .. size - 1 : data'[j] = data[j], size' \in Nat
    PROVE  ForeachInv'
<1>1. CASE loop = "on"
  <2>1. UNCHANGED iterator
    BY <1>1 DEF KeepLoop
  <2>2. /\ index < size /\ Len(shown) = index + 1 /\ index \in Int /\ size \in Nat
        /\ \A k \in 1 .. Len(shown) : shown[k] = data[k - 1]
    BY <1>1 DEF ForeachInv, SliceTypeOK, CursorOK, BufferOK
  <2>3. \A k \in 1 .. Len(shown) : k - 1 \in 0 .. size - 1
    BY <2>2
  <2>4. index < size' /\ \A k \in 1 .. Len(shown) : shown[k] = data'[k - 1]
    BY <2>2, <2>3
  <2>5. index' = index /\ loop' = "on" /\ shown' = shown
    BY <1>1, <2>1 DEF iterator
  <2> QED
    BY <2>2, <2>4, <2>5 DEF ForeachInv, ForeachComplete
<1>2. CASE loop # "on"
  BY <1>2 DEF KeepLoop, ForeachInv, ForeachComplete
<1> QED
  BY <1>1, <1>2

(* Every call keeps what a running iteration has shown.                    *)
LEMMA ForeachStep == SliceTypeOK /\ ForeachInv /\ [SliceNext]_slice_vars => ForeachInv'
<1> SUFFICES ASSUME SliceTypeOK, ForeachInv, [SliceNext]_slice_vars PROVE ForeachInv'
  OBVIOUS
<1>t. BufferOK /\ CursorOK /\ BufferOK'
  BY BufferStep DEF SliceTypeOK
<1>1. CASE EndLoop
  BY <1>1 DEF EndLoop, ForeachInv, ForeachComplete
<1>2. ASSUME NEW n \in Capacities, slice_reserve(n) PROVE ForeachInv'
  <2>1. PICK b \in (IF n <= capacity THEN {Same} ELSE Realloc(n)) : data' = b.data
    BY <1>2 DEF slice_reserve
  <2>2. Copied(b)
    BY <1>t, <2>1, SliceAssumption, ReallocCopies DEF Copied, Same, BufferOK
  <2>3. \A j \in 0 .. size - 1 : data'[j] = data[j]
    BY <1>t, <2>1, <2>2 DEF Copied, BufferOK
  <2> QED
    BY <1>t, <1>2, <2>3, ShownKept DEF slice_reserve, BufferOK
<1>3. ASSUME NEW v \in Items, slice_push_back(v) PROVE ForeachInv'
  <2>1. PICK b \in Room : /\ data' = IF b.ret = 0 THEN [b.data EXCEPT ![size] = v] ELSE b.data
                          /\ size' = IF b.ret = 0 THEN size + 1 ELSE size
    BY <1>3 DEF slice_push_back
  <2>2. \A j \in 0 .. size - 1 : j # size /\ j \in 0 .. capacity - 1
    BY <1>t DEF BufferOK
  <2>3. \A j \in 0 .. size - 1 : data'[j] = data[j]
    BY <1>t, <2>1, <2>2, RoomCopies DEF Copied
  <2>4. size <= size' /\ size' \in Nat
    BY <1>t, <2>1 DEF BufferOK
  <2> QED
    BY <1>t, <1>3, <2>3, <2>4, ShownKept DEF slice_push_back
<1>4. CASE slice_iter_init
  BY <1>4, <1>t DEF slice_iter_init, ForeachInv, ForeachComplete, buffer, BufferOK
<1>5. CASE slice_iter_next
  <2>1. /\ index < size /\ Len(shown) = index + 1 /\ index \in Int /\ size \in Nat
        /\ \A k \in 1 .. Len(shown) : shown[k] = data[k - 1]
        /\ index' = index + 1 /\ UNCHANGED <<data, size>> /\ shown \in Seq(Elems \cup {Junk})
    BY <1>t, <1>5 DEF slice_iter_next, ForeachInv, CursorOK, BufferOK, buffer
  <2>2. CASE index' < size
    <3>1. shown' = Append(shown, data[index']) /\ loop' = "on"
      BY <1>5, <2>2 DEF slice_iter_next
    <3>2. data[index'] \in Elems \cup {Junk}
      BY <1>t, <2>1, <2>2 DEF BufferOK, CursorOK
    <3>3. Len(shown') = Len(shown) + 1 /\ shown'[Len(shown) + 1] = data[index']
          /\ \A k \in 1 .. Len(shown) : shown'[k] = shown[k]
      BY <2>1, <3>1, <3>2, AppendProperties
    <3> QED
      BY <2>1, <2>2, <3>1, <3>3 DEF ForeachInv, ForeachComplete
  <2>3. CASE ~(index' < size)
    <3>1. shown' = shown /\ loop' = "over"
      BY <1>5, <2>3 DEF slice_iter_next
    <3>2. Len(shown) = size
      BY <2>1, <2>3
    <3>3. shown = List
      BY <2>1, <3>2 DEF List
    <3> QED
      BY <2>1, <3>1, <3>3 DEF ForeachInv, ForeachComplete, List
  <2> QED
    BY <2>2, <2>3
<1>6. CASE UNCHANGED slice_vars
  BY <1>6 DEF slice_vars, iterator, buffer, ForeachInv, ForeachComplete, List
<1> QED
  BY <1>1, <1>2, <1>3, <1>4, <1>5, <1>6
  DEF SliceNext, slice_init, slice_deinit, slice_insert, slice_set, slice_erase, slice_pop_back,
      slice_clear, slice_resize

(* SLICE_FOREACH, for any slice and whatever its body appends, in place or
   with the buffer moved, shows all elements in order.                     *)
THEOREM ForeachShowsAll == SliceSpec => []ForeachComplete
<1>1. SliceInit => ForeachInv
  BY DEF SliceInit, ForeachInv, ForeachComplete
<1>2. SliceTypeOK /\ ForeachInv /\ [SliceNext]_slice_vars => ForeachInv'
  BY ForeachStep
<1>3. ForeachInv => ForeachComplete
  BY DEF ForeachInv
<1> QED
  BY <1>1, <1>2, <1>3, SliceTypeCorrect, PTL DEF SliceSpec

(***************************************************************************)
(* A slice is a list                                                       *)
(***************************************************************************)

(* The sequence t is s with e inserted at i.                               *)
Inserted(S, t, s, i, e) ==
    /\ t \in Seq(S) /\ Len(t) = Len(s) + 1
    /\ \A k \in 1 .. Len(s) + 1 : t[k] = IF k < i THEN s[k] ELSE IF k = i THEN e ELSE s[k - 1]

(* Inserting and removing, place by place.                                 *)
LEMMA InsertPlaces ==
    ASSUME NEW S, NEW s \in Seq(S), NEW i \in 1 .. Len(s) + 1, NEW e \in S
    PROVE  Inserted(S, Lists!InsertAt(s, i, e), s, i, e)
<1> DEFINE n == Len(s)
           a == SubSeq(s, 1, i - 1)
           b == SubSeq(s, i, n)
<1>1. n \in Nat /\ i \in Nat /\ i > 0 /\ i <= n + 1 /\ \A k \in 1 .. n : s[k] \in S
  OBVIOUS
<1>2. /\ a \in Seq(S) /\ Len(a) = i - 1
      /\ \A k \in 1 .. i - 1 : a[k] = s[k]
  BY <1>1
<1>3. /\ b \in Seq(S) /\ Len(b) = n - i + 1
      /\ \A k \in 1 .. n - i + 1 : b[k] = s[i + k - 1]
  BY <1>1
<1> HIDE DEF a, b
<1>4. a \o <<e>> \in Seq(S) /\ Len(a \o <<e>>) = i
      /\ \A k \in 1 .. i : (a \o <<e>>)[k] = IF k < i THEN s[k] ELSE e
  BY <1>1, <1>2
<1> DEFINE c == a \o <<e>>
<1>c. /\ c \in Seq(S) /\ Len(c) = i /\ \A k \in 1 .. i : c[k] = IF k < i THEN s[k] ELSE e
  BY <1>4
<1> HIDE DEF c
<1>5. /\ c \o b \in Seq(S) /\ Len(c \o b) = n + 1
      /\ \A k \in 1 .. n + 1 : (c \o b)[k] = IF k <= i THEN c[k] ELSE b[k - i]
  <2>1. /\ c \o b \in Seq(S) /\ Len(c \o b) = Len(c) + Len(b)
        /\ \A k \in 1 .. Len(c) + Len(b) :
              (c \o b)[k] = IF k <= Len(c) THEN c[k] ELSE b[k - Len(c)]
    BY <1>3, <1>c, ConcatProperties
  <2>2. Len(c) = i /\ Len(c) + Len(b) = n + 1
    BY <1>1, <1>3, <1>c
  <2> QED
    BY <2>1, <2>2
<1>6. \A k \in 1 .. n + 1 : (c \o b)[k] = IF k < i THEN s[k] ELSE IF k = i THEN e ELSE s[k - 1]
  BY <1>1, <1>3, <1>c, <1>5
<1>7. Lists!InsertAt(s, i, e) = c \o b
  BY DEF Lists!InsertAt, a, b, c
<1> QED
  BY <1>5, <1>6, <1>7 DEF Inserted

LEMMA ErasePlaces ==
    ASSUME NEW S, NEW s \in Seq(S), NEW i \in 1 .. Len(s)
    PROVE  Lists!RemoveAt(s, i) = [k \in 1 .. Len(s) - 1 |-> IF k < i THEN s[k] ELSE s[k + 1]]
<1> DEFINE n == Len(s)
           a == SubSeq(s, 1, i - 1)
           b == SubSeq(s, i + 1, n)
           r == [k \in 1 .. n - 1 |-> IF k < i THEN s[k] ELSE s[k + 1]]
<1>1. n \in Nat /\ i \in Nat /\ i > 0 /\ i <= n /\ \A k \in 1 .. n : s[k] \in S
  OBVIOUS
<1>2. /\ a \in Seq(S) /\ Len(a) = i - 1
      /\ \A k \in 1 .. i - 1 : a[k] = s[k]
  BY <1>1
<1>3. /\ b \in Seq(S) /\ Len(b) = n - i
      /\ \A k \in 1 .. n - i : b[k] = s[i + 1 + k - 1]
  BY <1>1
<1> HIDE DEF a, b
<1>4. /\ a \o b \in Seq(S) /\ Len(a \o b) = n - 1
      /\ \A k \in 1 .. n - 1 : (a \o b)[k] = IF k <= i - 1 THEN a[k] ELSE b[k - (i - 1)]
  <2>1. /\ a \o b \in Seq(S) /\ Len(a \o b) = Len(a) + Len(b)
        /\ \A k \in 1 .. Len(a) + Len(b) :
              (a \o b)[k] = IF k <= Len(a) THEN a[k] ELSE b[k - Len(a)]
    BY <1>2, <1>3, ConcatProperties
  <2>2. Len(a) = i - 1 /\ Len(a) + Len(b) = n - 1
    BY <1>1, <1>2, <1>3
  <2> QED
    BY <2>1, <2>2
<1>5. ASSUME NEW k \in 1 .. n - 1 PROVE (a \o b)[k] = r[k]
  <2>1. CASE k < i
    <3>1. k <= i - 1 /\ k \in 1 .. i - 1
      BY <1>1, <2>1
    <3>2. (a \o b)[k] = a[k]
      BY <1>4, <3>1
    <3> QED
      BY <1>2, <2>1, <3>1, <3>2
  <2>2. CASE ~(k < i)
    <3>1. ~(k <= i - 1) /\ k - (i - 1) \in 1 .. n - i /\ i + 1 + (k - (i - 1)) - 1 = k + 1
      BY <1>1, <2>2
    <3>2. (a \o b)[k] = b[k - (i - 1)]
      BY <1>4, <3>1
    <3>3. b[k - (i - 1)] = s[k + 1]
      BY <1>3, <3>1
    <3> QED
      BY <2>2, <3>2, <3>3
  <2> QED
    BY <2>1, <2>2
<1>6. r \in Seq(S) /\ Len(r) = n - 1
  BY <1>1
<1>7. a \o b = r
  BY <1>4, <1>5, <1>6, SeqEqual
<1> QED
  BY <1>7 DEF Lists!RemoveAt, a, b

(* The refinement mapping.                                                 *)
Value == IF live THEN List ELSE Gone

(* The elements of a slice are a sequence.                                 *)
LEMMA ListPlaces ==
    ASSUME BufferOK
    PROVE  /\ List \in Seq(Elems \cup {Junk}) /\ Len(List) = size /\ List # Gone
           /\ \A k \in 1 .. size : List[k] = data[k - 1]
<1>1. size \in Nat /\ \A k \in 1 .. size : data[k - 1] \in Elems \cup {Junk}
  BY DEF BufferOK
<1>2. List \in Seq(Elems \cup {Junk}) /\ Len(List) = size
  BY <1>1 DEF List
<1>3. Elems \cup {Junk} = Items \cup {Zero, Junk}
  BY DEF Elems
<1> QED
  BY <1>2, <1>3, JunkAssumption DEF List

(* The same after a step.                                                  *)
LEMMA ListPlacesNext ==
    ASSUME BufferOK'
    PROVE  /\ List' \in Seq(Elems \cup {Junk}) /\ Len(List') = size'
           /\ \A k \in 1 .. size' : List'[k] = data'[k - 1]
<1> DEFINE E == Elems \cup {Junk}
           d == data'
           n == size'
           c == capacity'
<1>1. c \in Nat /\ n \in 0 .. c /\ d \in [0 .. c - 1 -> E]
  BY DEF BufferOK
<1>2. List' = [k \in 1 .. n |-> d[k - 1]]
  BY DEF List
<1> HIDE DEF E, d, n, c
<1>3. n \in Nat /\ \A k \in 1 .. n : d[k - 1] \in E
  BY <1>1
<1>4. List' \in Seq(E) /\ Len(List') = n /\ \A k \in 1 .. n : List'[k] = d[k - 1]
  BY <1>2, <1>3
<1> QED
  BY <1>4 DEF E, d, n

(* A call that keeps size and elements keeps the list.                     *)
LEMMA ListKept ==
    ASSUME BufferOK, live, live', size' = size, \A j \in 0 .. size - 1 : data'[j] = data[j]
    PROVE  Value' = Value
<1>1. size \in Nat /\ \A k \in 1 .. size : k - 1 \in 0 .. size - 1
  BY DEF BufferOK
<1>2. [k \in 1 .. size' |-> data'[k - 1]] = [k \in 1 .. size |-> data[k - 1]]
  BY <1>1
<1> QED
  BY <1>2 DEF Value, List

(* Every call that changes a live slice into a live one.                   *)
LEMMA InsertRefines ==
    ASSUME BufferOK, BufferOK', live, live', NEW i \in 0 .. size, NEW v \in Items,
           size' = size + 1,
           \A j \in 0 .. size : data'[j] = IF j < i THEN data[j] ELSE IF j = i THEN v ELSE data[j - 1]
    PROVE  Lists!Next
<1>1. size \in Nat /\ i \in Nat /\ i <= size
  BY DEF BufferOK
<1> DEFINE L == Lists!InsertAt(List, i + 1, v)
<1>2. i + 1 \in 1 .. Len(List) + 1 /\ v \in Elems \cup {Junk}
  BY <1>1, ListPlaces DEF Elems
<1>3. /\ L \in Seq(Elems \cup {Junk}) /\ Len(L) = size + 1
      /\ \A k \in 1 .. size + 1 :
           L[k] = IF k < i + 1 THEN List[k] ELSE IF k = i + 1 THEN v ELSE List[k - 1]
  <2> DEFINE E == Elems \cup {Junk}
  <2>1. List \in Seq(E) /\ Len(List) = size /\ v \in E
    BY <1>2, ListPlaces
  <2>2. PICK p \in 1 .. Len(List) + 1 : p = i + 1
    BY <1>2
  <2> HIDE DEF E, L
  <2>3. Inserted(E, Lists!InsertAt(List, p, v), List, p, v)
    BY <2>1, InsertPlaces
  <2>4. L = Lists!InsertAt(List, p, v)
    BY <2>2 DEF L
  <2> QED
    BY <2>1, <2>2, <2>3, <2>4 DEF E, Inserted
<1> HIDE DEF L
<1>4. ASSUME NEW k \in 1 .. size + 1 PROVE data'[k - 1] = L[k]
  <2>1. k - 1 \in 0 .. size /\ k \in Nat
    BY <1>1
  <2>2. CASE k < i + 1
    <3>1. k \in 1 .. size /\ k - 1 < i
      BY <1>1, <2>1, <2>2
    <3>2. List[k] = data[k - 1]
      BY <3>1, ListPlaces
    <3> QED
      BY <1>3, <2>1, <2>2, <3>1, <3>2
  <2>3. CASE k = i + 1
    BY <1>1, <1>3, <2>1, <2>3
  <2>4. CASE k > i + 1
    <3>1. k - 1 \in 1 .. size /\ ~(k - 1 < i) /\ k - 1 # i /\ ~(k < i + 1) /\ k # i + 1
      BY <1>1, <2>1, <2>4
    <3>2. List[k - 1] = data[k - 1 - 1]
      BY <3>1, ListPlaces
    <3> QED
      BY <1>3, <2>1, <3>1, <3>2
  <2> QED
    BY <1>1, <2>1, <2>2, <2>3, <2>4
<1>5. List' = L
  <2>1. /\ List' \in Seq(Elems \cup {Junk}) /\ Len(List') = size'
        /\ \A k \in 1 .. size' : List'[k] = data'[k - 1]
    BY ListPlacesNext
  <2> QED
    BY <1>1, <1>3, <1>4, <2>1, SeqEqual
<1>6. Value' = Lists!InsertAt(Value, i + 1, v) /\ Value = List
  BY <1>5 DEF Value, L
<1>7. Lists!Insert(i + 1, v) /\ i + 1 \in 1 .. Len(Value) + 1 /\ Value # Gone
  BY <1>2, <1>6, ListPlaces DEF Lists!Insert, Value
<1> QED
  BY <1>7 DEF Lists!Next, Value

LEMMA EraseRefines ==
    ASSUME BufferOK, BufferOK', live, live', NEW i \in 0 .. size - 1, size' = size - 1,
           \A j \in 0 .. size - 2 : data'[j] = IF j < i THEN data[j] ELSE data[j + 1]
    PROVE  Lists!Next
<1>1. size \in Nat /\ i \in Nat /\ i < size
  BY DEF BufferOK
<1> DEFINE L == [k \in 1 .. size - 1 |-> IF k < i + 1 THEN List[k] ELSE List[k + 1]]
<1>2. i + 1 \in 1 .. Len(List)
  BY <1>1, ListPlaces
<1>3. Lists!RemoveAt(List, i + 1) = L
  BY <1>2, ListPlaces, ErasePlaces
<1>4. ASSUME NEW k \in 1 .. size - 1 PROVE data'[k - 1] = L[k]
  <2>1. /\ k - 1 \in 0 .. size - 2 /\ k \in 1 .. size /\ k + 1 \in 1 .. size
        /\ (k - 1) + 1 = (k + 1) - 1 /\ (k - 1 < i <=> k < i + 1)
    BY <1>1
  <2>2. List[k] = data[k - 1] /\ List[k + 1] = data[(k + 1) - 1]
    BY <2>1, ListPlaces
  <2> QED
    BY <2>1, <2>2
<1>5. [k \in 1 .. size' |-> data'[k - 1]] = L
  BY <1>4
<1>6. Value' = Lists!RemoveAt(Value, i + 1) /\ Value = List
  BY <1>3, <1>5 DEF Value, List
<1>7. Lists!Erase(i + 1) /\ i + 1 \in 1 .. Len(Value) /\ Value # Gone
  BY <1>2, <1>6, ListPlaces DEF Lists!Erase, Value
<1> QED
  BY <1>7 DEF Lists!Next, Value

LEMMA ResizeRefines ==
    ASSUME BufferOK, BufferOK', live, live', NEW n \in 0 .. MaxCapacity, NEW v \in Elems, size' = n,
           \A j \in 0 .. n - 1 : data'[j] = IF j < size THEN data[j] ELSE v
    PROVE  Lists!Next
<1>1. size \in Nat /\ n \in Nat
  BY SliceAssumption DEF BufferOK
<1> DEFINE L == [k \in 1 .. n |-> IF k <= Len(List) THEN List[k] ELSE v]
<1>2. ASSUME NEW k \in 1 .. n PROVE data'[k - 1] = L[k]
  <2>1. k - 1 \in 0 .. n - 1 /\ (k - 1 < size <=> k <= size) /\ k \in Nat /\ k > 0
    BY <1>1
  <2>2. k <= size => List[k] = data[k - 1]
    BY <1>1, <2>1, ListPlaces
  <2> QED
    BY <2>1, <2>2, ListPlaces
<1>3. [k \in 1 .. size' |-> data'[k - 1]] = L
  BY <1>2
<1>4. Value = List /\ Value' = L
  BY <1>3 DEF Value, List
<1>5. Lists!Resize(n, v) /\ Value # Gone /\ v \in Items \cup {Zero}
  BY <1>4, ListPlaces DEF Lists!Resize, Value, Elems
<1> QED
  BY <1>5 DEF Lists!Next, Value

(* Every call of slice.c is one step of the list, or none.                 *)
LEMMA ListStep ==
    ASSUME SliceTypeOK, SliceTypeOK', [SliceNext]_slice_vars
    PROVE  Lists!Next \/ Value' = Value
<1>b. BufferOK /\ BufferOK'
  BY DEF SliceTypeOK
<1>s. size \in Nat /\ capacity \in Nat /\ size <= capacity
  BY <1>b DEF BufferOK
<1>t. BufferOK /\ BufferOK' /\ size \in Nat /\ capacity \in Nat /\ size <= capacity
  BY <1>b, <1>s
<1>1. ASSUME NEW n \in Capacities, slice_init(n) PROVE Lists!Next
  <2>1. capacity' > 0 /\ size' = 0 /\ ~live
    BY <1>1, SliceAssumption DEF slice_init
  <2>2. Value = Gone /\ Value' = <<>>
    BY <2>1 DEF Value, live, List
  <2> QED
    BY <2>2 DEF Lists!Next, Lists!Create, Value
<1>2. CASE slice_deinit
  <2>1. Value # Gone /\ Value' = Gone
    BY <1>t, <1>2, ListPlaces DEF slice_deinit, Value, live
  <2> QED
    BY <2>1 DEF Lists!Next, Lists!Destroy, Value
<1>3. ASSUME NEW n \in Capacities, slice_reserve(n) PROVE Value' = Value
  <2>1. PICK b \in (IF n <= capacity THEN {Same} ELSE Realloc(n)) : Install(b) /\ data' = b.data
    BY <1>3 DEF slice_reserve
  <2>2. Copied(b) /\ b.capacity >= capacity
    BY <1>t, <2>1, SliceAssumption, ReallocCopies, ReallocSound DEF Copied, Same, Sound
  <2>3. \A j \in 0 .. size - 1 : data'[j] = data[j]
    BY <1>t, <2>1, <2>2 DEF Copied
  <2>4. live /\ live' /\ size' = size
    BY <1>t, <1>3, <2>1, <2>2 DEF slice_reserve, Install, live, BufferOK
  <2> QED
    BY <1>t, <2>3, <2>4, ListKept
<1>4. ASSUME NEW b \in Room, b.ret # 0, Install(b), data' = b.data, size' = size, live
      PROVE  Value' = Value
  <2>1. b = [Same EXCEPT !.ret = -1]
    BY <1>t, <1>4, RoomCopies
  <2>2. data' = data /\ capacity' = capacity
    BY <1>4, <2>1 DEF Same, Install
  <2> QED
    BY <1>4, <2>2 DEF Value, List, live
<1>5. ASSUME NEW v \in Items, slice_push_back(v) PROVE Lists!Next \/ Value' = Value
  <2>1. PICK b \in Room : /\ Install(b)
                          /\ data' = IF b.ret = 0 THEN [b.data EXCEPT ![size] = v] ELSE b.data
                          /\ size' = IF b.ret = 0 THEN size + 1 ELSE size
    BY <1>5 DEF slice_push_back
  <2>2. live
    BY <1>5 DEF slice_push_back
  <2>3. CASE b.ret # 0
    BY <1>4, <2>1, <2>2, <2>3
  <2>4. CASE b.ret = 0
    <3>1. /\ b.capacity \in Nat /\ size < b.capacity /\ capacity <= b.capacity /\ Copied(b)
          /\ DOMAIN b.data = 0 .. b.capacity - 1
      BY <1>t, <2>4, RoomSound, RoomCopies DEF Sound
    <3>2. size \in 0 .. b.capacity - 1 /\ \A j \in 0 .. size - 1 : j \in 0 .. capacity - 1 /\ j # size
      BY <1>t, <3>1
    <3>3. data'[size] = v /\ \A j \in 0 .. size - 1 : data'[j] = data[j]
      BY <2>1, <2>4, <3>1, <3>2 DEF Copied
    <3>4. size \in 0 .. size /\ \A j \in 0 .. size :
            data'[j] = IF j < size THEN data[j] ELSE IF j = size THEN v ELSE data[j - 1]
      BY <1>t, <3>3
    <3>5. live' /\ size' = size + 1
      BY <1>t, <2>1, <2>2, <2>4, <3>1 DEF live, Install
    <3> QED
      BY <1>t, <2>2, <3>4, <3>5, InsertRefines
  <2> QED
    BY <2>3, <2>4
<1>6. ASSUME NEW i \in 0 .. MaxCapacity, NEW v \in Items, slice_insert(i, v)
      PROVE  Lists!Next \/ Value' = Value
  <2>1. PICK b \in Room : /\ Install(b)
                          /\ data' = IF b.ret = 0 THEN Shifted(b.data, i, v) ELSE b.data
                          /\ size' = IF b.ret = 0 THEN size + 1 ELSE size
    BY <1>6 DEF slice_insert
  <2>2. live /\ i \in 0 .. size
    BY <1>t, <1>6, SliceAssumption DEF slice_insert
  <2>3. CASE b.ret # 0
    BY <1>4, <2>1, <2>2, <2>3
  <2>4. CASE b.ret = 0
    <3>1. /\ b.capacity \in Nat /\ size < b.capacity /\ capacity <= b.capacity /\ Copied(b)
          /\ DOMAIN b.data = 0 .. b.capacity - 1
      BY <1>t, <2>4, RoomSound, RoomCopies DEF Sound
    <3>2. ASSUME NEW j \in 0 .. size
          PROVE  data'[j] = IF j < i THEN data[j] ELSE IF j = i THEN v ELSE data[j - 1]
      <4>1. j \in DOMAIN b.data
        BY <1>t, <3>1
      <4>2. data'[j] = IF j = i THEN v ELSE IF i < j /\ j <= size THEN b.data[j - 1] ELSE b.data[j]
        BY <2>1, <2>4, <4>1 DEF Shifted
      <4>3. CASE j < i
        <5>1. j \in 0 .. capacity - 1 /\ j # i /\ ~(i < j)
          BY <1>t, <2>2, <4>3
        <5> QED
          BY <3>1, <4>2, <4>3, <5>1 DEF Copied
      <4>4. CASE j = i
        BY <2>2, <4>2, <4>4
      <4>5. CASE i < j
        <5>1. j - 1 \in 0 .. capacity - 1 /\ j # i /\ ~(j < i) /\ j <= size
          BY <1>t, <2>2, <4>5
        <5> QED
          BY <3>1, <4>2, <4>5, <5>1 DEF Copied
      <4> QED
        BY <2>2, <4>3, <4>4, <4>5
    <3>3. live' /\ size' = size + 1
      BY <1>t, <2>1, <2>2, <2>4, <3>1 DEF live, Install
    <3> QED
      BY <1>t, <2>2, <3>2, <3>3, InsertRefines
  <2> QED
    BY <2>3, <2>4
<1>7. ASSUME NEW i \in 0 .. MaxCapacity, NEW v \in Items, slice_set(i, v) PROVE Lists!Next
  <2>1. /\ live /\ live' /\ i \in 0 .. size - 1 /\ size' = size /\ data' = [data EXCEPT ![i] = v]
    BY <1>t, <1>7, SliceAssumption DEF slice_set, live
  <2>2. /\ List \in Seq(Elems \cup {Junk}) /\ Len(List) = size /\ List # Gone
        /\ List = [k \in 1 .. size |-> data[k - 1]]
    BY <1>t, ListPlaces DEF List
  <2>3. [k \in 1 .. size |-> data'[k - 1]] = [List EXCEPT ![i + 1] = v]
    <3>1. \A k \in 1 .. size : k - 1 \in DOMAIN data /\ (k - 1 = i <=> k = i + 1)
      BY <1>t, <2>1 DEF BufferOK
    <3> QED
      BY <2>1, <2>2, <3>1
  <2>4. Value' = Lists!ReplaceAt(Value, i + 1, v) /\ Value = List
    BY <2>1, <2>3 DEF Value, List, Lists!ReplaceAt
  <2>5. i + 1 \in 1 .. Len(Value) /\ i + 1 \in 1 .. Len(Value) + 1 /\ Value # Gone
    BY <1>t, <2>1, <2>2, <2>4
  <2>6. Lists!Set(i + 1, v)
    BY <2>4, <2>5 DEF Lists!Set, Value
  <2> QED
    BY <2>5, <2>6 DEF Lists!Next, Value
<1>8. ASSUME NEW i \in 0 .. MaxCapacity, slice_erase(i) PROVE Lists!Next
  <2>1. /\ live /\ live' /\ i \in 0 .. size - 1 /\ size' = size - 1
        /\ data' = [j \in DOMAIN data |-> IF i <= j /\ j < size - 1 THEN data[j + 1] ELSE data[j]]
    BY <1>t, <1>8, SliceAssumption DEF slice_erase, live
  <2>2. \A j \in 0 .. size - 2 : data'[j] = IF j < i THEN data[j] ELSE data[j + 1]
    BY <1>t, <2>1 DEF BufferOK
  <2> QED
    BY <1>t, <2>1, <2>2, EraseRefines
<1>9. CASE slice_pop_back
  <2>1. /\ live /\ live' /\ size - 1 \in 0 .. size - 1 /\ size' = size - 1 /\ data' = data
    BY <1>t, <1>9 DEF slice_pop_back, live
  <2>2. \A j \in 0 .. size - 2 : data'[j] = IF j < size - 1 THEN data[j] ELSE data[j + 1]
    BY <1>t, <2>1
  <2> QED
    BY <1>t, <2>1, <2>2, EraseRefines
<1>10. CASE slice_clear
  <2>1. live /\ live' /\ 0 \in 0 .. MaxCapacity /\ Zero \in Elems /\ size' = 0
    BY <1>10, SliceAssumption DEF slice_clear, live, Elems
  <2>2. \A j \in 0 .. 0 - 1 : data'[j] = IF j < size THEN data[j] ELSE Zero
    OBVIOUS
  <2> QED
    BY <1>t, <2>1, <2>2, ResizeRefines
<1>11. ASSUME NEW n \in 0 .. MaxCapacity, NEW v \in Elems, slice_resize(n, v)
       PROVE  Lists!Next \/ Value' = Value
  <2>1. PICK b \in (IF n > capacity THEN Realloc(n) ELSE {Same}) :
          /\ Install(b)
          /\ data' = IF b.ret = 0 THEN [j \in DOMAIN b.data |-> IF size <= j /\ j < n THEN v ELSE b.data[j]]
                                  ELSE b.data
          /\ size' = IF b.ret = 0 THEN n ELSE size
    BY <1>11 DEF slice_resize
  <2>2. live /\ n \in Nat
    BY <1>11, SliceAssumption DEF slice_resize
  <2>3. /\ Copied(b) /\ b.capacity >= capacity /\ (b.ret = 0 => n <= b.capacity)
        /\ DOMAIN b.data = 0 .. b.capacity - 1 /\ b.capacity \in Nat
    <3>1. CASE n > capacity
      BY <1>t, <2>1, <2>2, <3>1, ReallocCopies, ReallocSound DEF Sound
    <3>2. CASE ~(n > capacity)
      BY <1>t, <2>1, <2>2, <3>2 DEF Same, Copied, BufferOK
    <3> QED
      BY <3>1, <3>2
  <2>4. live'
    BY <1>t, <2>1, <2>2, <2>3 DEF live, Install
  <2>5. CASE b.ret # 0
    <3>1. \A j \in 0 .. size - 1 : data'[j] = data[j]
      BY <1>t, <2>1, <2>3, <2>5 DEF Copied
    <3> QED
      BY <1>t, <2>1, <2>2, <2>4, <2>5, <3>1, ListKept
  <2>6. CASE b.ret = 0
    <3>1. ASSUME NEW j \in 0 .. n - 1 PROVE data'[j] = IF j < size THEN data[j] ELSE v
      <4>1. j \in DOMAIN b.data /\ j < n /\ (j < size => j \in 0 .. capacity - 1) /\ (~(j < size) <=> size <= j)
        BY <1>t, <2>2, <2>3, <2>6
      <4>2. data'[j] = IF size <= j /\ j < n THEN v ELSE b.data[j]
        BY <2>1, <2>6, <4>1
      <4> QED
        BY <2>3, <4>1, <4>2 DEF Copied
    <3> QED
      BY <1>t, <2>1, <2>2, <2>4, <2>6, <3>1, ResizeRefines
  <2> QED
    BY <2>5, <2>6
<1>12. CASE UNCHANGED buffer
  BY <1>12 DEF buffer, Value, List, live
<1> QED
  BY <1>1, <1>2, <1>3, <1>5, <1>6, <1>7, <1>8, <1>9, <1>10, <1>11, <1>12
  DEF SliceNext, slice_iter_init, slice_iter_next, slice_vars

(* Whatever the capacities and whatever realloc answers, a slice behaves as
   the list of values that its callers take it for.                        *)
THEOREM SliceIsList == SliceSpec => ImplementsList
<1>1. SliceInit => Lists!Init
  BY DEF SliceInit, Lists!Init, live
<1>2. SliceTypeOK /\ SliceTypeOK' /\ [SliceNext]_slice_vars => [Lists!Next]_Value
  BY ListStep
<1> QED
  BY <1>1, <1>2, SliceTypeCorrect, PTL DEF SliceSpec, ImplementsList, Lists!Spec, Value
=============================================================================
