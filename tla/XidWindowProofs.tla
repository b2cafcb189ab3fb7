-------------------------- MODULE XidWindowProofs --------------------------
(***************************************************************************)
(* Theorems about XidWindow for any number of xids and of reports: the     *)
(* client's list of finished xids is exact, and on the set of its elements *)
(* it is UpdateSet, which Rpc's client uses.                               *)
(***************************************************************************)
EXTENDS XidWindow, Counting

Sorted(v) == \A p, q \in 1 .. Len(v) : p <= q => v[p] <= v[q]

-----------------------------------------------------------------------------
(* The front of a list as Compress walks over it.                          *)

(* A function that satisfies the recursion of Compress on 1 .. n exists.   *)
LEMMA FrontExists ==
    ASSUME NEW v
    PROVE  \A n \in Nat : \E g : g = [i \in 1 .. n |-> IF i = 1 THEN 1 ELSE PopWhile(v, g[i - 1], i)]
<1> DEFINE S == {n \in Nat : \E g : g = [i \in 1 .. n |-> IF i = 1 THEN 1 ELSE PopWhile(v, g[i - 1], i)]}
<1>1. 0 \in S
  <2> DEFINE g == [i \in 1 .. 0 |-> 1]
  <2>1. g = [i \in 1 .. 0 |-> IF i = 1 THEN 1 ELSE PopWhile(v, g[i - 1], i)]
    OBVIOUS
  <2> HIDE DEF g
  <2> QED BY <2>1
<1>2. ASSUME NEW n \in Nat, n \in S PROVE n + 1 \in S
  <2>1. PICK g : g = [i \in 1 .. n |-> IF i = 1 THEN 1 ELSE PopWhile(v, g[i - 1], i)]
    BY <1>2
  <2> DEFINE e == IF n = 0 THEN 1 ELSE PopWhile(v, g[n], n + 1)
             k == [i \in 1 .. n + 1 |-> IF i = n + 1 THEN e ELSE g[i]]
  <2>2. \A i \in 1 .. n : k[i] = g[i]
    OBVIOUS
  <2>3. k[n + 1] = IF n + 1 = 1 THEN 1 ELSE PopWhile(v, k[(n + 1) - 1], n + 1)
    <3>1. CASE n = 0
      BY <3>1
    <3>2. CASE n # 0
      <4>1. n \in 1 .. n /\ (n + 1) - 1 = n /\ n + 1 # 1
        BY <3>2
      <4>2. k[n] = g[n]
        BY <2>2, <4>1
      <4>3. k[n + 1] = PopWhile(v, g[n], n + 1)
        BY <3>2
      <4> HIDE DEF k
      <4> QED BY <4>1, <4>2, <4>3
    <3> QED BY <3>1, <3>2
  <2>4. ASSUME NEW i \in 1 .. n PROVE k[i] = IF i = 1 THEN 1 ELSE PopWhile(v, k[i - 1], i)
    <3>1. g[i] = IF i = 1 THEN 1 ELSE PopWhile(v, g[i - 1], i)
      BY <2>1
    <3>2. k[i] = g[i]
      BY <2>2
    <3>3. i # 1 => k[i - 1] = g[i - 1]
      <4>1. i # 1 => i - 1 \in 1 .. n
        OBVIOUS
      <4> HIDE DEF k
      <4> QED BY <2>2, <4>1
    <3> HIDE DEF k
    <3> QED BY <3>1, <3>2, <3>3
  <2>5. k = [i \in DOMAIN k |-> k[i]] /\ DOMAIN k = 1 .. n + 1
    OBVIOUS
  <2>6. \A i \in 1 .. n + 1 : i = n + 1 \/ i \in 1 .. n
    OBVIOUS
  <2> HIDE DEF k
  <2>7. \A i \in 1 .. n + 1 : k[i] = IF i = 1 THEN 1 ELSE PopWhile(v, k[i - 1], i)
    BY <2>3, <2>4, <2>6
  <2>8. k = [i \in 1 .. n + 1 |-> IF i = 1 THEN 1 ELSE PopWhile(v, k[i - 1], i)]
    BY <2>5, <2>7
  <2> QED BY <2>8
<1> HIDE DEF S
<1>3. \A n \in Nat : n \in S
  BY <1>1, <1>2, NatIsInductive
<1> QED BY <1>3 DEF S

FrontOf(v) == CHOOSE f : f = [i \in 1 .. Len(v) |-> IF i = 1 THEN 1 ELSE PopWhile(v, f[i - 1], i)]

LEMMA CompressIs ==
    ASSUME NEW v
    PROVE  Compress(v) = SubSeq(v, FrontOf(v)[Len(v)], Len(v))
  BY DEF Compress, FrontOf

LEMMA FrontIs ==
    ASSUME NEW v, Len(v) \in Nat
    PROVE  \A i \in 1 .. Len(v) : FrontOf(v)[i] = IF i = 1 THEN 1 ELSE PopWhile(v, FrontOf(v)[i - 1], i)
<1>1. \E g : g = [i \in 1 .. Len(v) |-> IF i = 1 THEN 1 ELSE PopWhile(v, g[i - 1], i)]
  <2>1. PICK n \in Nat : n = Len(v)
    OBVIOUS
  <2>2. \E g : g = [i \in 1 .. n |-> IF i = 1 THEN 1 ELSE PopWhile(v, g[i - 1], i)]
    BY FrontExists
  <2> QED BY <2>1, <2>2
<1>2. FrontOf(v) = [i \in 1 .. Len(v) |-> IF i = 1 THEN 1 ELSE PopWhile(v, FrontOf(v)[i - 1], i)]
  BY <1>1 DEF FrontOf
<1> QED BY <1>2

(* The iterator has passed element i and the front is element j: there is  *)
(* no gap up to the front, its successor is not among the elements passed, *)
(* and every element popped is smaller.                                    *)
Walked(v, i, j) == /\ j \in 1 .. i
                   /\ \A x \in v[1] .. v[j] : \E p \in 1 .. i : v[p] = x
                   /\ \A p \in 1 .. i : v[p] # v[j] + 1
                   /\ \A p \in 1 .. j - 1 : v[p] < v[j]

(* The inner while: the front stays, or every element from the front to    *)
(* the iterator is popped.                                                 *)
LEMMA PopWhileWalks ==
    ASSUME NEW v \in Seq(Nat), Sorted(v), NEW i \in 1 .. Len(v), i # 1, NEW k, Walked(v, i - 1, k)
    PROVE  Walked(v, i, PopWhile(v, k, i))
<1>1. /\ Len(v) \in Nat
      /\ \A p \in 1 .. Len(v) : v[p] \in Nat
  BY LenProperties, ElementOfSeq
<1>2. /\ k \in 1 .. i - 1
      /\ \A x \in v[1] .. v[k] : \E p \in 1 .. i - 1 : v[p] = x
      /\ \A p \in 1 .. i - 1 : v[p] # v[k] + 1
      /\ \A p \in 1 .. k - 1 : v[p] < v[k]
  BY DEF Walked
<1>3. \A p, q \in 1 .. Len(v) : p <= q => v[p] <= v[q]
  BY DEF Sorted
<1>4. CASE v[k] + 1 # v[i]
  <2>1. PopWhile(v, k, i) = k
    <3>1. k \in k .. i /\ \A p \in k .. k - 1 : v[p] + 1 = v[i]
      BY <1>2
    <3>2. ASSUME NEW j \in k .. i, \A p \in k .. j - 1 : v[p] + 1 = v[i] PROVE j = k
      BY <1>2, <1>4, <3>2
    <3> QED BY <1>4, <3>1, <3>2 DEF PopWhile
  <2>2. \A p \in 1 .. i : p = i \/ p \in 1 .. i - 1
    BY <1>1
  <2>3. \A p \in 1 .. i - 1 : p \in 1 .. i
    BY <1>1
  <2>4. Walked(v, i, k)
    BY <1>2, <1>4, <2>2, <2>3 DEF Walked
  <2> QED BY <2>1, <2>4
<1>5. CASE v[k] + 1 = v[i]
  <2>1. ASSUME NEW p \in k .. i - 1 PROVE v[p] = v[k] /\ v[p] + 1 = v[i]
    <3>1. p \in 1 .. Len(v) /\ k \in 1 .. Len(v) /\ k <= p /\ p <= i /\ p \in 1 .. i - 1
      BY <1>1, <1>2
    <3>2. v[k] <= v[p] /\ v[p] <= v[i] /\ v[p] # v[k] + 1
      BY <1>2, <1>3, <3>1
    <3>3. v[k] \in Nat /\ v[p] \in Nat /\ v[i] \in Nat
      BY <1>1, <3>1
    <3> QED BY <1>5, <3>2, <3>3
  <2>2. PopWhile(v, k, i) = i
    <3>1. i \in k .. i /\ v[i] + 1 # v[i]
      BY <1>1, <1>2
    <3>2. ASSUME NEW j \in k .. i, v[j] + 1 # v[i] PROVE j = i
      <4>1. j # i => j \in k .. i - 1
        BY <1>1, <1>2
      <4> QED BY <2>1, <3>2, <4>1
    <3> QED BY <2>1, <3>1, <3>2 DEF PopWhile
  <2>3. ASSUME NEW x \in v[1] .. v[i] PROVE \E p \in 1 .. i : v[p] = x
    <3>1. x \in v[1] .. v[k] \/ x = v[i]
      <4>1. v[k] \in Nat /\ v[i] \in Nat /\ v[1] \in Nat
        BY <1>1, <1>2
      <4> QED BY <1>5, <4>1
    <3>2. \A p \in 1 .. i - 1 : p \in 1 .. i
      BY <1>1
    <3> QED BY <1>2, <3>1, <3>2
  <2>4. ASSUME NEW p \in 1 .. i PROVE v[p] # v[i] + 1
    <3>1. v[p] \in Nat /\ v[i] \in Nat /\ v[p] <= v[i]
      BY <1>1, <1>3
    <3> QED BY <3>1
  <2>5. ASSUME NEW p \in 1 .. i - 1 PROVE v[p] < v[i]
    <3>1. v[p] \in Nat /\ v[i] \in Nat /\ v[k] \in Nat
      BY <1>1, <1>2
    <3>2. v[p] <= v[k]
      <4>1. CASE p <= k
        <5>1. p \in 1 .. Len(v) /\ k \in 1 .. Len(v)
          BY <1>1, <1>2
        <5> QED BY <1>3, <4>1, <5>1
      <4>2. CASE p >= k
        <5>1. p \in k .. i - 1
          BY <1>2, <4>2
        <5> QED BY <2>1, <3>1, <5>1
      <4> QED BY <1>2, <4>1, <4>2
    <3> QED BY <1>5, <3>1, <3>2
  <2>6. Walked(v, i, i)
    BY <1>1, <2>3, <2>4, <2>5 DEF Walked
  <2> QED BY <2>2, <2>6
<1> QED BY <1>4, <1>5

(* So it is at every element, and compress ends with such a front.         *)
LEMMA FrontWalks ==
    ASSUME NEW v \in Seq(Nat), v # <<>>, Sorted(v)
    PROVE  Walked(v, Len(v), FrontOf(v)[Len(v)])
<1>1. Len(v) \in Nat \ {0} /\ (\A p \in 1 .. Len(v) : v[p] \in Nat)
  BY EmptySeq, ElementOfSeq
<1> DEFINE S == {n \in Nat : n + 1 \in 1 .. Len(v) => Walked(v, n + 1, FrontOf(v)[n + 1])}
<1>2. 0 \in S
  <2>1. FrontOf(v)[1] = 1
    BY <1>1, FrontIs
  <2>2. Walked(v, 1, 1)
    BY <1>1 DEF Walked
  <2> QED BY <2>1, <2>2
<1>3. ASSUME NEW n \in Nat, n \in S PROVE n + 1 \in S
  <2>1. SUFFICES ASSUME (n + 1) + 1 \in 1 .. Len(v)
                 PROVE  Walked(v, (n + 1) + 1, FrontOf(v)[(n + 1) + 1])
    OBVIOUS
  <2>2. PICK i \in 1 .. Len(v) : i = (n + 1) + 1
    BY <2>1
  <2>3. i # 1 /\ i - 1 = n + 1 /\ n + 1 \in 1 .. Len(v)
    BY <1>1, <2>2
  <2>4. Walked(v, i - 1, FrontOf(v)[i - 1])
    BY <1>3, <2>3
  <2>5. FrontOf(v)[i] = PopWhile(v, FrontOf(v)[i - 1], i)
    BY <1>1, <2>3, FrontIs
  <2>6. Walked(v, i, PopWhile(v, FrontOf(v)[i - 1], i))
    BY <2>3, <2>4, PopWhileWalks
  <2> QED BY <2>2, <2>5, <2>6
<1> HIDE DEF S
<1>4. \A n \in Nat : n \in S
  BY <1>2, <1>3, NatIsInductive
<1>5. Len(v) - 1 \in Nat /\ (Len(v) - 1) + 1 = Len(v) /\ Len(v) \in 1 .. Len(v)
  BY <1>1
<1>6. Len(v) - 1 \in S
  BY <1>4, <1>5
<1> QED BY <1>5, <1>6 DEF S

(* What compress leaves: everything from the last xid before the first gap *)
(* on.                                                                     *)
LEMMA CompressKeeps ==
    ASSUME NEW v \in Seq(Nat), v # <<>>, Sorted(v)
    PROVE  /\ Compress(v) \in Seq(Nat) /\ Compress(v) # <<>> /\ Sorted(Compress(v))
           /\ v[1] <= Head(Compress(v))
           /\ v[1] .. Head(Compress(v)) \subseteq ToSet(v)
           /\ Head(Compress(v)) + 1 \notin ToSet(v)
           /\ ToSet(Compress(v)) = {e \in ToSet(v) : e >= Head(Compress(v))}
<1>1. Len(v) \in Nat \ {0} /\ DOMAIN v = 1 .. Len(v) /\ (\A p \in 1 .. Len(v) : v[p] \in Nat)
  BY EmptySeq, ElementOfSeq, LenProperties
<1>2. PICK n \in Nat \ {0} : n = Len(v)
  BY <1>1
<1>3. PICK k : k = FrontOf(v)[n]
  OBVIOUS
<1>4. /\ k \in 1 .. n
      /\ \A x \in v[1] .. v[k] : \E p \in 1 .. n : v[p] = x
      /\ \A p \in 1 .. n : v[p] # v[k] + 1
      /\ \A p \in 1 .. k - 1 : v[p] < v[k]
  BY <1>2, <1>3, FrontWalks DEF Walked
<1>5. PICK c : c = Compress(v)
  OBVIOUS
<1>6. c = SubSeq(v, k, n)
  BY <1>2, <1>3, <1>5, CompressIs
<1>7. /\ c \in Seq(Nat)
      /\ Len(c) = n - k + 1
      /\ \A i \in 1 .. n - k + 1 : c[i] = v[k + i - 1]
  <2>1. k \in 1 .. n + 1 /\ n \in k - 1 .. n
    BY <1>4
  <2>2. Slice(v, k, n, Nat, c)
    BY <1>2, <1>6, <2>1, SubSeqIs
  <2> QED BY <2>2 DEF Slice
<1>8. \A p, q \in 1 .. n : p <= q => v[p] <= v[q]
  BY <1>2 DEF Sorted
<1>9. c # <<>> /\ c[1] = v[k] /\ Head(c) = v[k] /\ v[k] \in Nat /\ DOMAIN c = 1 .. Len(c)
  <2>1. Len(c) # 0 /\ 1 \in 1 .. n - k + 1 /\ k + 1 - 1 = k
    BY <1>4, <1>7
  <2>2. c # <<>> /\ c[1] = v[k]
    BY <1>7, <2>1
  <2>3. Head(c) = c[1]
    BY <1>7, <2>2
  <2>4. v[k] \in Nat
    BY <1>1, <1>2, <1>4
  <2> QED BY <1>7, <2>2, <2>3, <2>4, LenProperties
<1>10. Sorted(c)
  <2>1. ASSUME NEW p \in 1 .. Len(c), NEW q \in 1 .. Len(c), p <= q PROVE c[p] <= c[q]
    <3>1. k + p - 1 \in 1 .. n /\ k + q - 1 \in 1 .. n /\ k + p - 1 <= k + q - 1
      BY <1>4, <1>7, <2>1
    <3> QED BY <1>7, <1>8, <3>1
  <2> QED BY <2>1 DEF Sorted
<1>11. v[1] <= v[k]
  <2>1. 1 \in 1 .. n /\ 1 <= k
    BY <1>4
  <2> QED BY <1>4, <1>8, <2>1
<1>12. ASSUME NEW e PROVE e \in ToSet(v) <=> \E p \in 1 .. n : v[p] = e
  BY <1>1, <1>2 DEF ToSet
<1>13. ASSUME NEW e PROVE e \in ToSet(c) <=> e \in ToSet(v) /\ e >= v[k]
  <2>1. e \in ToSet(c) <=> \E i \in 1 .. n - k + 1 : c[i] = e
    BY <1>7, <1>9 DEF ToSet
  <2>2. ASSUME NEW i \in 1 .. n - k + 1, c[i] = e PROVE e \in ToSet(v) /\ e >= v[k]
    <3>1. k + i - 1 \in 1 .. n /\ k <= k + i - 1
      BY <1>4
    <3>2. PICK q \in 1 .. n : q = k + i - 1
      BY <3>1
    <3>3. v[q] = e
      BY <1>7, <2>2, <3>2
    <3>4. v[k] <= v[q] /\ v[k] \in Nat /\ v[q] \in Nat
      BY <1>1, <1>2, <1>4, <1>8, <3>1, <3>2
    <3> QED BY <1>12, <3>3, <3>4
  <2>3. ASSUME e \in ToSet(v), e >= v[k] PROVE \E i \in 1 .. n - k + 1 : c[i] = e
    <3>1. PICK q \in 1 .. n : v[q] = e
      BY <1>12, <2>3
    <3>2. q >= k
      <4>1. q < k => q \in 1 .. k - 1
        BY <1>4
      <4>2. v[k] \in Nat /\ v[q] \in Nat
        BY <1>1, <1>2, <1>4
      <4>3. q < k => v[q] < v[k]
        BY <1>4, <4>1
      <4> QED BY <1>4, <2>3, <3>1, <4>2, <4>3
    <3>3. q - k + 1 \in 1 .. n - k + 1 /\ k + (q - k + 1) - 1 = q
      BY <1>4, <3>2
    <3>4. c[q - k + 1] = v[q]
      BY <1>7, <3>3
    <3> QED BY <3>1, <3>3, <3>4
  <2> QED BY <2>1, <2>2, <2>3
<1>14. /\ v[1] .. v[k] \subseteq ToSet(v)
       /\ v[k] + 1 \notin ToSet(v)
  BY <1>4, <1>12
<1>15. ToSet(c) = {e \in ToSet(v) : e >= v[k]}
  BY <1>13
<1> QED BY <1>5, <1>7, <1>9, <1>10, <1>11, <1>14, <1>15

-----------------------------------------------------------------------------
(* The insertion.                                                          *)

(* Before the first greater element, or at the end.                        *)
LEMMA InsertPlace ==
    ASSUME NEW w \in Seq(Nat), NEW xid \in Nat
    PROVE  \E i \in 1 .. Len(w) + 1 :
               /\ InsertXid(w, xid) = SubSeq(w, 1, i - 1) \o <<xid>> \o SubSeq(w, i, Len(w))
               /\ \A p \in 1 .. i - 1 : w[p] <= xid
               /\ i \in 1 .. Len(w) => w[i] > xid
<1> DEFINE I == {i \in 1 .. Len(w) : w[i] > xid}
           s == SelectInSeq(w, LAMBDA e : e > xid)
<1>1. s = IF I # {} THEN Min(I) ELSE 0
  BY DEF SelectInSeq
<1>2. InsertXid(w, xid) = IF s = 0 THEN Append(w, xid) ELSE InsertAt(w, s, xid)
  BY DEF InsertXid
<1>3. Len(w) \in Nat /\ (\A p \in 1 .. Len(w) : w[p] \in Nat)
  BY LenProperties, ElementOfSeq
<1>4. CASE I = {}
  <2>1. \A p \in 1 .. Len(w) : w[p] <= xid
    BY <1>3, <1>4
  <2>2. InsertXid(w, xid) = Append(w, xid)
    BY <1>1, <1>2, <1>4
  <2>3. Append(w, xid) = SubSeq(w, 1, Len(w)) \o <<xid>> \o SubSeq(w, Len(w) + 1, Len(w))
    <3>1. SubSeq(w, 1, Len(w)) = w
      BY SubSeqFull
    <3>2. SubSeq(w, Len(w) + 1, Len(w)) = <<>>
      BY <1>3, SubSeqEmpty
    <3>3. w \o <<xid>> \in Seq(Nat) /\ (w \o <<xid>>) \o <<>> = w \o <<xid>>
      <4>1. <<xid>> \in Seq(Nat)
        OBVIOUS
      <4>2. w \o <<xid>> \in Seq(Nat)
        BY <4>1, ConcatProperties
      <4> QED BY <4>2, ConcatEmptySeq
    <3>4. Append(w, xid) = w \o <<xid>>
      BY AppendIsConcat
    <3> QED BY <3>1, <3>2, <3>3, <3>4
  <2>4. PICK i \in 1 .. Len(w) + 1 : i = Len(w) + 1
    BY <1>3
  <2>5. i - 1 = Len(w) /\ i \notin 1 .. Len(w)
    BY <1>3, <2>4
  <2>6. InsertXid(w, xid) = SubSeq(w, 1, i - 1) \o <<xid>> \o SubSeq(w, i, Len(w))
    BY <2>2, <2>3, <2>4, <2>5
  <2> QED BY <2>1, <2>5, <2>6
<1>5. CASE I # {}
  <2>1. I \subseteq Nat
    OBVIOUS
  <2>2. \E x \in I : \A y \in I : x <= y
    BY <1>5, <2>1, LeastNat, Zenon
  <2>3. s = Min(I) /\ Min(I) \in I /\ (\A y \in I : Min(I) <= y)
    BY <1>1, <1>5, <2>2 DEF Min
  <2>0. \A z : (z \in I) <=> (z \in 1 .. Len(w) /\ w[z] > xid)
    OBVIOUS
  <2> HIDE DEF I, s
  <2>4. PICK i : i = s /\ i \in I /\ (\A y \in I : i <= y)
    BY <2>3
  <2>8. i \in 1 .. Len(w) /\ w[i] > xid /\ i # 0
    BY <2>0, <2>4
  <2>5. ASSUME NEW p \in 1 .. i - 1 PROVE w[p] <= xid
    <3>1. p \in 1 .. Len(w) /\ ~(i <= p) /\ w[p] \in Nat
      BY <1>3, <2>8
    <3>2. p \notin I
      BY <2>4, <3>1
    <3> QED BY <2>0, <3>1, <3>2
  <2>6. InsertXid(w, xid) = SubSeq(w, 1, i - 1) \o <<xid>> \o SubSeq(w, i, Len(w))
    BY <1>2, <2>4, <2>8 DEF InsertAt
  <2>7. i \in 1 .. Len(w) + 1
    BY <1>3, <2>8
  <2> QED BY <2>5, <2>6, <2>7, <2>8
<1> QED BY <1>4, <1>5

(* An xid past the front goes into its place and changes nothing else.     *)
LEMMA InsertKeeps ==
    ASSUME NEW w \in Seq(Nat), w # <<>>, Sorted(w), NEW xid \in Nat, xid > w[1]
    PROVE  /\ InsertXid(w, xid) \in Seq(Nat) /\ InsertXid(w, xid) # <<>>
           /\ Sorted(InsertXid(w, xid))
           /\ InsertXid(w, xid)[1] = w[1]
           /\ ToSet(InsertXid(w, xid)) = ToSet(w) \cup {xid}
<1>1. Len(w) \in Nat \ {0} /\ DOMAIN w = 1 .. Len(w) /\ (\A p \in 1 .. Len(w) : w[p] \in Nat)
  BY EmptySeq, ElementOfSeq, LenProperties
<1>2. PICK n \in Nat \ {0} : n = Len(w)
  BY <1>1
<1>3. PICK v : v = InsertXid(w, xid)
  OBVIOUS
<1>4. PICK i \in 1 .. n + 1 : /\ v = SubSeq(w, 1, i - 1) \o <<xid>> \o SubSeq(w, i, n)
                              /\ \A p \in 1 .. i - 1 : w[p] <= xid
                              /\ i \in 1 .. n => w[i] > xid
  BY <1>2, <1>3, InsertPlace
<1>5. \A p, q \in 1 .. n : p <= q => w[p] <= w[q]
  BY <1>2 DEF Sorted
<1>6. \A p \in 1 .. n : w[p] \in Nat
  BY <1>1, <1>2
<1>7. i # 1
  BY <1>4, <1>6
<1>8. /\ v \in Seq(Nat)
      /\ Len(v) = n + 1
      /\ \A p \in 1 .. n + 1 : v[p] = IF p < i THEN w[p] ELSE IF p = i THEN xid ELSE w[p - 1]
  <2>1. PICK a : a = SubSeq(w, 1, i - 1)
    OBVIOUS
  <2>2. PICK b : b = SubSeq(w, i, n)
    OBVIOUS
  <2>3. a \in Seq(Nat) /\ Len(a) = i - 1 /\ (\A p \in 1 .. i - 1 : a[p] = w[p])
    <3>1. 1 \in 1 .. n + 1 /\ i - 1 \in 1 - 1 .. n /\ (i - 1) - 1 + 1 = i - 1 /\ (\A p \in Int : 1 + p - 1 = p)
      OBVIOUS
    <3>2. Slice(w, 1, i - 1, Nat, a)
      BY <1>2, <2>1, <3>1, SubSeqIs
    <3> QED BY <3>1, <3>2 DEF Slice
  <2>4. b \in Seq(Nat) /\ Len(b) = n - i + 1 /\ (\A p \in 1 .. n - i + 1 : b[p] = w[i + p - 1])
    <3>1. n \in i - 1 .. n
      OBVIOUS
    <3>2. Slice(w, i, n, Nat, b)
      BY <1>2, <2>2, <3>1, SubSeqIs
    <3> QED BY <3>2 DEF Slice
  <2>5. <<xid>> \in Seq(Nat) /\ Len(<<xid>>) = 1 /\ <<xid>>[1] = xid
    OBVIOUS
  <2>6. PICK d : d = a \o <<xid>>
    OBVIOUS
  <2>7. d \in Seq(Nat) /\ Len(d) = i /\ (\A p \in 1 .. i : d[p] = IF p < i THEN w[p] ELSE xid)
    <3>1. /\ d \in Seq(Nat)
          /\ Len(d) = Len(a) + 1
          /\ \A p \in 1 .. Len(a) + 1 : d[p] = IF p <= Len(a) THEN a[p] ELSE <<xid>>[p - Len(a)]
      BY <2>3, <2>5, <2>6, ConcatProperties
    <3>2. ASSUME NEW p \in 1 .. i PROVE d[p] = IF p < i THEN w[p] ELSE xid
      <4>1. CASE p < i
        <5>1. p \in 1 .. i - 1 /\ p \in 1 .. Len(a) + 1 /\ p <= Len(a)
          BY <2>3, <4>1
        <5> QED BY <2>3, <3>1, <4>1, <5>1
      <4>2. CASE p = i
        <5>1. p \in 1 .. Len(a) + 1 /\ ~(p <= Len(a)) /\ p - Len(a) = 1
          BY <2>3, <4>2
        <5> QED BY <2>5, <3>1, <4>2, <5>1
      <4> QED BY <4>1, <4>2
    <3> QED BY <2>3, <3>1, <3>2
  <2>8. v = d \o b
    BY <1>4, <2>1, <2>2, <2>6
  <2>9. /\ v \in Seq(Nat)
        /\ Len(v) = Len(d) + Len(b)
        /\ \A p \in 1 .. Len(d) + Len(b) : v[p] = IF p <= Len(d) THEN d[p] ELSE b[p - Len(d)]
    BY <2>4, <2>7, <2>8, ConcatProperties
  <2>10. ASSUME NEW p \in 1 .. n + 1
         PROVE  v[p] = IF p < i THEN w[p] ELSE IF p = i THEN xid ELSE w[p - 1]
    <3>0. p \in 1 .. Len(d) + Len(b)
      BY <2>4, <2>7
    <3>1. CASE p <= i
      <4>1. v[p] = d[p] /\ p \in 1 .. i
        BY <2>7, <2>9, <3>0, <3>1
      <4> QED BY <2>7, <3>1, <4>1
    <3>2. CASE p > i
      <4>1. v[p] = b[p - i] /\ p - i \in 1 .. n - i + 1 /\ i + (p - i) - 1 = p - 1
        BY <2>7, <2>9, <3>0, <3>2
      <4>2. b[p - i] = w[p - 1]
        BY <2>4, <4>1
      <4> QED BY <3>2, <4>1, <4>2
    <3> QED BY <3>1, <3>2
  <2> QED BY <2>4, <2>7, <2>9, <2>10
<1>9. v # <<>> /\ DOMAIN v = 1 .. n + 1
  <2>1. Len(v) # 0
    BY <1>8
  <2> QED BY <1>8, <2>1, LenProperties
<1>10. Sorted(v)
  <2>1. ASSUME NEW p \in 1 .. n + 1, NEW q \in 1 .. n + 1, p <= q PROVE v[p] <= v[q]
    <3>1. ASSUME NEW z \in 1 .. n + 1, z < i
          PROVE  z \in 1 .. n /\ z \in 1 .. i - 1 /\ v[z] = w[z] /\ v[z] <= xid
      <4>1. z \in 1 .. n /\ z \in 1 .. i - 1 /\ v[z] = w[z]
        BY <1>8, <3>1
      <4> QED BY <1>4, <4>1
    <3>2. ASSUME NEW z \in 1 .. n + 1, z > i
          PROVE  z - 1 \in 1 .. n /\ v[z] = w[z - 1] /\ v[z] > xid
      <4>1. z - 1 \in 1 .. n /\ v[z] = w[z - 1] /\ i \in 1 .. n /\ i <= z - 1
        BY <1>8, <3>2
      <4>2. w[i] > xid /\ w[i] <= w[z - 1]
        BY <1>4, <1>5, <4>1
      <4>3. w[i] \in Nat /\ w[z - 1] \in Nat
        BY <1>6, <4>1
      <4> QED BY <4>1, <4>2, <4>3
    <3>3. v[i] = xid
      BY <1>8
    <3>4. CASE q < i
      <4>1. p < i
        BY <2>1, <3>4
      <4> QED BY <1>5, <2>1, <3>1, <3>4, <4>1
    <3>5. CASE q = i
      <4>1. p < i \/ p = i
        BY <2>1, <3>5
      <4> QED BY <3>1, <3>3, <3>5, <4>1
    <3>6. CASE q > i
      <4>1. q - 1 \in 1 .. n /\ v[q] = w[q - 1] /\ v[q] > xid /\ w[q - 1] \in Nat
        BY <1>6, <3>2, <3>6
      <4>2. CASE p < i
        <5>1. p \in 1 .. n /\ v[p] = w[p] /\ p <= q - 1
          BY <2>1, <3>1, <3>6, <4>2
        <5> QED BY <1>5, <4>1, <5>1
      <4>3. CASE p = i
        BY <3>3, <4>1, <4>3
      <4>4. CASE p > i
        <5>1. p - 1 \in 1 .. n /\ v[p] = w[p - 1] /\ p - 1 <= q - 1
          BY <2>1, <3>2, <4>4
        <5> QED BY <1>5, <4>1, <5>1
      <4> QED BY <4>2, <4>3, <4>4
    <3> QED BY <3>4, <3>5, <3>6
  <2> QED BY <1>8, <2>1 DEF Sorted
<1>11. v[1] = w[1]
  <2>1. 1 \in 1 .. n + 1 /\ 1 < i
    BY <1>7
  <2> QED BY <1>8, <2>1
<1>12. ASSUME NEW e PROVE e \in ToSet(v) <=> e \in ToSet(w) \cup {xid}
  <2>1. (e \in ToSet(v) <=> \E p \in 1 .. n + 1 : v[p] = e) /\ (e \in ToSet(w) <=> \E p \in 1 .. n : w[p] = e)
    BY <1>1, <1>2, <1>9 DEF ToSet
  <2>2. ASSUME NEW p \in 1 .. n + 1 PROVE v[p] = xid \/ \E q \in 1 .. n : w[q] = v[p]
    <3>1. p < i => p \in 1 .. n /\ w[p] = v[p]
      BY <1>8
    <3>2. p > i => p - 1 \in 1 .. n /\ w[p - 1] = v[p]
      BY <1>8
    <3>3. p = i => v[p] = xid
      BY <1>8
    <3> QED BY <3>1, <3>2, <3>3
  <2>3. ASSUME NEW q \in 1 .. n PROVE \E p \in 1 .. n + 1 : v[p] = w[q]
    <3>1. q < i => q \in 1 .. n + 1 /\ v[q] = w[q]
      BY <1>8
    <3>2. q >= i => q + 1 \in 1 .. n + 1 /\ v[q + 1] = w[q]
      <4>1. q >= i => q + 1 \in 1 .. n + 1 /\ ~(q + 1 < i) /\ q + 1 # i /\ (q + 1) - 1 = q
        OBVIOUS
      <4> QED BY <1>8, <4>1
    <3> QED BY <3>1, <3>2
  <2>4. v[i] = xid
    BY <1>8
  <2> QED BY <2>1, <2>2, <2>3, <2>4
<1>13. ToSet(v) = ToSet(w) \cup {xid}
  BY <1>12
<1> QED BY <1>3, <1>8, <1>9, <1>10, <1>11, <1>13

-----------------------------------------------------------------------------
(* The window.                                                             *)

(* The least element of a sorted list is its first.                        *)
LEMMA HeadIsMin ==
    ASSUME NEW w \in Seq(Nat), w # <<>>, Sorted(w)
    PROVE  /\ Head(w) = w[1] /\ Head(w) \in Nat /\ Min(ToSet(w)) = Head(w)
           /\ Head(w) \in ToSet(w)
           /\ \A e \in ToSet(w) : e \in Nat /\ e >= Head(w)
<1>1. Len(w) \in Nat \ {0} /\ DOMAIN w = 1 .. Len(w) /\ (\A p \in 1 .. Len(w) : w[p] \in Nat)
  BY EmptySeq, ElementOfSeq, LenProperties
<1>2. Head(w) = w[1] /\ 1 \in 1 .. Len(w)
  BY <1>1
<1>3. ASSUME NEW e \in ToSet(w) PROVE e \in Nat /\ w[1] <= e
  <2>1. PICK p \in 1 .. Len(w) : e = w[p]
    BY <1>1 DEF ToSet
  <2>2. 1 <= p
    OBVIOUS
  <2> QED BY <1>1, <1>2, <2>1, <2>2 DEF Sorted
<1>4. w[1] \in ToSet(w) /\ w[1] \in Nat
  BY <1>1, <1>2 DEF ToSet
<1>5. ASSUME NEW x \in ToSet(w), \A y \in ToSet(w) : x <= y PROVE x = w[1]
  BY <1>3, <1>4, <1>5
<1>6. Min(ToSet(w)) = w[1]
  BY <1>3, <1>4, <1>5 DEF Min
<1> QED BY <1>2, <1>3, <1>4, <1>6

(* u is what update_xid_rep makes of list w when xid is reported.          *)
Updated(w, xid, u) ==
    /\ u \in Seq(Nat) /\ u # <<>> /\ Sorted(u)
    /\ ToSet(u) = UpdateSet(ToSet(w), xid)
    /\ xid <= Head(w) => u = w
    /\ xid > Head(w) => /\ Head(u) >= Head(w)
                        /\ Head(w) .. Head(u) \subseteq ToSet(w) \cup {xid}
                        /\ Head(u) + 1 \notin ToSet(w) \cup {xid}
                        /\ ToSet(u) = {e \in ToSet(w) \cup {xid} : e >= Head(u)}

(* update_xid_rep on the list is UpdateSet on the set of its elements.     *)
LEMMA UpdateListIsUpdateSet ==
    ASSUME NEW w \in Seq(Nat), w # <<>>, Sorted(w), NEW xid \in Nat
    PROVE  Updated(w, xid, UpdateList(w, xid))
<1>1. /\ Head(w) = w[1] /\ Head(w) \in Nat /\ Min(ToSet(w)) = Head(w)
      /\ \A e \in ToSet(w) : e \in Nat /\ e >= Head(w)
  BY HeadIsMin
<1>2. CASE xid <= Head(w)
  <2>1. UpdateList(w, xid) = w
    BY <1>2 DEF UpdateList
  <2>2. UpdateSet(ToSet(w), xid) = ToSet(w)
    BY <1>1, <1>2 DEF UpdateSet
  <2> QED BY <1>1, <1>2, <2>1, <2>2 DEF Updated
<1>3. CASE xid > Head(w)
  <2>1. PICK v : v = InsertXid(w, xid)
    OBVIOUS
  <2>2. PICK c : c = Compress(v)
    OBVIOUS
  <2>3. UpdateList(w, xid) = c
    BY <1>1, <1>3, <2>1, <2>2 DEF UpdateList
  <2>4. PICK S : S = ToSet(w) \cup {xid}
    OBVIOUS
  <2>5. /\ v \in Seq(Nat) /\ v # <<>> /\ Sorted(v)
        /\ v[1] = Head(w)
        /\ ToSet(v) = S
    BY <1>1, <1>3, <2>1, <2>4, InsertKeeps
  <2>6. /\ c \in Seq(Nat) /\ c # <<>> /\ Sorted(c)
        /\ Head(w) <= Head(c)
        /\ Head(w) .. Head(c) \subseteq S
        /\ Head(c) + 1 \notin S
        /\ ToSet(c) = {e \in S : e >= Head(c)}
    BY <2>2, <2>5, CompressKeeps
  <2>7. Head(c) \in Nat /\ (\A e \in S : e \in Nat)
    BY <1>1, <2>4, <2>6, HeadIsMin
  <2>8. UpdateSet(ToSet(w), xid) = {e \in S : \E n \in Head(w) .. (e + 1) : n \notin S}
    BY <1>1, <1>3, <2>4 DEF UpdateSet
  <2>9. ASSUME NEW e \in S PROVE e >= Head(c) <=> \E n \in Head(w) .. (e + 1) : n \notin S
    <3>1. ASSUME e >= Head(c) PROVE Head(c) + 1 \in Head(w) .. (e + 1)
      BY <1>1, <2>6, <2>7, <3>1
    <3>2. ASSUME ~(e >= Head(c)), NEW n \in Head(w) .. (e + 1) PROVE n \in S
      <4>1. n \in Head(w) .. Head(c)
        BY <1>1, <2>7, <3>2
      <4> QED BY <2>6, <4>1
    <3> QED BY <2>6, <3>1, <3>2
  <2>10. ToSet(c) = UpdateSet(ToSet(w), xid)
    BY <2>6, <2>8, <2>9
  <2> QED BY <1>1, <1>3, <2>3, <2>4, <2>6, <2>10 DEF Updated
<1> QED BY <1>1, <1>2, <1>3

(* The inductive invariant: the list is sorted, its front is contiguous,   *)
(* and the elements are the front and the finished xids past it.           *)
WindowInv == /\ xid_rep_window_ \in Seq(Nat) /\ xid_rep_window_ # <<>> /\ Sorted(xid_rep_window_)
             /\ reports \in [Xids -> Nat]
             /\ FrontIsContiguous
             /\ ToSet(xid_rep_window_)
                  = {Head(xid_rep_window_)} \cup {x \in Finished : x > Head(xid_rep_window_)}

LEMMA WindowInit == ASSUME Init PROVE WindowInv
<1>1. xid_rep_window_ \in Seq(Nat) /\ Len(xid_rep_window_) = 1 /\ xid_rep_window_[1] = 0
  BY DEF Init
<1>2. xid_rep_window_ # <<>> /\ Head(xid_rep_window_) = 0 /\ Sorted(xid_rep_window_)
  <2>1. xid_rep_window_ # <<>> /\ Head(xid_rep_window_) = 0
    BY DEF Init
  <2>2. \A p \in 1 .. Len(xid_rep_window_) : p = 1
    BY <1>1
  <2> QED BY <1>1, <2>1, <2>2 DEF Sorted
<1>3. reports \in [Xids -> Nat] /\ Finished = {}
  BY DEF Init, Finished
<1>4. ToSet(xid_rep_window_) = {0}
  BY <1>1 DEF ToSet
<1>5. FrontIsContiguous
  BY <1>2, <1>3 DEF FrontIsContiguous
<1> QED BY <1>1, <1>2, <1>3, <1>4, <1>5 DEF WindowInv

LEMMA WindowUpdate ==
    ASSUME WindowInv, NEW xid \in Xids, update_xid_rep(xid)
    PROVE  /\ WindowInv'
           /\ reports'[xid] = reports[xid] + 1
           /\ ToSet(xid_rep_window_') = UpdateSet(ToSet(xid_rep_window_), xid)
<1>1. PICK w : w = xid_rep_window_
  OBVIOUS
<1>2. PICK u : u = xid_rep_window_'
  OBVIOUS
<1>3. PICK F : F = Finished
  OBVIOUS
<1>4. PICK G : G = Finished'
  OBVIOUS
<1>5. /\ w \in Seq(Nat) /\ w # <<>> /\ Sorted(w)
      /\ reports \in [Xids -> Nat]
      /\ 1 .. Head(w) \subseteq F /\ Head(w) + 1 \notin F
      /\ ToSet(w) = {Head(w)} \cup {x \in F : x > Head(w)}
  BY <1>1, <1>3 DEF WindowInv, FrontIsContiguous
<1>6. u = UpdateList(w, xid) /\ reports' = [reports EXCEPT ![xid] = @ + 1]
  BY <1>1, <1>2 DEF update_xid_rep
<1>7. xid \in Nat /\ xid >= 1 /\ Xids \subseteq Nat /\ Head(w) \in Nat
  BY <1>5, MaxXidAssumption, HeadIsMin DEF Xids
<1>8. reports' \in [Xids -> Nat] /\ reports'[xid] = reports[xid] + 1
  BY <1>5, <1>6
<1>9. G = F \cup {xid} /\ F \subseteq Nat
  <2>1. ASSUME NEW x PROVE x \in G <=> x \in F \/ x = xid
    <3>1. (x \in F <=> x \in Xids /\ reports[x] > 0) /\ (x \in G <=> x \in Xids /\ reports'[x] > 0)
      BY <1>3, <1>4 DEF Finished
    <3>2. x \in Xids /\ x # xid => reports'[x] = reports[x]
      BY <1>5, <1>6
    <3>3. reports'[xid] > 0
      BY <1>5, <1>8
    <3> QED BY <3>1, <3>2, <3>3
  <2>2. F \subseteq Nat
    BY <1>3, <1>7 DEF Finished
  <2> QED BY <2>1, <2>2
<1>10. /\ u \in Seq(Nat) /\ u # <<>> /\ Sorted(u)
       /\ ToSet(u) = UpdateSet(ToSet(w), xid)
       /\ xid <= Head(w) => u = w
       /\ xid > Head(w) => /\ Head(u) >= Head(w)
                           /\ Head(w) .. Head(u) \subseteq ToSet(w) \cup {xid}
                           /\ Head(u) + 1 \notin ToSet(w) \cup {xid}
                           /\ ToSet(u) = {e \in ToSet(w) \cup {xid} : e >= Head(u)}
  <2>1. Updated(w, xid, u)
    BY <1>5, <1>6, <1>7, UpdateListIsUpdateSet
  <2> QED BY <2>1 DEF Updated
<1>11. Head(u) \in Nat
  BY <1>10, HeadIsMin
<1>12. /\ 1 .. Head(u) \subseteq G /\ Head(u) + 1 \notin G
       /\ ToSet(u) = {Head(u)} \cup {x \in G : x > Head(u)}
  <2>1. CASE xid <= Head(w)
    <3>1. xid \in F
      BY <1>5, <1>7, <2>1
    <3>2. G = F
      BY <1>9, <3>1
    <3> QED BY <1>5, <1>10, <2>1, <3>2
  <2>2. CASE xid > Head(w)
    <3>1. PICK f \in Nat : f = Head(w)
      BY <1>7
    <3>2. PICK g \in Nat : g = Head(u)
      BY <1>11
    <3>3. PICK S : S = {f} \cup {x \in F : x > f} \cup {xid}
      OBVIOUS
    <3>4. /\ g >= f /\ f .. g \subseteq S /\ g + 1 \notin S
          /\ ToSet(u) = {e \in S : e >= g}
      BY <1>5, <1>10, <2>2, <3>1, <3>2, <3>3
    <3>5. ASSUME NEW x \in 1 .. g PROVE x \in G
      <4>1. x \in 1 .. f \/ (x \in f .. g /\ x # f)
        OBVIOUS
      <4> QED BY <1>5, <1>9, <3>1, <3>3, <3>4, <4>1
    <3>6. g + 1 \notin G
      BY <1>9, <3>3, <3>4
    <3>7. ASSUME NEW x PROVE x \in ToSet(u) <=> x = g \/ (x \in G /\ x > g)
      <4>1. g \in S
        BY <3>4
      <4>2. ASSUME x \in S PROVE x \in Nat /\ (x = f \/ x \in G)
        BY <1>7, <1>9, <3>3, <4>2
      <4>3. ASSUME x \in G, x > g PROVE x \in S
        BY <1>7, <1>9, <3>3, <3>4, <4>3
      <4>4. ASSUME x \in S, x >= g PROVE x = g \/ (x \in G /\ x > g)
        BY <3>4, <4>2, <4>4
      <4>5. ASSUME x \in G, x > g PROVE x >= g
        BY <1>7, <1>9, <4>5
      <4> QED BY <3>4, <4>1, <4>3, <4>4, <4>5
    <3>8. ToSet(u) = {g} \cup {x \in G : x > g}
      BY <3>7
    <3> QED BY <3>2, <3>5, <3>6, <3>8
  <2> QED BY <1>7, <2>1, <2>2
<1>13. WindowInv'
  BY <1>2, <1>4, <1>8, <1>10, <1>12 DEF WindowInv, FrontIsContiguous
<1> QED BY <1>1, <1>2, <1>8, <1>10, <1>13

LEMMA WindowIsExactNow == ASSUME WindowInv PROVE WindowIsExact
<1>1. PICK w : w = xid_rep_window_
  OBVIOUS
<1>2. w \in Seq(Nat) /\ w # <<>> /\ ToSet(w) = {Head(w)} \cup {x \in Finished : x > Head(w)}
      /\ FrontIsContiguous /\ Sorted(w)
  BY <1>1 DEF WindowInv
<1>3. Len(w) \in Nat \ {0} /\ DOMAIN w = 1 .. Len(w) /\ Head(w) = w[1] /\ Head(w) \in Nat
  BY <1>2, EmptySeq, LenProperties, HeadIsMin
<1>4. PICK t : t = Tail(w)
  OBVIOUS
<1>5. t \in Seq(Nat) /\ Len(t) = Len(w) - 1 /\ (\A i \in 1 .. Len(t) : t[i] = w[i + 1])
  BY <1>2, <1>4, HeadTailProperties
<1>6. DOMAIN t = 1 .. Len(w) - 1
  BY <1>5, LenProperties
<1>7. ASSUME NEW e PROVE e \in ToSet(t) /\ e # w[1] <=> e \in ToSet(w) /\ e # w[1]
  <2>1. (e \in ToSet(w) <=> \E p \in 1 .. Len(w) : w[p] = e)
        /\ (e \in ToSet(t) <=> \E p \in 1 .. Len(w) - 1 : w[p + 1] = e)
    BY <1>3, <1>5, <1>6 DEF ToSet
  <2>2. \A p \in 1 .. Len(w) - 1 : p + 1 \in 1 .. Len(w)
    BY <1>3
  <2>3. \A p \in 1 .. Len(w) : p # 1 => p - 1 \in 1 .. Len(w) - 1 /\ (p - 1) + 1 = p
    BY <1>3
  <2>4. ASSUME NEW p \in 1 .. Len(w), w[p] = e, e # w[1] PROVE \E q \in 1 .. Len(w) - 1 : w[q + 1] = e
    <3>1. p # 1
      BY <2>4
    <3> QED BY <2>3, <2>4, <3>1
  <2> QED BY <2>1, <2>2, <2>4
<1>8. ASSUME NEW e PROVE e \in ToSet(w) /\ e # w[1] <=> e \in Finished /\ e > w[1]
  <2>1. e \in Finished => e \in Nat
    BY MaxXidAssumption DEF Finished, Xids
  <2> QED BY <1>2, <1>3, <2>1
<1>9. ToSet(t) \ {w[1]} = {x \in Finished : x > w[1]}
  BY <1>7, <1>8
<1> QED BY <1>1, <1>2, <1>3, <1>4, <1>9 DEF WindowIsExact, RestIsFinished

LEMMA WindowNext == ASSUME WindowInv, [Next]_vars PROVE WindowInv'
<1>1. CASE Next
  BY <1>1, WindowUpdate DEF Next
<1>2. CASE UNCHANGED vars
  BY <1>2 DEF vars, WindowInv, FrontIsContiguous, Finished
<1> QED BY <1>1, <1>2

LEMMA WindowAlways == Spec => []WindowInv
  BY WindowInit, WindowNext, PTL DEF Spec

(* However many calls a client makes, in whatever order they finish and    *)
(* however often each is reported: update_xid_rep's list knows exactly     *)
(* which have finished.  Its front, which every request carries as xid_rep *)
(* and up to which the server forgets replies, is neither past an          *)
(* unfinished call nor behind the last one before a gap.                   *)
THEOREM WindowExact == Spec => []WindowIsExact
  BY WindowAlways, WindowIsExactNow, PTL

(* The list code computes UpdateSet on the set of the list's elements, in  *)
(* every step of every client: what the proofs about Rpc conclude from     *)
(* UpdateSet holds of the code's list.                                     *)
THEOREM ListImplementsSet == Spec => ListIsSet
<1>1. ASSUME WindowInv, [Next]_vars
      PROVE  [\E xid \in Xids :
                /\ reports'[xid] = reports[xid] + 1
                /\ ToSet(xid_rep_window_') = UpdateSet(ToSet(xid_rep_window_), xid)]_vars
  BY <1>1, WindowUpdate DEF Next
<1> QED BY <1>1, WindowAlways, PTL DEF Spec, ListIsSet
=============================================================================
