------------------------------ MODULE Counting ------------------------------
(***************************************************************************)
(* Lemmas about counting, for the invariants that say how often a job is   *)
(* in the pool's hands and how many holders a connection has, and          *)
(* induction over the natural numbers for what the recursive functions of  *)
(* XidRep and Marshall compute.                                            *)
(***************************************************************************)
EXTENDS FiniteSetTheorems, SequenceTheorems, FunctionTheorems,
        WellFoundedInduction, TLAPS

(* Subsets of a finite set that differ in one element at most.             *)
LEMMA OneMoreOrLess ==
    ASSUME NEW T, IsFiniteSet(T), NEW A, NEW B, A \subseteq T, B \subseteq T,
           NEW t, A \ {t} = B \ {t}
    PROVE  /\ Cardinality(A) \in Nat
           /\ Cardinality(B) \in Nat
           /\ t \notin A /\ t \in B => Cardinality(B) = Cardinality(A) + 1
           /\ t \in A /\ t \notin B => Cardinality(B) = Cardinality(A) - 1
           /\ (t \in A <=> t \in B) => Cardinality(B) = Cardinality(A)
<1>1. IsFiniteSet(A) /\ IsFiniteSet(B)
  BY FS_Subset
<1>2. Cardinality(A) \in Nat /\ Cardinality(B) \in Nat
  BY <1>1, FS_CardinalityType
<1>3. ASSUME t \notin A, t \in B PROVE Cardinality(B) = Cardinality(A) + 1
  <2>1. B = A \cup {t}
    BY <1>3
  <2> QED BY <1>1, <1>3, <2>1, FS_AddElement
<1>4. ASSUME t \in A, t \notin B PROVE Cardinality(B) = Cardinality(A) - 1
  <2>1. B = A \ {t}
    BY <1>4
  <2> QED BY <1>1, <1>4, <2>1, FS_RemoveElement
<1>5. ASSUME t \in A <=> t \in B PROVE A = B
  BY <1>5
<1> QED BY <1>2, <1>3, <1>4, <1>5

(* How many places of sequence s hold a member of V.                       *)
Count(s, V) == Cardinality({i \in DOMAIN s : s[i] \in V})

(* The places of a sequence, and those that hold members of V, are finite. *)
LEMMA CountNat ==
    ASSUME NEW S, NEW s \in Seq(S), NEW V
    PROVE  IsFiniteSet({i \in DOMAIN s : s[i] \in V}) /\ Count(s, V) \in Nat
<1>1. IsFiniteSet(1 .. Len(s)) /\ DOMAIN s = 1 .. Len(s)
  BY FS_Interval, LenProperties
<1>2. {i \in DOMAIN s : s[i] \in V} \in SUBSET (1 .. Len(s))
  BY <1>1
<1>3. IsFiniteSet({i \in DOMAIN s : s[i] \in V})
  BY <1>1, <1>2, FS_Subset, Zenon
<1> QED
  BY <1>3, FS_CardinalityType DEF Count

(* An empty queue counts nothing.                                          *)
LEMMA CountEmpty == ASSUME NEW V PROVE Count(<<>>, V) = 0
<1>1. {i \in DOMAIN <<>> : <<>>[i] \in V} = {}
  OBVIOUS
<1> QED
  BY <1>1, FS_EmptySet DEF Count

(* Putting an element at the end of a queue (fifo::enq) counts it.         *)
LEMMA CountAppend ==
    ASSUME NEW S, NEW s \in Seq(S), NEW x \in S, NEW V
    PROVE  Count(Append(s, x), V) = Count(s, V) + (IF x \in V THEN 1 ELSE 0)
<1> DEFINE P(q) == {i \in DOMAIN q : q[i] \in V}
<1> DEFINE n == Len(s) + 1
<1>1. Append(s, x) \in Seq(S) /\ Len(Append(s, x)) = n /\ n \in Nat
  BY AppendProperties, LenProperties
<1>2. \A i \in 1 .. Len(s) : Append(s, x)[i] = s[i]
  BY AppendProperties
<1>3. Append(s, x)[n] = x
  BY AppendProperties
<1>4. DOMAIN s = 1 .. Len(s) /\ DOMAIN Append(s, x) = 1 .. n /\ Len(s) \in Nat
  BY <1>1, LenProperties
<1>5. P(Append(s, x)) = IF x \in V THEN P(s) \cup {n} ELSE P(s)
  BY <1>2, <1>3, <1>4
<1>6. n \notin P(s)
  BY <1>4
<1>7. IsFiniteSet(P(s)) /\ Cardinality(P(s)) \in Nat
  BY CountNat, FS_CardinalityType
<1>8. x \in V => Cardinality(P(Append(s, x))) = Cardinality(P(s)) + 1
  BY <1>5, <1>6, <1>7, FS_AddElement
<1>9. Count(s, V) = Cardinality(P(s)) /\ Count(Append(s, x), V) = Cardinality(P(Append(s, x)))
  BY DEF Count
<1> HIDE DEF P
<1> QED
  BY <1>5, <1>7, <1>8, <1>9

(* Taking the front of a queue (fifo::deq) uncounts it: the places of the  *)
(* rest are those of the queue but the first, moved by one.                *)
LEMMA CountTail ==
    ASSUME NEW S, NEW s \in Seq(S), s # <<>>, NEW V
    PROVE  Count(s, V) = Count(Tail(s), V) + (IF Head(s) \in V THEN 1 ELSE 0)
<1> DEFINE P(q) == {i \in DOMAIN q : q[i] \in V}
<1> DEFINE R == P(s) \ {1}
<1>1. Tail(s) \in Seq(S) /\ Len(Tail(s)) = Len(s) - 1 /\ Len(s) \in Nat /\ Len(s) > 0
  BY HeadTailProperties, LenProperties, EmptySeq
<1>2. \A i \in 1 .. Len(s) - 1 : Tail(s)[i] = s[i + 1]
  BY <1>1, HeadTailProperties
<1>3. DOMAIN s = 1 .. Len(s) /\ DOMAIN Tail(s) = 1 .. Len(s) - 1
  BY <1>1, LenProperties
<1>4. IsFiniteSet(P(s)) /\ IsFiniteSet(P(Tail(s)))
  BY <1>1, CountNat
<1>5. Cardinality(P(Tail(s))) = Cardinality(R)
  <2> DEFINE f == [i \in P(Tail(s)) |-> i + 1]
  <2>1. f \in [P(Tail(s)) -> R]
    BY <1>1, <1>2, <1>3
  <2>2. \A i, k \in P(Tail(s)) : f[i] = f[k] => i = k
    BY <1>3
  <2>3. \A k \in R : \E i \in P(Tail(s)) : f[i] = k
    <3> TAKE k \in R
    <3>1. k - 1 \in P(Tail(s))
      BY <1>1, <1>2, <1>3
    <3>2. f[k - 1] = k
      BY <1>3, <3>1
    <3> QED BY <3>1, <3>2
  <2> HIDE DEF f, P, R
  <2>4. f \in Bijection(P(Tail(s)), R)
    BY <2>1, <2>2, <2>3, Fun_IsBij
  <2>5. ExistsBijection(P(Tail(s)), R)
    BY <2>4 DEF ExistsBijection
  <2> QED BY <1>4, <2>5, FS_Bijection
<1>6. 1 \in P(s) <=> Head(s) \in V
  BY <1>1, <1>3
<1>7. Cardinality(R) = IF 1 \in P(s) THEN Cardinality(P(s)) - 1 ELSE Cardinality(P(s))
  BY <1>4, FS_RemoveElement
<1>8. Cardinality(P(s)) \in Nat
  BY <1>4, FS_CardinalityType
<1>9. Count(s, V) = Cardinality(P(s)) /\ Count(Tail(s), V) = Cardinality(P(Tail(s)))
  BY DEF Count
<1> HIDE DEF P, R
<1> QED
  BY <1>5, <1>6, <1>7, <1>8, <1>9

(* How many of T have d in their variable f.                               *)
Holding(T, f, d) == Cardinality({u \in T : f[u] = d})

(* It is a number, for a finite T.                                         *)
LEMMA HoldingNat == ASSUME NEW T, IsFiniteSet(T), NEW f, NEW d PROVE Holding(T, f, d) \in Nat
<1>1. {u \in T : f[u] = d} \subseteq T
  OBVIOUS
<1>2. IsFiniteSet({u \in T : f[u] = d})
  BY <1>1, FS_Subset
<1> QED BY <1>2, FS_CardinalityType DEF Holding

(* None, if the variable is never d.                                       *)
LEMMA HoldingNone == ASSUME NEW T, NEW f, NEW d, \A u \in T : f[u] # d PROVE Holding(T, f, d) = 0
<1>1. {u \in T : f[u] = d} = {}
  OBVIOUS
<1> QED BY <1>1, FS_EmptySet DEF Holding

(* And at least one, if it is d somewhere.                                 *)
LEMMA HoldingSome ==
    ASSUME NEW T, IsFiniteSet(T), NEW f, NEW d, NEW u \in T, f[u] = d
    PROVE  Holding(T, f, d) > 0
<1>1. {v \in T : f[v] = d} \subseteq T /\ {v \in T : f[v] = d} # {}
  OBVIOUS
<1>2. IsFiniteSet({v \in T : f[v] = d})
  BY <1>1, FS_Subset
<1>3. Cardinality({v \in T : f[v] = d}) \in Nat /\ Cardinality({v \in T : f[v] = d}) # 0
  BY <1>1, <1>2, FS_EmptySet, FS_CardinalityType
<1> QED BY <1>3 DEF Holding

(* The variable changes for one thread only.                               *)
LEMMA HoldingMoves ==
    ASSUME NEW T, IsFiniteSet(T), NEW f, NEW g, NEW t \in T, \A u \in T : u # t => g[u] = f[u], NEW d
    PROVE  /\ g[t] = d /\ f[t] # d => Holding(T, g, d) = Holding(T, f, d) + 1
           /\ g[t] # d /\ f[t] = d => Holding(T, g, d) = Holding(T, f, d) - 1
           /\ (g[t] = d <=> f[t] = d) => Holding(T, g, d) = Holding(T, f, d)
<1> DEFINE A == {u \in T : f[u] = d}
           B == {u \in T : g[u] = d}
<1>1. A \subseteq T /\ B \subseteq T /\ A \ {t} = B \ {t}
      /\ (t \in A <=> f[t] = d) /\ (t \in B <=> g[t] = d)
  OBVIOUS
<1>0. Holding(T, f, d) = Cardinality(A) /\ Holding(T, g, d) = Cardinality(B)
  BY DEF Holding
<1> HIDE DEF A, B
<1>2. /\ Cardinality(A) \in Nat
      /\ Cardinality(B) \in Nat
      /\ t \notin A /\ t \in B => Cardinality(B) = Cardinality(A) + 1
      /\ t \in A /\ t \notin B => Cardinality(B) = Cardinality(A) - 1
      /\ (t \in A <=> t \in B) => Cardinality(B) = Cardinality(A)
  BY <1>1, OneMoreOrLess
<1> QED BY <1>0, <1>1, <1>2

-----------------------------------------------------------------------------
(* Induction, stated with sets.                                            *)

(* A set of naturals that is not empty has a least element: < on Nat is    *)
(* well-founded.                                                           *)
LEMMA LeastNat ==
    ASSUME NEW S, S \subseteq Nat, S # {}
    PROVE  \E x \in S : \A y \in S : x <= y
<1>1. PICK R : R = OpToRel(<, Nat)
  OBVIOUS
<1>2. \A x, y \in Nat : (<<x, y>> \in R) <=> (x < y)
  BY <1>1 DEF OpToRel
<1>3. IsWellFoundedOn(R, Nat)
  BY <1>1, NatLessThanWellFounded
<1>4. PICK x \in S : \A y \in S : ~(<<y, x>> \in R)
  BY <1>3, WFMin
<1>5. ASSUME NEW y \in S PROVE x <= y
  <2>1. x \in Nat /\ y \in Nat
    OBVIOUS
  <2>2. ~(y < x)
    BY <1>2, <1>4, <2>1
  <2> QED BY <2>1, <2>2
<1> QED BY <1>5

(* A set that holds 0 and the successor of each natural it holds has all.  *)
LEMMA NatIsInductive ==
    ASSUME NEW S, 0 \in S, \A n \in Nat : n \in S => n + 1 \in S
    PROVE  \A n \in Nat : n \in S
<1> SUFFICES ASSUME NEW n \in Nat, n \notin S PROVE FALSE
  OBVIOUS
<1>1. PICK x \in Nat \ S : \A y \in Nat \ S : x <= y
  <2>1. Nat \ S \subseteq Nat /\ Nat \ S # {}
    OBVIOUS
  <2> QED BY <2>1, LeastNat, Zenon
<1>2. x # 0
  BY <1>1
<1>3. x - 1 \in Nat /\ (x - 1) + 1 = x
  BY <1>1, <1>2
<1>4. x - 1 \in S
  BY <1>1, <1>3
<1> QED BY <1>1, <1>3, <1>4

-----------------------------------------------------------------------------
(* Parts of sequences.                                                     *)

(* b is the part of s from place j to place k.                             *)
Slice(s, j, k, S, b) == /\ b \in Seq(S)
                        /\ Len(b) = k - j + 1
                        /\ \A i \in 1 .. k - j + 1 : b[i] = s[j + i - 1]

LEMMA SubSeqIs ==
    ASSUME NEW S, NEW s \in Seq(S), NEW j \in 1 .. Len(s) + 1, NEW k \in j - 1 .. Len(s)
    PROVE  Slice(s, j, k, S, SubSeq(s, j, k))
<1>1. Len(s) \in Nat /\ j \in Int /\ k \in Int
  BY LenProperties
<1>2. ASSUME NEW i \in j .. k PROVE s[i] \in S
  <2>1. i \in 1 .. Len(s)
    BY <1>1
  <2> QED BY <2>1, ElementOfSeq
<1>3. PICK b : b = SubSeq(s, j, k)
  OBVIOUS
<1>4. b \in Seq(S)
  BY <1>1, <1>2, <1>3, SubSeqProperties
<1>5. Len(b) = IF j <= k THEN k - j + 1 ELSE 0
  BY <1>1, <1>2, <1>3, SubSeqProperties
<1>6. \A i \in 1 .. k - j + 1 : b[i] = s[j + i - 1]
  BY <1>1, <1>2, <1>3, SubSeqProperties
<1>7. Len(b) = k - j + 1
  BY <1>1, <1>5
<1> QED BY <1>3, <1>4, <1>6, <1>7 DEF Slice
=============================================================================
