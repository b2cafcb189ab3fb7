--------------------------- MODULE RpcCallProofs ---------------------------
(***************************************************************************)
(* Theorems about RpcCall for any timeouts and units of time, any number   *)
(* of values of a byte and any arguments: a call that times out has waited *)
(* for its whole timeout, a request is written inside its buffer, and      *)
(* headers, arguments and results arrive as they were sent, so that the    *)
(* asserts of rpctest hold.                                                *)
(***************************************************************************)
EXTENDS RpcCall, Counting

-----------------------------------------------------------------------------
(* Division.                                                               *)

LEMMA DivMod ==
    ASSUME NEW x \in Int, NEW n \in Nat \ {0}
    PROVE  x = (x \div n) * n + (x % n) /\ x % n \in 0 .. n - 1 /\ x \div n \in Int
  OBVIOUS

(* Quotient and remainder are the only ones there are.                     *)
LEMMA DivUnique ==
    ASSUME NEW x \in Int, NEW n \in Nat \ {0}, NEW q \in Int, NEW m \in 0 .. n - 1, x = q * n + m
    PROVE  x \div n = q /\ x % n = m
<1> DEFINE p == x \div n
           k == x % n
<1>1. x = p * n + k /\ k \in 0 .. n - 1 /\ p \in Int
  BY DivMod
<1> HIDE DEF p, k
<1>2. ASSUME NEW d \in Int, NEW e \in Int, e >= d + 1 PROVE e * n >= d * n + n
  <2>1. (e - d - 1) * n >= 0
    BY <1>2
  <2>2. (e - d - 1) * n = e * n - d * n - n
    BY <1>2
  <2>3. e * n \in Int /\ d * n \in Int
    OBVIOUS
  <2> QED BY <2>1, <2>2, <2>3
<1>3. p * n \in Int /\ q * n \in Int
  BY <1>1
<1>4. ~(p >= q + 1)
  <2>1. p >= q + 1 => p * n >= q * n + n
    BY <1>1, <1>2
  <2> QED BY <1>1, <1>3, <2>1
<1>5. ~(q >= p + 1)
  <2>1. q >= p + 1 => q * n >= p * n + n
    BY <1>1, <1>2
  <2> QED BY <1>1, <1>3, <2>1
<1>6. p = q
  BY <1>1, <1>4, <1>5
<1> QED BY <1>1, <1>3, <1>6 DEF p, k

(* Dividing twice is dividing by the product.                              *)
LEMMA DivTwice ==
    ASSUME NEW x \in Int, NEW n \in Nat \ {0}, NEW d \in Nat \ {0}
    PROVE  n * d \in Nat \ {0} /\ (x \div n) \div d = x \div (n * d)
<1> DEFINE q == x \div n
           m == x % n
           p == q \div d
           k == q % d
<1>1. x = q * n + m /\ m \in 0 .. n - 1 /\ q \in Int
  BY DivMod
<1>2. q = p * d + k /\ k \in 0 .. d - 1 /\ p \in Int
  BY <1>1, DivMod
<1> HIDE DEF q, m, p, k
<1>3. n * d \in Nat \ {0}
  OBVIOUS
<1>4. x = p * (n * d) + (k * n + m)
  BY <1>1, <1>2
<1>5. k * n + m \in 0 .. n * d - 1
  <2>1. k * n >= 0 /\ k * n \in Int
    BY <1>2
  <2>2. (d - 1 - k) * n >= 0
    BY <1>2
  <2>3. (d - 1 - k) * n = n * d - n - k * n
    BY <1>2
  <2> QED BY <1>1, <1>3, <2>1, <2>2, <2>3
<1>6. x \div (n * d) = p
  BY <1>2, <1>3, <1>4, <1>5, DivUnique
<1> QED BY <1>3, <1>6 DEF p, q
-----------------------------------------------------------------------------
(* Integers of four bytes.                                                 *)

LEMMA Powers ==
    /\ Byte \in Nat \ {0} /\ Byte >= 2
    /\ Power[0] = 1 /\ Power[1] = Byte /\ Power[2] = Byte * Byte /\ Power[3] = Byte * Byte * Byte
    /\ Power[4] = Byte * Byte * Byte * Byte
    /\ \A k \in 0 .. 8 : Power[k] \in Nat \ {0}
    /\ \A k \in 1 .. 8 : Power[k] = Power[k - 1] * Byte
<1> DEFINE F(f) == [k \in 0 .. 8 |-> IF k = 0 THEN 1 ELSE f[k - 1] * Byte]
           v2 == Byte * Byte
           v3 == v2 * Byte
           v4 == v3 * Byte
           v5 == v4 * Byte
           v6 == v5 * Byte
           v7 == v6 * Byte
           v8 == v7 * Byte
           g == [k \in 0 .. 8 |-> IF k = 0 THEN 1 ELSE IF k = 1 THEN Byte ELSE IF k = 2 THEN v2
                                  ELSE IF k = 3 THEN v3 ELSE IF k = 4 THEN v4 ELSE IF k = 5 THEN v5
                                  ELSE IF k = 6 THEN v6 ELSE IF k = 7 THEN v7 ELSE v8]
<1>1. Byte \in Nat \ {0} /\ Byte >= 2
  BY ByteAssumption
<1>2. 1 * Byte = Byte
  BY <1>1
<1>3. g = F(g)
  <2> HIDE DEF v2, v3, v4, v5, v6, v7, v8
  <2>1. /\ g[0] = 1 /\ g[1] = Byte /\ g[2] = v2 /\ g[3] = v3 /\ g[4] = v4 /\ g[5] = v5
        /\ g[6] = v6 /\ g[7] = v7 /\ g[8] = v8
    OBVIOUS
  <2>2. \A k \in 0 .. 8 : k \in {0, 1, 2, 3, 4, 5, 6, 7, 8}
    OBVIOUS
  <2> HIDE DEF g
  <2>3. F(g)[0] = 1 /\ F(g)[1] = Byte /\ F(g)[2] = v2 /\ F(g)[3] = v3 /\ F(g)[4] = v4
    BY <1>2, <2>1 DEF v2, v3, v4
  <2>4. F(g)[5] = v5 /\ F(g)[6] = v6 /\ F(g)[7] = v7 /\ F(g)[8] = v8
    BY <2>1 DEF v5, v6, v7, v8
  <2>5. \A k \in 0 .. 8 : g[k] = F(g)[k]
    <3> HIDE DEF F
    <3> QED BY <2>1, <2>2, <2>3, <2>4
  <2> QED BY <2>5 DEF g
<1>4. Power = F(Power)
  <2>1. Power = CHOOSE f : f = F(f)
    BY DEF Power
  <2> HIDE DEF g, F
  <2> QED BY <1>3, <2>1
<1>5. Power[0] = 1
  BY <1>4
<1>6. Power[1] = Byte
  BY <1>2, <1>4, <1>5
<1>7. Power[2] = v2
  BY <1>4, <1>6
<1>8. Power[3] = v3
  <2> HIDE DEF v2
  <2> QED BY <1>4, <1>7
<1>9. Power[4] = v4
  <2> HIDE DEF v3
  <2> QED BY <1>4, <1>8
<1>10. \A k \in 0 .. 8 : Power[k] \in Nat \ {0}
  <2>1. ASSUME NEW k \in 1 .. 8, Power[k - 1] \in Nat \ {0} PROVE Power[k] \in Nat \ {0}
    <3>1. Power[k] = Power[k - 1] * Byte
      BY <1>4
    <3> QED BY <1>1, <2>1, <3>1
  <2>2. Power[0] \in Nat \ {0} /\ Power[1] \in Nat \ {0} /\ Power[2] \in Nat \ {0}
    BY <1>5, <2>1
  <2>3. Power[3] \in Nat \ {0} /\ Power[4] \in Nat \ {0}
    BY <2>1, <2>2
  <2>4. Power[5] \in Nat \ {0} /\ Power[6] \in Nat \ {0}
    BY <2>1, <2>3
  <2>5. Power[7] \in Nat \ {0} /\ Power[8] \in Nat \ {0}
    BY <2>1, <2>4
  <2>6. \A k \in 0 .. 8 : k \in {0, 1, 2, 3, 4, 5, 6, 7, 8}
    OBVIOUS
  <2> QED BY <2>2, <2>3, <2>4, <2>5, <2>6
<1>11. \A k \in 1 .. 8 : Power[k] = Power[k - 1] * Byte
  BY <1>4
<1> QED BY <1>1, <1>5, <1>6, <1>7, <1>8, <1>9, <1>10, <1>11

(* An int's and an unsigned int's four bytes.                              *)
LEMMA Ranges ==
    /\ Power[4] \in Nat /\ Power[4] >= 16 /\ Power[4] \div 2 \in Nat
    /\ 2 * (Power[4] \div 2) = Power[4]
    /\ SizeOfInt = 4
<1> DEFINE B == Byte
           h2 == B \div 2
<1>1. B \in Nat /\ B >= 2 /\ Power[4] = B * B * B * B
  BY Powers
<1>2. B = 2 * h2 /\ h2 \in Nat /\ h2 >= 1
  BY ByteAssumption
<1> HIDE DEF B, h2
<1>3. Power[4] = 2 * (h2 * B * B * B) /\ h2 * B * B * B \in Nat
  BY <1>1, <1>2
<1>4. B * B \in Nat /\ B * B >= 4
  <2>1. (B - 2) * (B + 2) >= 0
    BY <1>1
  <2>2. (B - 2) * (B + 2) = B * B - 4
    BY <1>1
  <2> QED BY <1>1, <2>1, <2>2
<1>5. Power[4] >= 16
  <2> DEFINE c == B * B
  <2>1. Power[4] = c * c
    BY <1>1
  <2> HIDE DEF c
  <2>2. c \in Nat /\ c >= 4
    BY <1>4 DEF c
  <2>3. (c - 4) * (c + 4) >= 0
    BY <2>2
  <2>4. (c - 4) * (c + 4) = c * c - 16
    BY <2>2
  <2> QED BY <2>1, <2>2, <2>3, <2>4
<1> QED BY <1>3, <1>5 DEF SizeOfInt

(* The number that bytes w, x, y, z spell.                                 *)
Spell(w, x, y, z) == ((w * Byte + x) * Byte + y) * Byte + z

(* The four bytes of x spell it, up to multiples of Power[4].              *)
LEMMA Spelled ==
    ASSUME NEW x \in Int
    PROVE  /\ \A k \in 0 .. 3 : ByteOf(x, k) \in 0 .. Byte - 1
           /\ Spell(ByteOf(x, 3), ByteOf(x, 2), ByteOf(x, 1), ByteOf(x, 0)) = x % Power[4]
<1> DEFINE B == Byte
           q1 == x \div B
           q2 == q1 \div B
           q3 == q2 \div B
           q4 == q3 \div B
<1>1. /\ B \in Nat \ {0} /\ Power[0] = 1 /\ Power[1] = B /\ Power[2] = B * B /\ Power[3] = B * B * B
      /\ Power[4] = B * B * B * B
  BY Powers
<1> HIDE DEF B
<1>2. q1 \in Int /\ q2 \in Int /\ q3 \in Int /\ q4 \in Int
  BY <1>1, DivMod
<1>3. /\ B * B \in Nat \ {0} /\ B * B * B \in Nat \ {0}
      /\ x \div Power[0] = x /\ x \div Power[1] = q1 /\ x \div Power[2] = q2 /\ x \div Power[3] = q3
      /\ x \div Power[4] = q4
  <2>1. x \div 1 = x
    OBVIOUS
  <2>2. B * B \in Nat \ {0} /\ q2 = x \div (B * B)
    BY <1>1, DivTwice
  <2> DEFINE c == B * B
             d == B * B * B
  <2> HIDE DEF q2, q3, c, d
  <2>3. d \in Nat \ {0} /\ q3 = x \div d
    <3>1. c \in Nat \ {0} /\ q2 = x \div c /\ c * B = d
      BY <2>2 DEF c, d
    <3>2. c * B \in Nat \ {0} /\ (x \div c) \div B = x \div (c * B)
      BY <1>1, <3>1, DivTwice
    <3> QED BY <3>1, <3>2 DEF q3
  <2>4. q4 = x \div (B * B * B * B)
    <3>1. (x \div d) \div B = x \div (d * B)
      BY <1>1, <2>3, DivTwice
    <3> QED BY <2>3, <3>1 DEF d
  <2>5. d = B * B * B
    BY DEF d
  <2> QED BY <1>1, <2>1, <2>2, <2>3, <2>4, <2>5
<1>4. /\ ByteOf(x, 0) = x % B /\ ByteOf(x, 1) = q1 % B /\ ByteOf(x, 2) = q2 % B /\ ByteOf(x, 3) = q3 % B
  BY <1>3 DEF ByteOf, B
<1>5. /\ x = q1 * B + (x % B) /\ x % B \in 0 .. B - 1
      /\ q1 = q2 * B + (q1 % B) /\ q1 % B \in 0 .. B - 1
      /\ q2 = q3 * B + (q2 % B) /\ q2 % B \in 0 .. B - 1
      /\ q3 = q4 * B + (q3 % B) /\ q3 % B \in 0 .. B - 1
  BY <1>1, <1>2, DivMod
<1>6. \A k \in 0 .. 3 : ByteOf(x, k) \in 0 .. B - 1
  <2>1. \A k \in 0 .. 3 : k = 0 \/ k = 1 \/ k = 2 \/ k = 3
    OBVIOUS
  <2> QED BY <1>4, <1>5, <2>1
<1>7. Spell(ByteOf(x, 3), ByteOf(x, 2), ByteOf(x, 1), ByteOf(x, 0)) = x - q4 * (B * B * B * B)
  <2> DEFINE b0 == x % B
             b1 == q1 % B
             b2 == q2 % B
             b3 == q3 % B
  <2>1. b0 \in Int /\ b1 \in Int /\ b2 \in Int /\ b3 \in Int
    BY <1>5
  <2> HIDE DEF b0, b1, b2, b3, q1, q2, q3, q4
  <2>2. b3 = q3 - q4 * B /\ b2 = q2 - q3 * B /\ b1 = q1 - q2 * B /\ b0 = x - q1 * B
    BY <1>1, <1>2, <1>5, <2>1 DEF b0, b1, b2, b3
  <2>3. b3 * B + b2 = q2 - q4 * (B * B)
    BY <1>1, <1>2, <2>2
  <2>4. (b3 * B + b2) * B + b1 = q1 - q4 * (B * B * B)
    BY <1>1, <1>2, <2>2, <2>3
  <2>5. ((b3 * B + b2) * B + b1) * B + b0 = x - q4 * (B * B * B * B)
    BY <1>1, <1>2, <2>2, <2>4
  <2> QED BY <1>4, <2>5 DEF Spell, B, b0, b1, b2, b3
<1>8. x = q4 * Power[4] + (x % Power[4]) /\ q4 * Power[4] \in Int /\ x % Power[4] \in Int
  <2>1. Power[4] \in Nat \ {0}
    BY Ranges
  <2>2. x = (x \div Power[4]) * Power[4] + (x % Power[4]) /\ x % Power[4] \in Int
    <3>1. PICK n \in Nat \ {0} : n = Power[4]
      BY <2>1
    <3>2. x = (x \div n) * n + (x % n) /\ x % n \in 0 .. n - 1
      BY DivMod
    <3> QED BY <3>1, <3>2
  <2>3. x \div Power[4] = q4
    BY <1>3
  <2> HIDE DEF q4
  <2> QED BY <1>2, <2>1, <2>2, <2>3
<1> QED BY <1>1, <1>6, <1>7, <1>8 DEF B

(* What AsSigned makes of an int, and what an unsigned int is.             *)
LEMMA IntsReturn ==
    /\ \A x \in Int32 : x \in Int /\ AsSigned(x % Power[4], 4) = x
    /\ \A x \in Uint32 : x \in Int /\ x % Power[4] = x
<1> DEFINE P == Power[4]
           H == P \div 2
<1>1. P \in Nat \ {0} /\ H \in Nat /\ 2 * H = P /\ SizeOfInt = 4
  BY Ranges
<1>2. Int32 = -H .. H - 1 /\ Uint32 = 0 .. P - 1
  BY <1>1 DEF Int32, Uint32
<1> HIDE DEF P, H
<1>3. ASSUME NEW x \in Int, x >= 0, x < P PROVE x % P = x
  <2>1. x = 0 * P + x /\ x \in 0 .. P - 1
    BY <1>1, <1>3
  <2> QED BY <1>1, <2>1, DivUnique
<1>4. ASSUME NEW x \in Int, x < 0, x >= -H PROVE x % P = x + P
  <2>1. x = (-1) * P + (x + P) /\ x + P \in 0 .. P - 1
    BY <1>1, <1>4
  <2> QED BY <1>1, <2>1, DivUnique
<1>5. ASSUME NEW x \in Int32 PROVE x \in Int /\ AsSigned(x % P, 4) = x
  <2>1. x \in Int /\ x >= -H /\ x < H
    BY <1>1, <1>2
  <2>2. CASE x >= 0
    <3>1. x % P = x /\ ~(2 * x >= P)
      BY <1>1, <1>3, <2>1, <2>2
    <3> QED BY <2>1, <3>1 DEF AsSigned, P
  <2>3. CASE x < 0
    <3>1. x % P = x + P /\ 2 * (x + P) >= P /\ (x + P) - P = x
      BY <1>1, <1>4, <2>1, <2>3
    <3> QED BY <2>1, <3>1 DEF AsSigned, P
  <2> QED BY <2>1, <2>2, <2>3
<1>6. ASSUME NEW x \in Uint32 PROVE x \in Int /\ x % P = x
  BY <1>1, <1>2, <1>3
<1> QED BY <1>5, <1>6 DEF P
-----------------------------------------------------------------------------
(* Reading.                                                                *)

(* rawbyte's result for byte i of the next ones of u.                      *)
ByteAt(u, i) == IF i <= Len(u.buf) - u.ind THEN u.buf[u.ind + i] ELSE 0

LEMMA GetFour ==
    ASSUME NEW u, \A i \in 1 .. 4 : ByteAt(u, i) \in Nat
    PROVE  GetBytes(u, 4).val = Spell(ByteAt(u, 1), ByteAt(u, 2), ByteAt(u, 3), ByteAt(u, 4))
<1> DEFINE at(i) == ByteAt(u, i)
           F(f) == [i \in 0 .. 4 |-> IF i = 0 THEN 0 ELSE f[i - 1] * Byte + at(i)]
           v1 == 0 * Byte + at(1)
           v2 == v1 * Byte + at(2)
           v3 == v2 * Byte + at(3)
           v4 == v3 * Byte + at(4)
           g == [i \in 0 .. 4 |-> IF i = 0 THEN 0 ELSE IF i = 1 THEN v1 ELSE IF i = 2 THEN v2
                                  ELSE IF i = 3 THEN v3 ELSE v4]
           num == CHOOSE f : f = F(f)
<1>0. GetBytes(u, 4).val = num[4]
  BY DEF GetBytes, ByteAt
<1> HIDE DEF at
<1>1. g = F(g)
  <2> HIDE DEF v1, v2, v3, v4
  <2>1. g[0] = 0 /\ g[1] = v1 /\ g[2] = v2 /\ g[3] = v3 /\ g[4] = v4
    OBVIOUS
  <2>2. \A i \in 0 .. 4 : i = 0 \/ i = 1 \/ i = 2 \/ i = 3 \/ i = 4
    OBVIOUS
  <2>3. F(g)[0] = 0 /\ F(g)[1] = v1 /\ F(g)[2] = v2 /\ F(g)[3] = v3 /\ F(g)[4] = v4
    BY <2>1 DEF v1, v2, v3, v4
  <2>4. \A i \in 0 .. 4 : g[i] = F(g)[i]
    BY <2>1, <2>2, <2>3
  <2> QED BY <2>4
<1>2. num = F(num)
  <2> HIDE DEF g, F
  <2> QED BY <1>1
<1>3. num[4] = v4
  <2> HIDE DEF num
  <2>1. num[0] = 0
    BY <1>2
  <2>2. num[1] = v1
    BY <1>2, <2>1
  <2>3. num[2] = v2
    <3> HIDE DEF v1
    <3> QED BY <1>2, <2>2
  <2>4. num[3] = v3
    <3> HIDE DEF v2
    <3> QED BY <1>2, <2>3
  <2>5. num[4] = v4
    <3> HIDE DEF v3
    <3> QED BY <1>2, <2>4
  <2> QED BY <2>5
<1>4. v1 = at(1)
  BY Powers DEF at
<1> QED BY <1>0, <1>3, <1>4 DEF Spell, at

(* Reading the four bytes of x at place j.                                 *)
LEMMA ReadInt ==
    ASSUME NEW T, NEW buf \in Seq(T), NEW j \in Nat, NEW ok, NEW x \in Int, j + 4 <= Len(buf),
           \A k \in 1 .. 4 : buf[j + k] = BigEndian(x, 4)[k]
    PROVE  /\ get([buf |-> buf, ind |-> j, ok |-> ok], "int")
              = [val |-> <<AsSigned(x % Power[4], 4)>>, u |-> [buf |-> buf, ind |-> j + 4, ok |-> ok]]
           /\ get([buf |-> buf, ind |-> j, ok |-> ok], "uint")
              = [val |-> <<x % Power[4]>>, u |-> [buf |-> buf, ind |-> j + 4, ok |-> ok]]
<1> DEFINE u == [buf |-> buf, ind |-> j, ok |-> ok]
<1>1. Len(buf) \in Nat /\ u.buf = buf /\ u.ind = j /\ u.ok = ok
  BY LenProperties
<1>2. /\ BigEndian(x, 4)[1] = ByteOf(x, 3) /\ BigEndian(x, 4)[2] = ByteOf(x, 2)
      /\ BigEndian(x, 4)[3] = ByteOf(x, 1) /\ BigEndian(x, 4)[4] = ByteOf(x, 0)
  BY DEF BigEndian
<1>3. \A k \in 1 .. 4 : ByteAt(u, k) = buf[j + k]
  <2>1. \A k \in 1 .. 4 : k <= Len(buf) - j
    BY <1>1
  <2> QED BY <1>1, <2>1 DEF ByteAt
<1>4. /\ ByteAt(u, 1) = ByteOf(x, 3) /\ ByteAt(u, 2) = ByteOf(x, 2)
      /\ ByteAt(u, 3) = ByteOf(x, 1) /\ ByteAt(u, 4) = ByteOf(x, 0)
  BY <1>2, <1>3
<1>5. \A k \in 0 .. 3 : ByteOf(x, k) \in Nat
  <2>1. \A k \in 0 .. 3 : ByteOf(x, k) \in 0 .. Byte - 1
    BY Spelled
  <2>2. Byte \in Nat
    BY ByteAssumption
  <2> QED BY <2>1, <2>2
<1>6. \A k \in 1 .. 4 : ByteAt(u, k) \in Nat
  <2> HIDE DEF u
  <2>1. ByteOf(x, 0) \in Nat /\ ByteOf(x, 1) \in Nat /\ ByteOf(x, 2) \in Nat /\ ByteOf(x, 3) \in Nat
    BY <1>5
  <2>2. ByteAt(u, 1) \in Nat /\ ByteAt(u, 2) \in Nat /\ ByteAt(u, 3) \in Nat /\ ByteAt(u, 4) \in Nat
    BY <1>4, <2>1
  <2>3. 1 .. 4 = {1, 2, 3, 4}
    OBVIOUS
  <2> QED BY <2>2, <2>3
<1>7. GetBytes(u, 4).val = x % Power[4]
  BY <1>4, <1>6, GetFour, Spelled
<1>8. GetBytes(u, 4).u = [buf |-> buf, ind |-> j + 4, ok |-> ok]
  <2>1. 4 <= Len(buf) - j
    BY <1>1
  <2>2. GetBytes(u, 4).u = [u EXCEPT !.ind = @ + 4]
    BY <1>1, <2>1 DEF GetBytes
  <2> QED BY <2>2
<1>9. Width["int"] = 4 /\ Width["uint"] = 4 /\ "int" \in SignedTypes /\ "uint" \notin SignedTypes
  BY DEF Width, SignedTypes
<1>10. "int" # "string" /\ "uint" # "string"
  OBVIOUS
<1> HIDE DEF u
<1> QED BY <1>7, <1>8, <1>9, <1>10 DEF get, u
-----------------------------------------------------------------------------
(* Writing.                                                                *)

Written(m, T) == /\ m \in [buf : Seq(T), capa : Nat, ind : Nat]
                 /\ m.ind >= RPC_HEADER_SZ /\ Len(m.buf) = m.ind

Fits(m) == m.capa >= RPC_HEADER_SZ /\ m.ind <= m.capa

LEMMA Sizes == SizeOfInt = 4 /\ RPC_HEADER_SZ = 24
  BY DEF SizeOfInt, RPC_HEADER_SZ

LEMMA ByteIsByte ==
    ASSUME NEW x \in Int, NEW k \in 0 .. 8 PROVE ByteOf(x, k) \in 0 .. Byte - 1
<1>1. PICK n \in Nat \ {0} : n = Power[k]
  BY Powers
<1>2. x \div n \in Int
  BY DivMod
<1>3. Byte \in Nat \ {0}
  BY ByteAssumption
<1> QED BY <1>1, <1>2, <1>3, DivMod DEF ByteOf

LEMMA BigEndianSeq ==
    ASSUME NEW T, NEW x, NEW n \in Nat, \A k \in 0 .. n - 1 : ByteOf(x, k) \in T
    PROVE  BigEndian(x, n) \in Seq(T) /\ Len(BigEndian(x, n)) = n
<1>1. BigEndian(x, n) \in [1 .. n -> T]
  <2>1. \A i \in 1 .. n : n - i \in 0 .. n - 1
    OBVIOUS
  <2> QED BY <2>1 DEF BigEndian
<1>2. BigEndian(x, n) \in Seq(T)
  BY <1>1, SeqDef
<1>3. DOMAIN BigEndian(x, n) = 1 .. n
  BY DEF BigEndian
<1> QED BY <1>2, <1>3, LenProperties

(* Bytes go in behind the ones that are there, after growing if need be.   *)
LEMMA RawByteWrites ==
    ASSUME NEW T, NEW m, Written(m, T), NEW s \in Seq(T)
    PROVE  /\ Written(rawbyte(m, s), T) /\ rawbyte(m, s).buf = m.buf \o s
           /\ Fits(m) /\ Len(s) <= RPC_HEADER_SZ => Fits(rawbyte(m, s))
<1>1. /\ m.buf \in Seq(T) /\ m.ind \in Nat /\ m.ind >= 24 /\ Len(m.buf) = m.ind /\ Len(s) \in Nat
      /\ m.capa \in Nat
  BY Sizes, LenProperties DEF Written
<1>2. SubSeq(m.buf, 1, m.ind) = m.buf
  BY <1>1, SubSeqFull
<1>3. SubSeq(m.buf, m.ind + Len(s) + 1, Len(m.buf)) = <<>>
  <2>1. m.ind + Len(s) + 1 \in Int /\ Len(m.buf) \in Int /\ Len(m.buf) < m.ind + Len(s) + 1
    BY <1>1
  <2> QED BY <2>1, SubSeqEmpty
<1>4. m.buf \o s \in Seq(T) /\ Len(m.buf \o s) = m.ind + Len(s)
  BY <1>1, ConcatProperties
<1>5. (m.buf \o s) \o <<>> = m.buf \o s
  BY <1>4, ConcatEmptySeq
<1>6. rawbyte(m, s) = [buf |-> m.buf \o s, capa |-> IF Full(m, Len(s)) THEN 2 * m.capa ELSE m.capa,
                       ind |-> m.ind + Len(s)]
  BY <1>2, <1>3, <1>5 DEF rawbyte
<1>7. Written(rawbyte(m, s), T)
  <2>1. (IF Full(m, Len(s)) THEN 2 * m.capa ELSE m.capa) \in Nat /\ m.ind + Len(s) \in Nat /\ m.ind + Len(s) >= 24
    BY <1>1
  <2> QED BY <1>4, <1>6, <2>1, Sizes DEF Written
<1>8. ASSUME Fits(m), Len(s) <= RPC_HEADER_SZ PROVE Fits(rawbyte(m, s))
  <2>1. m.capa >= 24 /\ m.ind <= m.capa /\ Len(s) <= 24
    BY <1>8, Sizes DEF Fits
  <2>2. /\ rawbyte(m, s).capa = IF m.ind + Len(s) > m.capa THEN 2 * m.capa ELSE m.capa
        /\ rawbyte(m, s).ind = m.ind + Len(s)
    BY <1>6 DEF Full
  <2> QED BY <1>1, <2>1, <2>2, Sizes DEF Fits
<1> QED BY <1>6, <1>7, <1>8

LEMMA RawBytesWrites ==
    ASSUME NEW T, NEW m, Written(m, T), NEW s \in Seq(T)
    PROVE  /\ Written(rawbytes(m, s), T) /\ rawbytes(m, s).buf = m.buf \o s
           /\ Fits(m) => Fits(rawbytes(m, s))
<1>1. /\ m.buf \in Seq(T) /\ m.ind \in Nat /\ m.ind >= 24 /\ Len(m.buf) = m.ind /\ Len(s) \in Nat
      /\ m.capa \in Nat
  BY Sizes, LenProperties DEF Written
<1>2. SubSeq(m.buf, 1, m.ind) = m.buf
  BY <1>1, SubSeqFull
<1>3. m.buf \o s \in Seq(T) /\ Len(m.buf \o s) = m.ind + Len(s)
  BY <1>1, ConcatProperties
<1> DEFINE c == IF m.ind + Len(s) > m.capa
                THEN (IF m.capa > Len(s) THEN 2 * m.capa ELSE m.capa + Len(s)) ELSE m.capa
<1>4. rawbytes(m, s) = [buf |-> m.buf \o s, capa |-> c, ind |-> m.ind + Len(s)]
  BY <1>2 DEF rawbytes, Grown
<1>5. Written(rawbytes(m, s), T)
  <2>1. c \in Nat /\ m.ind + Len(s) \in Nat /\ m.ind + Len(s) >= 24
    BY <1>1
  <2> HIDE DEF c
  <2> QED BY <1>3, <1>4, <2>1, Sizes DEF Written
<1>6. ASSUME Fits(m) PROVE Fits(rawbytes(m, s))
  <2>1. m.capa >= 24 /\ m.ind <= m.capa
    BY <1>6, Sizes DEF Fits
  <2>2. c >= 24 /\ m.ind + Len(s) <= c
    BY <1>1, <2>1
  <2>3. rawbytes(m, s).capa = c /\ rawbytes(m, s).ind = m.ind + Len(s)
    BY <1>4
  <2> QED BY <2>2, <2>3, Sizes DEF Fits
<1> QED BY <1>4, <1>5, <1>6

(* The bytes that << writes.                                               *)
Enc(v) == IF v.type = "string" THEN BigEndian(Len(v.val), SizeOfInt) \o v.val
          ELSE BigEndian(v.val[1], Width[v.type])

(* m << v writes behind what is there, and inside the buffer.              *)
LEMMA PutWrites ==
    ASSUME NEW T, NEW m, Written(m, T), NEW v, 0 .. Byte - 1 \subseteq T,
           \/ v.type = "string" /\ v.val \in Seq(T)
           \/ v.type \in DOMAIN Width /\ \A k \in 0 .. 7 : ByteOf(v.val[1], k) \in T
    PROVE  /\ Written(put(m, v), T) /\ (Fits(m) => Fits(put(m, v)))
           /\ put(m, v).buf = m.buf \o Enc(v) /\ Enc(v) \in Seq(T)
<1>1. CASE v.type = "string" /\ v.val \in Seq(T)
  <2> DEFINE n == BigEndian(Len(v.val), SizeOfInt)
             m1 == rawbyte(m, n)
  <2>1. PICK z \in Nat : z = Len(v.val)
    BY <1>1, LenProperties
  <2>2. \A k \in 0 .. 4 - 1 : ByteOf(z, k) \in T
    <3>1. \A k \in 0 .. 4 - 1 : k \in 0 .. 8
      OBVIOUS
    <3>2. z \in Int
      OBVIOUS
    <3> QED BY <3>1, <3>2, ByteIsByte
  <2>3. n \in Seq(T) /\ Len(n) = 4
    <3>1. n = BigEndian(z, 4)
      BY <2>1, Sizes
    <3>2. 4 \in Nat
      OBVIOUS
    <3> HIDE DEF n
    <3> QED BY <2>2, <3>1, <3>2, BigEndianSeq
  <2>4. Written(m1, T) /\ (Fits(m) => Fits(m1)) /\ m1.buf = m.buf \o n
    <3>1. Len(n) <= RPC_HEADER_SZ
      BY <2>3, Sizes
    <3> HIDE DEF n
    <3> QED BY <2>3, <3>1, RawByteWrites
  <2>5. put(m, v) = rawbytes(m1, v.val)
    BY <1>1 DEF put
  <2>6. Enc(v) = n \o v.val /\ m.buf \in Seq(T)
    BY <1>1 DEF Enc, Written
  <2> HIDE DEF m1, n
  <2>8. PICK s \in Seq(T) : s = v.val
    BY <1>1
  <2>10. n \o s \in Seq(T)
    BY <2>3, ConcatProperties
  <2>11. (m.buf \o n) \o s = m.buf \o (n \o s)
    <3>1. PICK b \in Seq(T) : b = m.buf
      BY <2>6
    <3>2. PICK x \in Seq(T) : x = n
      BY <2>3
    <3>3. (b \o x) \o s = b \o (x \o s)
      BY ConcatAssociative
    <3> QED BY <3>1, <3>2, <3>3
  <2>7. Enc(v) \in Seq(T) /\ (m.buf \o n) \o v.val = m.buf \o Enc(v)
    BY <2>6, <2>8, <2>10, <2>11
  <2>9. Written(rawbytes(m1, s), T) /\ (Fits(m1) => Fits(rawbytes(m1, s))) /\ rawbytes(m1, s).buf = m1.buf \o s
    BY <2>4, RawBytesWrites
  <2> QED BY <2>4, <2>5, <2>7, <2>8, <2>9
<1>2. CASE v.type # "string" /\ v.type \in DOMAIN Width /\ \A k \in 0 .. 7 : ByteOf(v.val[1], k) \in T
  <2>1. Width[v.type] \in 1 .. 8
    BY <1>2 DEF Width
  <2> DEFINE n == BigEndian(v.val[1], Width[v.type])
  <2>2. n \in Seq(T) /\ Len(n) <= 24
    <3>1. PICK w \in 1 .. 8 : w = Width[v.type]
      BY <2>1
    <3>2. \A k \in 0 .. w - 1 : k \in 0 .. 7
      OBVIOUS
    <3>3. n = BigEndian(v.val[1], w) /\ \A k \in 0 .. w - 1 : ByteOf(v.val[1], k) \in T
      BY <1>2, <3>1, <3>2
    <3>4. n \in Seq(T) /\ Len(n) = w
      <4> HIDE DEF n
      <4> QED BY <3>3, BigEndianSeq
    <3> QED BY <3>4
  <2>3. put(m, v) = rawbyte(m, n)
    BY <1>2 DEF put
  <2>4. Enc(v) = n
    BY <1>2 DEF Enc
  <2> HIDE DEF n
  <2> QED BY <2>2, <2>3, <2>4, RawByteWrites, Sizes
<1>3. "string" \notin DOMAIN Width
  BY DEF Width
<1> QED BY <1>1, <1>2, <1>3

LEMMA FreshIsWritten ==
    ASSUME NEW T, Junk \in T PROVE Written(marshall, T) /\ Fits(marshall)
<1>1. marshall.buf \in [1 .. 24 -> T] /\ marshall.ind = 24 /\ marshall.capa = DefaultSz
  BY Sizes DEF marshall
<1>2. marshall.buf \in Seq(T)
  BY <1>1, SeqDef
<1>3. Len(marshall.buf) = 24
  <2>1. DOMAIN marshall.buf = 1 .. 24
    BY <1>1
  <2>2. Len(marshall.buf) \in Nat /\ DOMAIN marshall.buf = 1 .. Len(marshall.buf)
    BY <1>2, LenProperties
  <2>3. PICK k \in Nat : k = Len(marshall.buf)
    BY <2>2
  <2>4. 1 .. k = 1 .. 24
    BY <2>1, <2>2, <2>3
  <2>5. k = 24
    <3>1. ~(k < 24)
      <4>1. k < 24 => 24 \in 1 .. 24 /\ 24 \notin 1 .. k
        OBVIOUS
      <4> QED BY <2>4, <4>1
    <3>2. ~(k > 24)
      <4>1. k > 24 => k \in 1 .. k /\ k \notin 1 .. 24
        OBVIOUS
      <4> QED BY <2>4, <4>1
    <3> QED BY <3>1, <3>2
  <2> QED BY <2>3, <2>5
<1>4. DefaultSz \in Nat /\ DefaultSz >= 24
  BY DefaultSzAssumption, Sizes
<1>5. marshall \in [buf : Seq(T), capa : Nat, ind : Nat]
  BY <1>1, <1>2, <1>4 DEF marshall
<1> QED BY <1>1, <1>3, <1>4, <1>5, Sizes DEF Written, Fits

LEMMA IndRestored ==
    ASSUME NEW b, NEW c, NEW i, NEW j
    PROVE  [[buf |-> b, capa |-> c, ind |-> i] EXCEPT !.ind = j] = [buf |-> b, capa |-> c, ind |-> j]
  OBVIOUS

(* What stands behind the header is the same in w and in b.                *)
KeepsRest(w, b) == Len(w) = Len(b) /\ \A i \in 25 .. Len(b) : w[i] = b[i]

(* Integers packed in front of what has been written.                      *)
LEMMA PackWrites ==
    ASSUME NEW T, NEW m, Written(m, T), NEW s \in Seq(T), Len(s) <= 20
    PROVE  /\ Written(PackHeader(m, s), T) /\ (Fits(m) => Fits(PackHeader(m, s)))
           /\ \A i \in 1 .. Len(s) : PackHeader(m, s).buf[4 + i] = s[i]
           /\ take_buf(PackHeader(m, s)) = PackHeader(m, s).buf
           /\ KeepsRest(PackHeader(m, s).buf, m.buf)
<1> DEFINE n == Len(s)
           p == PackHeader(m, s)
           f == SubSeq(m.buf, 1, 4)
           e == SubSeq(m.buf, 4 + n + 1, Len(m.buf))
<1>1. m.buf \in Seq(T) /\ m.ind \in Nat /\ m.ind >= 24 /\ Len(m.buf) = m.ind /\ n \in Nat /\ n <= 20
      /\ m.capa \in Nat
  BY Sizes, LenProperties DEF Written
<1>2. \A i \in 1 .. Len(m.buf) : m.buf[i] \in T
  BY <1>1, ElementOfSeq
<1> HIDE DEF n
<1>3. f \in Seq(T) /\ Len(f) = 4
  <2>1. (\A i \in 1 .. 4 : m.buf[i] \in T) /\ 1 \in Int /\ 4 \in Int /\ 1 <= 4 /\ 4 - 1 + 1 = 4
    BY <1>1, <1>2
  <2> QED BY <2>1, SubSeqProperties
<1>4. e \in Seq(T) /\ Len(e) = m.ind - 4 - n /\ (\A i \in 1 .. m.ind - 4 - n : e[i] = m.buf[4 + n + i])
  <2>1. PICK j \in Int : j = 4 + n + 1
    BY <1>1
  <2>2. PICK k \in Int : k = Len(m.buf)
    BY <1>1
  <2>3. k - j + 1 >= 0 /\ k - j + 1 = m.ind - 4 - n /\ j >= 1
    BY <1>1, <2>1, <2>2
  <2>5. \A i \in j .. k : m.buf[i] \in T
    <3>1. \A i \in j .. k : i \in 1 .. k
      BY <2>3
    <3> QED BY <1>2, <2>2, <3>1
  <2>4. SubSeq(m.buf, j, k) \in Seq(T) /\ Len(SubSeq(m.buf, j, k)) = k - j + 1
    BY <2>3, <2>5, SubSeqProperties
  <2>6. \A i \in 1 .. k - j + 1 : SubSeq(m.buf, j, k)[i] = m.buf[j + i - 1]
    BY <2>5, SubSeqProperties
  <2>7. \A i \in 1 .. k - j + 1 : j + i - 1 = 4 + n + i
    BY <1>1, <2>1
  <2> QED BY <2>1, <2>2, <2>3, <2>4, <2>6, <2>7
<1> DEFINE c == IF 4 + n > m.capa THEN 2 * m.capa ELSE m.capa
<1>5. p = [buf |-> (f \o s) \o e, capa |-> c, ind |-> m.ind]
  <2> DEFINE m4 == [m EXCEPT !.ind = SizeOfInt]
  <2>1. m4.buf = m.buf /\ m4.capa = m.capa /\ m4.ind = 4
    BY Sizes DEF Written
  <2> HIDE DEF m4
  <2>2. rawbyte(m4, s) = [buf |-> (f \o s) \o e, capa |-> c, ind |-> 4 + n]
    BY <2>1 DEF rawbyte, Full, n
  <2>3. p = [rawbyte(m4, s) EXCEPT !.ind = m.ind]
    BY DEF PackHeader, m4
  <2> HIDE DEF p, f, e, c
  <2>4. p = [[buf |-> (f \o s) \o e, capa |-> c, ind |-> 4 + n] EXCEPT !.ind = m.ind]
    BY <2>2, <2>3
  <2> QED BY <2>4, IndRestored, Zenon
<1> HIDE DEF f, e, p
<1>6. f \o s \in Seq(T) /\ Len(f \o s) = 4 + n /\ \A i \in 1 .. 4 + n : (f \o s)[i] = IF i <= 4 THEN f[i] ELSE s[i - 4]
  <2>1. /\ f \o s \in Seq(T) /\ Len(f \o s) = Len(f) + Len(s)
        /\ \A i \in 1 .. Len(f) + Len(s) : (f \o s)[i] = IF i <= Len(f) THEN f[i] ELSE s[i - Len(f)]
    BY <1>3, ConcatProperties
  <2> QED BY <1>3, <2>1 DEF n
<1>7. /\ p.buf \in Seq(T) /\ Len(p.buf) = (4 + n) + (m.ind - 4 - n)
      /\ \A i \in 1 .. (4 + n) + (m.ind - 4 - n) : p.buf[i] = IF i <= 4 + n THEN (f \o s)[i] ELSE e[i - (4 + n)]
  <2> DEFINE g == f \o s
  <2>1. g \in Seq(T) /\ Len(g) = 4 + n /\ p.buf = g \o e
    BY <1>5, <1>6
  <2> HIDE DEF g
  <2>2. /\ g \o e \in Seq(T) /\ Len(g \o e) = Len(g) + Len(e)
        /\ \A i \in 1 .. Len(g) + Len(e) : (g \o e)[i] = IF i <= Len(g) THEN g[i] ELSE e[i - Len(g)]
    BY <1>4, <2>1, ConcatProperties
  <2> QED BY <1>4, <2>1, <2>2 DEF g
<1>8. Len(p.buf) = p.ind
  BY <1>1, <1>5, <1>7
<1>9. ASSUME NEW i \in 1 .. n PROVE p.buf[4 + i] = s[i]
  <2>1. /\ 4 + i \in 1 .. (4 + n) + (m.ind - 4 - n) /\ 4 + i <= 4 + n /\ 4 + i \in 1 .. 4 + n
        /\ ~(4 + i <= 4) /\ (4 + i) - 4 = i
    BY <1>1
  <2> QED BY <1>6, <1>7, <2>1
<1>10. Written(p, T)
  <2>1. c \in Nat
    BY <1>1
  <2>2. p \in [buf : Seq(T), capa : Nat, ind : Nat]
    <3>1. (f \o s) \o e \in Seq(T)
      BY <1>5, <1>7
    <3> HIDE DEF c
    <3> QED BY <1>1, <1>5, <2>1, <3>1
  <2> QED BY <1>1, <1>5, <1>8, <2>2, Sizes DEF Written
<1>11. Fits(m) => Fits(p)
  BY <1>1, <1>5, Sizes DEF Fits
<1>12. take_buf(p) = p.buf
  BY <1>7, <1>8, SubSeqFull DEF take_buf
<1>13. ASSUME NEW i \in 25 .. Len(m.buf) PROVE p.buf[i] = m.buf[i]
  <2>1. /\ i \in 1 .. (4 + n) + (m.ind - 4 - n) /\ ~(i <= 4 + n) /\ i - (4 + n) \in 1 .. m.ind - 4 - n
        /\ 4 + n + (i - (4 + n)) = i
    BY <1>1
  <2> QED BY <1>4, <1>7, <2>1
<1>14. Len(p.buf) = Len(m.buf)
  BY <1>1, <1>7
<1> QED BY <1>9, <1>10, <1>11, <1>12, <1>13, <1>14 DEF p, n, KeepsRest

(* The bytes of w from q on are those of x.                                *)
Holds(w, q, x) == \A k \in 1 .. 4 : w[q + k] = BigEndian(x, 4)[k]

At(w, q) == [buf |-> w, ind |-> q, ok |-> TRUE]

LEMMA FirstInt ==
    ASSUME NEW T, 0 .. Byte - 1 \subseteq T, NEW x \in Int
    PROVE  BigEndian(x, 4) \in Seq(T) /\ Len(BigEndian(x, 4)) = 4 /\ Holds(BigEndian(x, 4), 0, x)
<1>1. \A k \in 0 .. 4 - 1 : k \in 0 .. 8
  OBVIOUS
<1>2. \A k \in 0 .. 4 - 1 : ByteOf(x, k) \in T
  BY <1>1, ByteIsByte
<1>3. 4 \in Nat
  OBVIOUS
<1>4. BigEndian(x, 4) \in Seq(T) /\ Len(BigEndian(x, 4)) = 4
  BY <1>2, <1>3, BigEndianSeq
<1>5. \A k \in 1 .. 4 : 0 + k = k
  OBVIOUS
<1> QED BY <1>4, <1>5 DEF Holds

(* One more integer.                                                       *)
LEMMA HeaderInt ==
    ASSUME NEW T, 0 .. Byte - 1 \subseteq T, NEW s \in Seq(T), NEW q \in Nat, Len(s) = q, NEW x \in Int
    PROVE  /\ s \o BigEndian(x, SizeOfInt) \in Seq(T) /\ Len(s \o BigEndian(x, SizeOfInt)) = q + 4
           /\ Holds(s \o BigEndian(x, SizeOfInt), q, x)
           /\ \A j \in Nat : \A y : Holds(s, j, y) /\ j + 4 <= q => Holds(s \o BigEndian(x, SizeOfInt), j, y)
<1>4. BigEndian(x, 4) \in Seq(T) /\ Len(BigEndian(x, 4)) = 4
  BY FirstInt
<1>5. PICK e \in Seq(T) : e = BigEndian(x, 4) /\ Len(e) = 4
  BY <1>4
<1>6. /\ s \o e \in Seq(T) /\ Len(s \o e) = q + 4
      /\ \A i \in 1 .. q + 4 : (s \o e)[i] = IF i <= q THEN s[i] ELSE e[i - q]
  <2>1. /\ s \o e \in Seq(T) /\ Len(s \o e) = Len(s) + Len(e)
        /\ \A i \in 1 .. Len(s) + Len(e) : (s \o e)[i] = IF i <= Len(s) THEN s[i] ELSE e[i - Len(s)]
    BY ConcatProperties
  <2> QED BY <1>5, <2>1
<1>7. Holds(s \o e, q, x)
  <2> SUFFICES ASSUME NEW k \in 1 .. 4 PROVE (s \o e)[q + k] = e[k]
    BY <1>5 DEF Holds
  <2>1. q + k \in 1 .. q + 4 /\ ~(q + k <= q) /\ (q + k) - q = k
    OBVIOUS
  <2> QED BY <1>6, <2>1
<1>8. ASSUME NEW j \in Nat, NEW y, Holds(s, j, y), j + 4 <= q PROVE Holds(s \o e, j, y)
  <2> SUFFICES ASSUME NEW k \in 1 .. 4 PROVE (s \o e)[j + k] = s[j + k]
    BY <1>8 DEF Holds
  <2>1. j + k \in 1 .. q + 4 /\ j + k <= q
    BY <1>8
  <2> QED BY <1>6, <2>1
<1>9. e = BigEndian(x, SizeOfInt)
  BY <1>5, Sizes
<1> QED BY <1>6, <1>7, <1>8, <1>9

(* Integers packed in front are found behind the size of the PDU.          *)
LEMMA PackHolds ==
    ASSUME NEW T, NEW m, Written(m, T), NEW s \in Seq(T), Len(s) <= 20,
           NEW j \in Nat, NEW x, Holds(s, j, x), j + 4 <= Len(s)
    PROVE  Holds(PackHeader(m, s).buf, 4 + j, x)
<1>1. PICK n \in Nat : n = Len(s)
  BY LenProperties
<1>2. \A i \in 1 .. n : PackHeader(m, s).buf[4 + i] = s[i]
  BY <1>1, PackWrites
<1> SUFFICES ASSUME NEW k \in 1 .. 4 PROVE PackHeader(m, s).buf[4 + j + k] = s[j + k]
  BY DEF Holds
<1>3. j + k \in 1 .. n /\ 4 + j + k = 4 + (j + k)
  BY <1>1
<1> QED BY <1>2, <1>3

(* An integer that was written is read.                                    *)
LEMMA ReadsBack ==
    ASSUME NEW T, NEW w \in Seq(T), NEW q \in Nat, q + 4 <= Len(w), NEW x, Holds(w, q, x)
    PROVE  /\ x \in Int32 => get(At(w, q), "int") = [val |-> <<x>>, u |-> At(w, q + 4)]
           /\ x \in Uint32 => get(At(w, q), "uint") = [val |-> <<x>>, u |-> At(w, q + 4)]
<1>1. /\ x \in Int32 => x \in Int /\ AsSigned(x % Power[4], 4) = x
      /\ x \in Uint32 => x \in Int /\ x % Power[4] = x
  BY IntsReturn
<1>2. \A k \in 1 .. 4 : w[q + k] = BigEndian(x, 4)[k]
  BY DEF Holds
<1>3. ASSUME x \in Int
      PROVE  /\ get(At(w, q), "int") = [val |-> <<AsSigned(x % Power[4], 4)>>, u |-> At(w, q + 4)]
             /\ get(At(w, q), "uint") = [val |-> <<x % Power[4]>>, u |-> At(w, q + 4)]
  <2>1. ASSUME NEW ok
        PROVE  /\ get([buf |-> w, ind |-> q, ok |-> ok], "int")
                  = [val |-> <<AsSigned(x % Power[4], 4)>>, u |-> [buf |-> w, ind |-> q + 4, ok |-> ok]]
               /\ get([buf |-> w, ind |-> q, ok |-> ok], "uint")
                  = [val |-> <<x % Power[4]>>, u |-> [buf |-> w, ind |-> q + 4, ok |-> ok]]
    BY <1>2, <1>3, ReadInt
  <2> QED BY <2>1, Zenon DEF At
<1> QED BY <1>1, <1>3

LEMMA IndSet ==
    ASSUME NEW w, NEW q, NEW r
    PROVE  [At(w, q) EXCEPT !.ind = r] = At(w, r)
<1>1. ASSUME NEW ok
      PROVE  [[buf |-> w, ind |-> q, ok |-> ok] EXCEPT !.ind = r] = [buf |-> w, ind |-> r, ok |-> ok]
  OBVIOUS
<1> QED BY <1>1, Zenon DEF At

(* The header of a reply reaches the other end.                            *)
LEMMA ReplyHeaderArrives ==
    ASSUME NEW T, 0 .. Byte - 1 \subseteq T, NEW m, Written(m, T), NEW xid \in Int32, NEW ret \in Int32
    PROVE  LET rep == pack_reply_header(m, [xid |-> xid, ret |-> ret])
           IN  /\ unpack_reply_header(unmarshall(take_buf(rep))).h = [xid |-> xid, ret |-> ret]
               /\ Written(rep, T) /\ (Fits(m) => Fits(rep))
               /\ take_buf(rep) = rep.buf /\ KeepsRest(rep.buf, m.buf)
<1> DEFINE rep == pack_reply_header(m, [xid |-> xid, ret |-> ret])
           s1 == BigEndian(xid, SizeOfInt)
           s2 == s1 \o BigEndian(ret, SizeOfInt)
           w == rep.buf
<1>1. xid \in Int /\ ret \in Int
  BY IntsReturn
<1>2. rep = PackHeader(m, s2)
  BY DEF pack_reply_header
<1> HIDE DEF rep
<1>3. s1 \in Seq(T) /\ Len(s1) = 4 /\ Holds(s1, 0, xid)
  BY <1>1, FirstInt, Sizes
<1> HIDE DEF s1
<1>4. s2 \in Seq(T) /\ Len(s2) = 8 /\ Holds(s2, 0, xid) /\ Holds(s2, 4, ret)
  <2>1. /\ s2 \in Seq(T) /\ Len(s2) = 4 + 4 /\ Holds(s2, 4, ret)
        /\ \A j \in Nat : \A y : Holds(s1, j, y) /\ j + 4 <= 4 => Holds(s2, j, y)
    <3>1. 4 \in Nat
      OBVIOUS
    <3> QED BY <1>1, <1>3, <3>1, HeaderInt
  <2> QED BY <1>3, <2>1
<1> HIDE DEF s2
<1>5. Written(rep, T) /\ (Fits(m) => Fits(rep)) /\ take_buf(rep) = w /\ KeepsRest(w, m.buf)
  <2>1. Len(s2) <= 20
    BY <1>4
  <2> QED BY <1>2, <1>4, <2>1, PackWrites
<1>6. w \in Seq(T) /\ Len(w) \in Nat /\ Len(w) >= 24
  BY <1>5, Sizes DEF Written
<1>7. Holds(w, 4, xid) /\ Holds(w, 8, ret)
  <2>1. ASSUME NEW j \in Nat, NEW x, Holds(s2, j, x), j <= 4 PROVE Holds(w, 4 + j, x)
    <3>1. Len(s2) <= 20 /\ j + 4 <= Len(s2)
      BY <1>4, <2>1
    <3> QED BY <1>2, <1>4, <2>1, <3>1, PackHolds
  <2>2. 0 \in Nat /\ 4 \in Nat /\ 0 <= 4 /\ 4 <= 4 /\ 4 + 0 = 4 /\ 4 + 4 = 8
    OBVIOUS
  <2> QED BY <1>4, <2>1, <2>2
<1> HIDE DEF w
<1>8. ASSUME NEW q \in Nat, q + 4 <= 24, NEW x \in Int32, Holds(w, q, x)
      PROVE  get(At(w, q), "int") = [val |-> <<x>>, u |-> At(w, q + 4)]
  <2>1. q + 4 <= Len(w)
    BY <1>6, <1>8
  <2> QED BY <1>6, <1>8, <2>1, ReadsBack
<1>9. /\ get(At(w, 4), "int") = [val |-> <<xid>>, u |-> At(w, 8)]
      /\ get(At(w, 8), "int") = [val |-> <<ret>>, u |-> At(w, 12)]
  <2>1. 4 \in Nat /\ 4 + 4 <= 24 /\ 4 + 4 = 8 /\ 8 \in Nat /\ 8 + 4 <= 24 /\ 8 + 4 = 12
    OBVIOUS
  <2> QED BY <1>7, <1>8, <2>1
<1>10. [unmarshall(take_buf(rep)) EXCEPT !.ind = SizeOfInt] = At(w, 4)
  <2>1. unmarshall(take_buf(rep)) = At(w, 0)
    BY <1>5 DEF unmarshall, At
  <2> QED BY <2>1, IndSet, Sizes
<1>11. unpack_reply_header(unmarshall(take_buf(rep))).h = [xid |-> xid, ret |-> ret]
  BY <1>9, <1>10 DEF unpack_reply_header
<1> QED BY <1>5, <1>11 DEF rep, w

(* The header of a request reaches the other end, and its arguments are    *)
(* what is left.                                                           *)
LEMMA RequestHeaderArrives ==
    ASSUME NEW T, 0 .. Byte - 1 \subseteq T, NEW m, Written(m, T),
           NEW hd \in [xid : Int32, proc : Int32, clt_nonce : Uint32, srv_nonce : Uint32, xid_rep : Int32]
    PROVE  LET rq == pack_req_header(m, hd)
           IN  /\ unpack_req_header(unmarshall(take_buf(rq))).h = hd
               /\ unpack_req_header(unmarshall(take_buf(rq))).u = At(rq.buf, 24)
               /\ Written(rq, T) /\ (Fits(m) => Fits(rq)) /\ KeepsRest(rq.buf, m.buf)
<1> DEFINE rq == pack_req_header(m, hd)
           s1 == BigEndian(hd.xid, SizeOfInt)
           s2 == s1 \o BigEndian(hd.proc, SizeOfInt)
           s3 == s2 \o BigEndian(hd.clt_nonce, SizeOfInt)
           s4 == s3 \o BigEndian(hd.srv_nonce, SizeOfInt)
           s5 == s4 \o BigEndian(hd.xid_rep, SizeOfInt)
           w == rq.buf
           More(a, q, b, x) == /\ b \in Seq(T) /\ Len(b) = q + 4 /\ Holds(b, q, x)
                               /\ \A j \in Nat : \A y : Holds(a, j, y) /\ j + 4 <= q => Holds(b, j, y)
<1>0. /\ hd.xid \in Int32 /\ hd.proc \in Int32 /\ hd.clt_nonce \in Uint32 /\ hd.srv_nonce \in Uint32
      /\ hd.xid_rep \in Int32
  OBVIOUS
<1>1. /\ hd.xid \in Int /\ hd.proc \in Int /\ hd.clt_nonce \in Int /\ hd.srv_nonce \in Int
      /\ hd.xid_rep \in Int
  BY <1>0, IntsReturn
<1>2. rq = PackHeader(m, s5)
  BY DEF pack_req_header
<1> HIDE DEF rq
<1>3. s1 \in Seq(T) /\ Len(s1) = 4 /\ Holds(s1, 0, hd.xid)
  BY <1>1, FirstInt, Sizes
<1> HIDE DEF s1
<1>4. ASSUME NEW s \in Seq(T), NEW q \in Nat, Len(s) = q, NEW x \in Int
      PROVE  More(s, q, s \o BigEndian(x, SizeOfInt), x)
  BY <1>4, HeaderInt
<1>5. 4 \in Nat /\ 8 \in Nat /\ 12 \in Nat /\ 16 \in Nat /\ 4 + 4 = 8 /\ 8 + 4 = 12 /\ 12 + 4 = 16 /\ 16 + 4 = 20
  OBVIOUS
<1> HIDE DEF More
<1>6. More(s1, 4, s2, hd.proc)
  BY <1>1, <1>3, <1>4, <1>5
<1> HIDE DEF s2
<1>7. s2 \in Seq(T) /\ Len(s2) = 8
  BY <1>5, <1>6 DEF More
<1>8. More(s2, 8, s3, hd.clt_nonce)
  BY <1>1, <1>4, <1>5, <1>7
<1> HIDE DEF s3
<1>9. s3 \in Seq(T) /\ Len(s3) = 12
  BY <1>5, <1>8 DEF More
<1>10. More(s3, 12, s4, hd.srv_nonce)
  BY <1>1, <1>4, <1>5, <1>9
<1> HIDE DEF s4
<1>11. s4 \in Seq(T) /\ Len(s4) = 16
  BY <1>5, <1>10 DEF More
<1>12. More(s4, 16, s5, hd.xid_rep)
  BY <1>1, <1>4, <1>5, <1>11
<1> HIDE DEF s5
<1>13. s5 \in Seq(T) /\ Len(s5) = 20
  BY <1>5, <1>12 DEF More
<1>14. /\ Holds(s5, 0, hd.xid) /\ Holds(s5, 4, hd.proc) /\ Holds(s5, 8, hd.clt_nonce)
       /\ Holds(s5, 12, hd.srv_nonce) /\ Holds(s5, 16, hd.xid_rep)
  <2>1. Holds(s2, 0, hd.xid) /\ Holds(s2, 4, hd.proc)
    BY <1>3, <1>6 DEF More
  <2>2. Holds(s3, 0, hd.xid) /\ Holds(s3, 4, hd.proc) /\ Holds(s3, 8, hd.clt_nonce)
    BY <1>8, <2>1 DEF More
  <2>3. /\ Holds(s4, 0, hd.xid) /\ Holds(s4, 4, hd.proc) /\ Holds(s4, 8, hd.clt_nonce)
        /\ Holds(s4, 12, hd.srv_nonce)
    BY <1>10, <2>2 DEF More
  <2> QED BY <1>12, <2>3 DEF More
<1>15. Written(rq, T) /\ (Fits(m) => Fits(rq)) /\ take_buf(rq) = w /\ KeepsRest(w, m.buf)
  <2>1. Len(s5) <= 20
    BY <1>13
  <2>2. /\ Written(PackHeader(m, s5), T) /\ (Fits(m) => Fits(PackHeader(m, s5)))
        /\ take_buf(PackHeader(m, s5)) = PackHeader(m, s5).buf
        /\ KeepsRest(PackHeader(m, s5).buf, m.buf)
    <3>1. ASSUME NEW s \in Seq(T), Len(s) <= 20
          PROVE  /\ Written(PackHeader(m, s), T) /\ (Fits(m) => Fits(PackHeader(m, s)))
                 /\ take_buf(PackHeader(m, s)) = PackHeader(m, s).buf
                 /\ KeepsRest(PackHeader(m, s).buf, m.buf)
      BY <3>1, PackWrites
    <3> QED BY <1>13, <2>1, <3>1
  <2> QED BY <1>2, <2>2
<1>16. w \in Seq(T) /\ Len(w) \in Nat /\ Len(w) >= 24
  BY <1>15, Sizes DEF Written
<1>17. /\ Holds(w, 4, hd.xid) /\ Holds(w, 8, hd.proc) /\ Holds(w, 12, hd.clt_nonce)
       /\ Holds(w, 16, hd.srv_nonce) /\ Holds(w, 20, hd.xid_rep)
  <2>1. ASSUME NEW j \in Nat, NEW x, Holds(s5, j, x), j <= 16 PROVE Holds(w, 4 + j, x)
    <3>1. Len(s5) <= 20 /\ j + 4 <= Len(s5)
      BY <1>13, <2>1
    <3> QED BY <1>2, <1>13, <2>1, <3>1, PackHolds
  <2>2. Holds(w, 4 + 0, hd.xid) /\ Holds(w, 4 + 4, hd.proc) /\ Holds(w, 4 + 8, hd.clt_nonce)
    BY <1>14, <2>1
  <2>3. Holds(w, 4 + 12, hd.srv_nonce) /\ Holds(w, 4 + 16, hd.xid_rep)
    BY <1>14, <2>1
  <2> QED BY <2>2, <2>3
<1> HIDE DEF w
<1>18. ASSUME NEW q \in Nat, q + 4 <= 24, NEW x, Holds(w, q, x)
       PROVE  /\ x \in Int32 => get(At(w, q), "int") = [val |-> <<x>>, u |-> At(w, q + 4)]
              /\ x \in Uint32 => get(At(w, q), "uint") = [val |-> <<x>>, u |-> At(w, q + 4)]
  <2>1. q + 4 <= Len(w)
    BY <1>16, <1>18
  <2> QED BY <1>16, <1>18, <2>1, ReadsBack
<1>19. /\ get(At(w, 4), "int") = [val |-> <<hd.xid>>, u |-> At(w, 8)]
       /\ get(At(w, 8), "int") = [val |-> <<hd.proc>>, u |-> At(w, 12)]
       /\ get(At(w, 12), "uint") = [val |-> <<hd.clt_nonce>>, u |-> At(w, 16)]
       /\ get(At(w, 16), "uint") = [val |-> <<hd.srv_nonce>>, u |-> At(w, 20)]
       /\ get(At(w, 20), "int") = [val |-> <<hd.xid_rep>>, u |-> At(w, 24)]
  <2>1. /\ 4 + 4 <= 24 /\ 8 + 4 <= 24 /\ 12 + 4 <= 24 /\ 16 + 4 <= 24
        /\ 20 \in Nat /\ 20 + 4 <= 24 /\ 20 + 4 = 24
    OBVIOUS
  <2>2. get(At(w, 4), "int") = [val |-> <<hd.xid>>, u |-> At(w, 8)]
    BY <1>0, <1>5, <1>17, <1>18, <2>1
  <2>3. get(At(w, 8), "int") = [val |-> <<hd.proc>>, u |-> At(w, 12)]
    BY <1>0, <1>5, <1>17, <1>18, <2>1
  <2>4. get(At(w, 12), "uint") = [val |-> <<hd.clt_nonce>>, u |-> At(w, 16)]
    BY <1>0, <1>5, <1>17, <1>18, <2>1
  <2>5. get(At(w, 16), "uint") = [val |-> <<hd.srv_nonce>>, u |-> At(w, 20)]
    BY <1>0, <1>5, <1>17, <1>18, <2>1
  <2>6. get(At(w, 20), "int") = [val |-> <<hd.xid_rep>>, u |-> At(w, 24)]
    BY <1>0, <1>17, <1>18, <2>1
  <2> QED BY <2>2, <2>3, <2>4, <2>5, <2>6
<1>20. [unmarshall(take_buf(rq)) EXCEPT !.ind = SizeOfInt] = At(w, 4)
  <2>1. unmarshall(take_buf(rq)) = At(w, 0)
    BY <1>15 DEF unmarshall, At
  <2> QED BY <2>1, IndSet, Sizes
<1>21. unpack_req_header(unmarshall(take_buf(rq))).h = hd
  BY <1>19, <1>20 DEF unpack_req_header
<1>22. unpack_req_header(unmarshall(take_buf(rq))).u = At(w, 24)
  <2>1. [At(w, 24) EXCEPT !.ind = RPC_HEADER_SZ] = At(w, 24)
    BY IndSet, Sizes
  <2> QED BY <1>19, <1>20, <2>1 DEF unpack_req_header
<1> QED BY <1>15, <1>21, <1>22 DEF rq, w
-----------------------------------------------------------------------------
(* What a handler can be given, whatever the bytes of the request are.     *)

Bytes0 == 0 .. Junk

(* An unmarshall object.                                                   *)
Reader == [buf : Seq(Bytes0), ind : Nat, ok : BOOLEAN]

LEMMA BytesAreNumbers == Byte \in Nat \ {0} /\ 0 .. Byte - 1 \subseteq Bytes0 /\ Junk \in Bytes0 /\ Bytes0 \subseteq Nat
  BY ByteAssumption DEF Bytes0, Junk

LEMMA GetsNumber ==
    ASSUME NEW u \in Reader
    PROVE  GetBytes(u, 4).val \in Nat /\ GetBytes(u, 4).u \in Reader /\ GetBytes(u, 4).u.buf = u.buf
<1>1. u.buf \in Seq(Bytes0) /\ u.ind \in Nat /\ Len(u.buf) \in Nat /\ u.ok \in BOOLEAN
  BY LenProperties DEF Reader
<1>2. ASSUME NEW i \in 1 .. 4 PROVE ByteAt(u, i) \in Nat
  <2>1. i <= Len(u.buf) - u.ind => u.ind + i \in 1 .. Len(u.buf)
    BY <1>1
  <2>2. i <= Len(u.buf) - u.ind => u.buf[u.ind + i] \in Bytes0
    BY <1>1, <2>1, ElementOfSeq
  <2> QED BY <2>2, BytesAreNumbers DEF ByteAt
<1>3. GetBytes(u, 4).val \in Nat
  <2>1. GetBytes(u, 4).val = Spell(ByteAt(u, 1), ByteAt(u, 2), ByteAt(u, 3), ByteAt(u, 4))
    BY <1>2, GetFour
  <2>2. /\ ByteAt(u, 1) \in Nat /\ ByteAt(u, 2) \in Nat /\ ByteAt(u, 3) \in Nat /\ ByteAt(u, 4) \in Nat
    BY <1>2
  <2>3. \A a, b \in Nat : a * Byte + b \in Nat
    BY BytesAreNumbers
  <2> QED BY <2>1, <2>2, <2>3 DEF Spell
<1>4. \/ GetBytes(u, 4).u = [u EXCEPT !.ind = @ + 4]
      \/ GetBytes(u, 4).u = [u EXCEPT !.ind = IF Len(u.buf) - u.ind > 0 THEN Len(u.buf) ELSE @, !.ok = FALSE]
  BY DEF GetBytes
<1>5. [u EXCEPT !.ind = @ + 4] \in Reader /\ [u EXCEPT !.ind = @ + 4].buf = u.buf
  BY <1>1 DEF Reader
<1>6. ASSUME NEW i \in Nat
      PROVE  [u EXCEPT !.ind = i, !.ok = FALSE] \in Reader /\ [u EXCEPT !.ind = i, !.ok = FALSE].buf = u.buf
  BY <1>1 DEF Reader
<1> QED BY <1>1, <1>3, <1>4, <1>5, <1>6

LEMMA GetsString ==
    ASSUME NEW u \in Reader, NEW n \in Nat
    PROVE  /\ GetString(u, n).val \in Seq(Bytes0)
           /\ GetString(u, n).u \in Reader /\ GetString(u, n).u.buf = u.buf
<1> DEFINE end == (u.ind + n) % Power[SizeOfInt]
           at(i) == IF i <= Len(u.buf) THEN u.buf[i] ELSE Junk
           s == [i \in 1 .. n |-> at(u.ind + i)]
<1>1. u.buf \in Seq(Bytes0) /\ u.ind \in Nat /\ Len(u.buf) \in Nat /\ u.ok \in BOOLEAN
  BY LenProperties DEF Reader
<1>2. end \in Nat
  <2>1. PICK p \in Nat \ {0} : p = Power[SizeOfInt]
    BY Powers, Sizes
  <2>2. u.ind + n \in Int
    BY <1>1
  <2>3. (u.ind + n) % p \in 0 .. p - 1
    BY <2>2, DivMod
  <2> QED BY <2>1, <2>3
<1>3. s \in Seq(Bytes0)
  <2>1. ASSUME NEW i \in 1 .. n PROVE at(u.ind + i) \in Bytes0
    <3>1. u.ind + i <= Len(u.buf) => u.ind + i \in 1 .. Len(u.buf)
      BY <1>1
    <3>2. u.ind + i <= Len(u.buf) => u.buf[u.ind + i] \in Bytes0
      BY <1>1, <3>1, ElementOfSeq
    <3> QED BY <3>2, BytesAreNumbers
  <2>2. s \in [1 .. n -> Bytes0]
    <3> HIDE DEF at
    <3> QED BY <2>1
  <2> HIDE DEF s
  <2> QED BY <2>2, SeqDef
<1>4. <<>> \in Seq(Bytes0)
  OBVIOUS
<1>5. \/ GetString(u, n) = [val |-> <<>>, u |-> [u EXCEPT !.ok = FALSE]]
      \/ GetString(u, n) = [val |-> s, u |-> [u EXCEPT !.ind = end]]
  BY DEF GetString
<1>6. [u EXCEPT !.ok = FALSE] \in Reader /\ [u EXCEPT !.ok = FALSE].buf = u.buf
  BY <1>1 DEF Reader
<1> HIDE DEF s, end
<1>7. [u EXCEPT !.ind = end] \in Reader /\ [u EXCEPT !.ind = end].buf = u.buf
  BY <1>1, <1>2 DEF Reader
<1>8. ASSUME NEW v, NEW w, GetString(u, n) = [val |-> v, u |-> w], v \in Seq(Bytes0), w \in Reader, w.buf = u.buf
      PROVE  /\ GetString(u, n).val \in Seq(Bytes0)
             /\ GetString(u, n).u \in Reader /\ GetString(u, n).u.buf = u.buf
  BY <1>8
<1> QED BY <1>3, <1>4, <1>5, <1>6, <1>7, <1>8, Zenon

(* What >> leaves, and what it returns for a string and for an int.        *)
LEMMA GetsValue ==
    ASSUME NEW u \in Reader
    PROVE  /\ get(u, "string").val \in Seq(Bytes0) /\ get(u, "string").u \in Reader
           /\ get(u, "int").val \in Seq(Int) /\ get(u, "int").val[1] \in Int /\ get(u, "int").u \in Reader
<1> DEFINE g == GetBytes(u, 4)
<1>1. g.val \in Nat /\ g.u \in Reader
  BY GetsNumber
<1>2. Width["int"] = 4 /\ "int" \in SignedTypes
  BY DEF Width, SignedTypes
<1>3. get(u, "string") = IF g.u.ok THEN GetString(g.u, g.val) ELSE [val |-> <<>>, u |-> g.u]
  BY Sizes DEF get
<1>4. get(u, "int") = [val |-> <<AsSigned(g.val, 4)>>, u |-> g.u]
  BY <1>2 DEF get
<1> HIDE DEF g
<1>5. AsSigned(g.val, 4) \in Int
  BY <1>1, Powers DEF AsSigned
<1>6. /\ GetString(g.u, g.val).val \in Seq(Bytes0) /\ GetString(g.u, g.val).u \in Reader
  BY <1>1, GetsString
<1>7. <<>> \in Seq(Bytes0)
  OBVIOUS
<1>8. get(u, "string").val \in Seq(Bytes0) /\ get(u, "string").u \in Reader
  <2>1. get(u, "string") = GetString(g.u, g.val) \/ get(u, "string") = [val |-> <<>>, u |-> g.u]
    BY <1>3
  <2>2. ASSUME NEW w \in Reader PROVE [val |-> <<>>, u |-> w].val = <<>> /\ [val |-> <<>>, u |-> w].u = w
    OBVIOUS
  <2> QED BY <1>1, <1>6, <1>7, <2>1, <2>2, Zenon
<1>9. get(u, "int").val \in Seq(Int) /\ get(u, "int").val[1] \in Int /\ get(u, "int").u \in Reader
  <2>1. ASSUME NEW x \in Int, NEW w \in Reader
        PROVE  /\ [val |-> <<x>>, u |-> w].val \in Seq(Int) /\ [val |-> <<x>>, u |-> w].val[1] \in Int
               /\ [val |-> <<x>>, u |-> w].u \in Reader
    OBVIOUS
  <2> QED BY <1>1, <1>4, <1>5, <2>1, Zenon
<1> QED BY <1>8, <1>9

(* GetArgs for one and for two arguments.                                  *)
LEMMA OneArg ==
    ASSUME NEW u, NEW t
    PROVE  GetArgs(u, <<t>>).vals = <<get(u, t).val>> /\ GetArgs(u, <<t>>).u = get(u, t).u
<1> DEFINE F(f) == [i \in 0 .. 1 |-> IF i = 0 THEN [vals |-> <<>>, u |-> u]
                                     ELSE [vals |-> Append(f[i - 1].vals, get(f[i - 1].u, <<t>>[i]).val),
                                           u |-> get(f[i - 1].u, <<t>>[i]).u]]
           v0 == [vals |-> <<>>, u |-> u]
           v1 == [vals |-> Append(v0.vals, get(v0.u, t).val), u |-> get(v0.u, t).u]
           g == [i \in 0 .. 1 |-> IF i = 0 THEN v0 ELSE v1]
           args == CHOOSE f : f = F(f)
<1>0. GetArgs(u, <<t>>) = args[1]
  <2>1. Len(<<t>>) = 1
    OBVIOUS
  <2> QED BY <2>1 DEF GetArgs
<1>1. g = F(g)
  <2>1. g[0] = v0 /\ g[1] = v1
    OBVIOUS
  <2>2. \A i \in 0 .. 1 : i = 0 \/ i = 1
    OBVIOUS
  <2>3. F(g)[0] = v0 /\ F(g)[1] = v1
    <3> HIDE DEF g
    <3> QED BY <2>1
  <2>4. \A i \in 0 .. 1 : g[i] = F(g)[i]
    BY <2>1, <2>2, <2>3
  <2> HIDE DEF v0, v1
  <2> QED BY <2>4
<1>2. args = F(args)
  <2> HIDE DEF g, F
  <2> QED BY <1>1
<1>3. args[1] = v1
  <2> HIDE DEF args
  <2>1. args[0] = v0
    BY <1>2
  <2> QED BY <1>2, <2>1
<1> QED BY <1>0, <1>3

LEMMA TwoArgs ==
    ASSUME NEW u, NEW t, NEW r
    PROVE  /\ GetArgs(u, <<t, r>>).vals[1] = get(u, t).val
           /\ GetArgs(u, <<t, r>>).vals[2] = get(get(u, t).u, r).val
           /\ GetArgs(u, <<t, r>>).vals = <<get(u, t).val, get(get(u, t).u, r).val>>
           /\ GetArgs(u, <<t, r>>).u = get(get(u, t).u, r).u
<1> DEFINE More(x, z) == [vals |-> Append(x.vals, get(x.u, z).val), u |-> get(x.u, z).u]
           v0 == [vals |-> <<>>, u |-> u]
           v1 == More(v0, t)
           v2 == More(v1, r)
           F(f) == [i \in 0 .. 2 |-> IF i = 0 THEN v0 ELSE More(f[i - 1], <<t, r>>[i])]
           g == [i \in 0 .. 2 |-> IF i = 0 THEN v0 ELSE IF i = 1 THEN v1 ELSE v2]
           args == CHOOSE f : f = F(f)
<1>0. GetArgs(u, <<t, r>>) = args[2]
  <2>1. Len(<<t, r>>) = 2
    OBVIOUS
  <2> QED BY <2>1 DEF GetArgs
<1>1. <<t, r>>[1] = t /\ <<t, r>>[2] = r /\ 1 - 1 = 0 /\ 2 - 1 = 1
  OBVIOUS
<1>2. /\ v2.vals[1] = get(u, t).val /\ v2.vals[2] = get(get(u, t).u, r).val
      /\ v2.vals = <<get(u, t).val, get(get(u, t).u, r).val>>
      /\ v2.u = get(get(u, t).u, r).u
  <2>1. v1.vals = <<get(u, t).val>> /\ v1.u = get(u, t).u
    OBVIOUS
  <2> HIDE DEF v1
  <2>2. v2.vals = Append(v1.vals, get(v1.u, r).val)
    OBVIOUS
  <2>4. v2.u = get(v1.u, r).u
    OBVIOUS
  <2>3. ASSUME NEW x, NEW y
        PROVE  /\ Append(<<x>>, y)[1] = x /\ Append(<<x>>, y)[2] = y
               /\ Append(<<x>>, y) = <<x, y>>
    <3>1. <<x>> \in Seq({x, y}) /\ Len(<<x>>) = 1 /\ <<x>>[1] = x /\ y \in {x, y}
      OBVIOUS
    <3>2. Append(<<x>>, y)[1] = x /\ Append(<<x>>, y)[2] = y
      BY <3>1, AppendProperties
    <3>3. Append(<<x>>, y) = <<x, y>>
      <4>1. Append(<<x>>, y) \in Seq({x, y}) /\ Len(Append(<<x>>, y)) = 2
        BY <3>1, AppendProperties
      <4>2. <<x, y>> \in Seq({x, y}) /\ Len(<<x, y>>) = 2 /\ <<x, y>>[1] = x /\ <<x, y>>[2] = y
        OBVIOUS
      <4>3. \A i \in 1 .. 2 : Append(<<x>>, y)[i] = <<x, y>>[i]
        <5>1. \A i \in 1 .. 2 : i = 1 \/ i = 2
          OBVIOUS
        <5> QED BY <3>2, <4>2, <5>1
      <4> QED BY <4>1, <4>2, <4>3, SeqEqual
    <3> QED BY <3>2, <3>3
  <2> HIDE DEF v2
  <2> QED BY <2>1, <2>2, <2>3, <2>4
<1> HIDE DEF More, v0
<1>3. ASSUME NEW f, f[0] = v0 PROVE F(f)[0] = v0 /\ F(f)[1] = v1
  BY <1>1, <1>3
<1>4. ASSUME NEW f, f[1] = v1 PROVE F(f)[2] = v2
  <2>1. F(f)[2] = More(f[2 - 1], <<t, r>>[2])
    OBVIOUS
  <2> QED BY <1>1, <1>4, <2>1
<1>5. g = F(g)
  <2> HIDE DEF v1, v2
  <2>1. g[0] = v0 /\ g[1] = v1 /\ g[2] = v2
    OBVIOUS
  <2>2. \A i \in 0 .. 2 : i = 0 \/ i = 1 \/ i = 2
    OBVIOUS
  <2>3. \A i \in 0 .. 2 : g[i] = F(g)[i]
    BY <1>3, <1>4, <2>1, <2>2
  <2> QED BY <2>3
<1>6. args = F(args)
  <2> HIDE DEF g, F
  <2> QED BY <1>5
<1>7. args[2] = v2
  <2> HIDE DEF args, v1, v2
  <2>1. args[0] = v0
    BY <1>6
  <2>2. args[1] = v1
    <3> HIDE DEF F
    <3> QED BY <1>3, <1>6, <2>1
  <2> HIDE DEF F
  <2> QED BY <1>4, <1>6, <2>2
<1> QED BY <1>0, <1>2, <1>7

(* What an int is after an addition.                                       *)
AsInt(x) == AsSigned(x % Power[SizeOfInt], SizeOfInt)

LEMMA AsIntIsInt ==
    ASSUME NEW x \in Int PROVE AsInt(x) \in Int32 /\ AsInt(x) \in Int
<1>1. PICK p \in Nat \ {0} : p = Power[4] /\ 2 * (p \div 2) = p /\ p \div 2 \in Nat
  BY Ranges
<1>2. x % p \in 0 .. p - 1
  BY DivMod
<1>3. PICK y \in 0 .. p - 1 : y = x % p
  BY <1>2
<1>4. AsInt(x) = IF 2 * y >= p THEN y - p ELSE y
  BY <1>1, <1>3, Sizes DEF AsInt, AsSigned
<1>5. PICK q \in Nat : q = p \div 2
  BY <1>1
<1>6. Int32 = -q .. q - 1 /\ p = 2 * q
  BY <1>1, <1>5, Sizes DEF Int32
<1>7. CASE 2 * y >= p
  BY <1>4, <1>6, <1>7
<1>8. CASE ~(2 * y >= p)
  BY <1>4, <1>6, <1>8
<1> QED BY <1>7, <1>8

LEMMA Handlers ==
    ASSUME NEW a
    PROVE  /\ meth(22, a) = a[1] \o a[2]
           /\ meth(23, a) = <<AsInt(a[1][1] + 1)>> /\ meth(24, a) = <<AsInt(a[1][1] + 2)>>
<1>1. meth(22, a) = a[1] \o a[2]
  <2> DEFINE c == a[1] \o a[2]
             d == [i \in 1 .. a[1][1] |-> 1]
             s == AsSigned((a[1][1] + 1) % Power[SizeOfInt], SizeOfInt)
             t == AsSigned((a[1][1] + 2) % Power[SizeOfInt], SizeOfInt)
  <2>1. meth(22, a) = CASE 22 = 1 -> <<nonce_>> [] 22 = 22 -> c [] 22 = 23 -> <<s>>
                        [] 22 = 24 -> <<t>> [] 22 = 25 -> d [] 22 = 74 -> <<2>>
    BY Zenon DEF meth
  <2> HIDE DEF c, d, s, t
  <2>2. meth(22, a) = c
    BY <2>1
  <2> QED BY <2>2 DEF c
<1>2. meth(23, a) = <<AsInt(a[1][1] + 1)>>
  BY DEF meth, AsInt
<1>3. meth(24, a) = <<AsInt(a[1][1] + 2)>>
  BY DEF meth, AsInt
<1> QED BY <1>1, <1>2, <1>3

(* What the handlers put into r can be marshalled.                         *)
LEMMA ResultIsValue ==
    ASSUME NEW p \in DOMAIN procs_, NEW u \in Reader
    PROVE  LET r == meth(p, GetArgs(u, procs_[p].args).vals)
           IN  \/ procs_[p].r = "string" /\ r \in Seq(Bytes0)
               \/ procs_[p].r = "int" /\ r[1] \in Int
<1> DEFINE a == GetArgs(u, procs_[p].args).vals
           r == meth(p, a)
<1>1. p \in {1, 22, 23, 24, 25, 74}
  BY DEF procs_
<1>2. \/ p = 22 /\ procs_[p].args = <<"string", "string">> /\ procs_[p].r = "string"
      \/ p = 25 /\ procs_[p].args = <<"int">> /\ procs_[p].r = "string"
      \/ p = 74 /\ procs_[p].r = "int"
      \/ p \in {1, 23, 24} /\ procs_[p].args = <<"int">> /\ procs_[p].r = "int"
  BY DEF procs_
<1>3. nonce_ \in Int
  BY StatusesAssumption, IntsReturn
<1>4. CASE p = 22
  <2>1. a[1] = get(u, "string").val /\ a[2] = get(get(u, "string").u, "string").val
    BY <1>2, <1>4, TwoArgs
  <2>2. PICK x \in Seq(Bytes0) : x = get(u, "string").val
    BY GetsValue
  <2>3. get(u, "string").u \in Reader
    BY GetsValue
  <2>4. PICK y \in Seq(Bytes0) : y = get(get(u, "string").u, "string").val
    BY <2>3, GetsValue
  <2> HIDE DEF a
  <2>5. r = x \o y
    <3>1. a[1] = x /\ a[2] = y
      BY <2>1, <2>2, <2>4
    <3>2. r = a[1] \o a[2]
      BY <1>4, Handlers
    <3> QED BY <3>1, <3>2
  <2> HIDE DEF r
  <2>6. r \in Seq(Bytes0)
    BY <2>5, ConcatProperties
  <2> QED BY <1>2, <1>4, <2>6 DEF r, a
<1>5. CASE p \in {23, 24, 25}
  <2>1. a = <<get(u, "int").val>>
    BY <1>2, <1>5, OneArg
  <2>2. PICK x \in Int : x = get(u, "int").val[1]
    BY GetsValue
  <2> HIDE DEF a
  <2>3. a[1][1] = x
    BY <2>1, <2>2
  <2>4. CASE p = 25
    <3>1. r = [i \in 1 .. x |-> 1]
      BY <2>3, <2>4 DEF meth
    <3>2. 1 \in Bytes0
      BY BytesAreNumbers DEF Bytes0, Junk
    <3> HIDE DEF r
    <3>3. r \in Seq(Bytes0)
      <4>1. CASE x \in Nat
        <5>1. r \in [1 .. x -> Bytes0]
          BY <3>1, <3>2
        <5> QED BY <4>1, <5>1, SeqDef
      <4>2. CASE x < 0
        <5>1. 1 .. x = {} /\ 1 .. 0 = {}
          BY <4>2
        <5>2. r \in [1 .. 0 -> Bytes0] /\ 0 \in Nat
          BY <3>1, <3>2, <5>1
        <5> QED BY <5>2, SeqDef
      <4> QED BY <4>1, <4>2
    <3> QED BY <1>2, <2>4, <3>3 DEF r, a
  <2>5. CASE p \in {23, 24}
    <3>1. r[1] = AsInt(x + 1) \/ r[1] = AsInt(x + 2)
      <4>1. r = <<AsInt(a[1][1] + 1)>> \/ r = <<AsInt(a[1][1] + 2)>>
        BY <2>5, Handlers
      <4> HIDE DEF r
      <4> QED BY <2>3, <4>1
    <3> HIDE DEF r
    <3>2. r[1] \in Int
      <4>1. x + 1 \in Int /\ x + 2 \in Int
        OBVIOUS
      <4> QED BY <3>1, <4>1, AsIntIsInt
    <3> QED BY <1>2, <2>5, <3>2 DEF r, a
  <2> QED BY <1>5, <2>4, <2>5
<1>6. CASE p = 1
  <2>1. r = <<nonce_>>
    BY <1>6 DEF meth
  <2> HIDE DEF r
  <2>2. r[1] \in Int
    BY <1>3, <2>1
  <2> QED BY <1>2, <1>6, <2>2 DEF r, a
<1>7. CASE p = 74
  <2>1. r = <<2>>
    BY <1>7 DEF meth
  <2> HIDE DEF r
  <2>2. r[1] \in Int
    BY <2>1
  <2> QED BY <1>2, <1>7, <2>2 DEF r, a
<1> QED BY <1>1, <1>4, <1>5, <1>6, <1>7

Headers == [xid : Int32, proc : Int32, clt_nonce : Uint32, srv_nonce : Uint32, xid_rep : Int32]

(* A reply with a header that can be read back.                            *)
RepliesTo(rep, xid, ret) ==
    unpack_reply_header(unmarshall(take_buf(rep))).h = [xid |-> xid, ret |-> ret]

Rets == Statuses \cup {unmarshal_args_failure}

LEMMA RetsAreInts == Rets \subseteq Int32 /\ \A x \in Rets : x \in Int /\ x # timeout_failure
<1>1. Statuses \subseteq Int32 /\ Statuses \subseteq Nat
  BY StatusesAssumption
<1>2. -2 \in Int32
  <2>1. PICK p \in Nat : p = Power[4] /\ p >= 16
    <3>1. Byte * Byte >= 4 /\ Byte * Byte \in Nat
      <4>1. (Byte - 2) * (Byte - 2) >= 0 /\ (Byte - 2) * (Byte - 2) = Byte * Byte - 4 * Byte + 4
        BY Powers
      <4> QED BY <4>1, Powers
    <3>2. PICK b \in Nat : b = Byte * Byte
      BY <3>1
    <3>3. (b - 4) * (b - 4) >= 0 /\ (b - 4) * (b - 4) = b * b - 8 * b + 16
      OBVIOUS
    <3>4. b * b >= 16 /\ b * b \in Nat
      BY <3>1, <3>2, <3>3
    <3>5. Byte * Byte * Byte * Byte = b * b
      BY <3>2, Powers
    <3> QED BY <3>4, <3>5, Powers
  <2>2. p \div 2 \in Nat /\ p \div 2 >= 8
    BY <2>1
  <2> QED BY <2>1, <2>2, Sizes DEF Int32
<1> QED BY <1>1, <1>2 DEF Rets, unmarshal_args_failure, timeout_failure

(* dispatch saves a reply that fits its buffer and that the caller can     *)
(* tell by its header.                                                     *)
LEMMA DispatchReplies ==
    ASSUME NEW hd \in Headers, hd.proc \in DOMAIN procs_, NEW u \in Reader, NEW status \in Statuses
    PROVE  LET d == Dispatched(hd, u, status)
           IN  /\ d.seen = TRUE /\ d.h = hd /\ d.ret \in Rets
               /\ Written(d.rep, Bytes0) /\ Fits(d.rep) /\ RepliesTo(d.rep, hd.xid, d.ret)
<1> DEFINE types == procs_[hd.proc]
           g == GetArgs(u, types.args)
           r == meth(hd.proc, g.vals)
           v == [type |-> types.r, val |-> r]
           m == put(marshall, v)
           d == Dispatched(hd, u, status)
<1>1. Written(marshall, Bytes0) /\ Fits(marshall)
  BY BytesAreNumbers, FreshIsWritten
<1>2. \/ types.r = "string" /\ r \in Seq(Bytes0)
      \/ types.r = "int" /\ r[1] \in Int
  BY ResultIsValue
<1> HIDE DEF r, types
<1>3. Written(m, Bytes0) /\ Fits(m)
  <2>1. v.type = types.r /\ v.val = r
    OBVIOUS
  <2> HIDE DEF v
  <2>2. \/ v.type = "string" /\ v.val \in Seq(Bytes0)
        \/ v.type \in DOMAIN Width /\ \A k \in 0 .. 7 : ByteOf(v.val[1], k) \in Bytes0
    <3>1. "int" \in DOMAIN Width
      BY DEF Width
    <3>2. ASSUME NEW x \in Int PROVE \A k \in 0 .. 7 : ByteOf(x, k) \in Bytes0
      <4>1. \A k \in 0 .. 7 : k \in 0 .. 8
        OBVIOUS
      <4> QED BY <4>1, ByteIsByte, BytesAreNumbers
    <3> QED BY <1>2, <2>1, <3>1, <3>2
  <2> QED BY <1>1, <2>2, PutWrites, BytesAreNumbers
<1>4. hd.xid \in Int32 /\ status \in Int32 /\ unmarshal_args_failure \in Int32
  BY RetsAreInts DEF Headers, Rets
<1>5. ASSUME NEW w, Written(w, Bytes0), Fits(w), NEW ret \in Int32
      PROVE  LET rep == pack_reply_header(w, [xid |-> hd.xid, ret |-> ret])
             IN  Written(rep, Bytes0) /\ Fits(rep) /\ RepliesTo(rep, hd.xid, ret)
  BY <1>4, <1>5, ReplyHeaderArrives, BytesAreNumbers DEF RepliesTo
<1>6. CASE okdone(g.u)
  <2>1. /\ d.seen = TRUE /\ d.h = hd /\ d.ret = status
        /\ d.rep = pack_reply_header(m, [xid |-> hd.xid, ret |-> status])
    BY <1>6 DEF Dispatched, r, types
  <2> HIDE DEF d, m
  <2> QED BY <1>3, <1>4, <1>5, <2>1 DEF Rets, d
<1>7. CASE ~okdone(g.u)
  <2>1. /\ d.seen = TRUE /\ d.h = hd /\ d.ret = unmarshal_args_failure
        /\ d.rep = pack_reply_header(marshall, [xid |-> hd.xid, ret |-> unmarshal_args_failure])
    BY <1>7 DEF Dispatched, r, types
  <2> HIDE DEF d
  <2> QED BY <1>1, <1>4, <1>5, <2>1 DEF Rets, d
<1> QED BY <1>6, <1>7
-----------------------------------------------------------------------------
(* A request is written inside its buffer from its first argument on; once *)
(* it is sent it has the header of the call, and so has what the server    *)
(* saves and what the caller gets.                                         *)

ArgsOf(c) == {c.args[i] : i \in DOMAIN c.args}

Marshalling ==
    /\ call \in Calls /\ h \in Headers /\ h.proc = call.proc
    /\ todo \in Seq(ArgsOf(call))
    /\ Written(req, Bytes0) /\ Fits(req)
    /\ pc = "args" => wire = {} /\ ~up

Sent == pc # "args" => /\ unpack_req_header(unmarshall(take_buf(req))).h = h
                       /\ unpack_req_header(unmarshall(take_buf(req))).u \in Reader

Served == /\ Written(srv.rep, Bytes0) /\ Fits(srv.rep)
          /\ srv.seen => /\ srv.h = h /\ srv.ret \in Rets
                         /\ RepliesTo(srv.rep, h.xid, srv.ret)
          /\ "rep" \in wire => srv.seen
          /\ ca.done => srv.seen /\ ca.intret = srv.ret

MarshalInv == Marshalling /\ Sent /\ Served

LEMMA ArgsAreValues ==
    ASSUME NEW c \in Calls, NEW v \in ArgsOf(c)
    PROVE  \/ v.type = "string" /\ v.val \in Seq(Bytes0)
           \/ v.type \in DOMAIN Width /\ \A k \in 0 .. 7 : ByteOf(v.val[1], k) \in Bytes0
<1>1. IsValue(v)
  BY CallsAssumption DEF ArgsOf
<1>2. CASE v.type = "string" /\ v.val \in Seq(0 .. Byte - 1)
  <2>1. ASSUME NEW S, NEW R, S \subseteq R, NEW s \in Seq(S) PROVE s \in Seq(R)
    <3>1. PICK n \in Nat : s \in [1 .. n -> S]
      BY SeqDef
    <3>2. s \in [1 .. n -> R]
      BY <2>1, <3>1
    <3> QED BY <3>2, SeqDef
  <2> QED BY <1>2, <2>1, BytesAreNumbers
<1>3. CASE v.type \in DOMAIN Width /\ v.val \in Seq(Int) /\ Len(v.val) = 1
  <2>1. PICK x \in Int : x = v.val[1]
    <3>1. 1 \in 1 .. Len(v.val)
      BY <1>3
    <3> QED BY <1>3, <3>1, ElementOfSeq
  <2>2. \A k \in 0 .. 7 : k \in 0 .. 8
    OBVIOUS
  <2>3. \A k \in 0 .. 7 : ByteOf(x, k) \in Bytes0
    BY <2>2, ByteIsByte, BytesAreNumbers
  <2> QED BY <1>3, <2>1, <2>3
<1> QED BY <1>1, <1>2, <1>3 DEF IsValue

LEMMA MarshalInit == Init => MarshalInv
<1> SUFFICES ASSUME Init PROVE MarshalInv
  OBVIOUS
<1>1. call \in Calls /\ todo = call.args /\ req = marshall /\ pc = "args" /\ wire = {} /\ up = FALSE
  BY DEF Init
<1>2. h \in Headers /\ h.proc = call.proc
  <2>1. PICK id \in Ids : h = [xid |-> id.xid, proc |-> call.proc, clt_nonce |-> id.clt_nonce,
                               srv_nonce |-> IF call.proc = 1 THEN 0 ELSE nonce_,
                               xid_rep |-> id.xid_rep]
    BY DEF Init
  <2>2. id.xid \in Int32 /\ id.clt_nonce \in Uint32 /\ id.xid_rep \in Int32
    BY IdsAssumption
  <2>3. call.proc \in Int32
    BY <1>1, CallsAssumption
  <2>4. (IF call.proc = 1 THEN 0 ELSE nonce_) \in Uint32
    <3>1. PICK p \in Nat \ {0} : p = Power[4] /\ 2 * (p \div 2) = p /\ p \div 2 \in Nat
      BY Ranges
    <3>2. nonce_ \in Nat /\ nonce_ <= p \div 2 - 1
      BY <3>1, StatusesAssumption, Sizes DEF Int32
    <3> QED BY <3>1, <3>2, Sizes DEF Uint32
  <2> QED BY <2>1, <2>2, <2>3, <2>4 DEF Headers
<1>3. Written(marshall, Bytes0) /\ Fits(marshall)
  BY BytesAreNumbers, FreshIsWritten
<1>4. todo \in Seq(ArgsOf(call))
  BY <1>1, CallsAssumption DEF ArgsOf
<1>5. srv.rep = marshall /\ ~srv.seen /\ ~ca.done
  BY DEF Init, NotServed
<1>6. Marshalling
  BY <1>1, <1>2, <1>3, <1>4 DEF Marshalling
<1>7. Sent /\ Served
  BY <1>1, <1>3, <1>5 DEF Sent, Served
<1> QED BY <1>6, <1>7 DEF MarshalInv

LEMMA MarshalNext == MarshalInv /\ [Next]_vars => MarshalInv'
<1> SUFFICES ASSUME MarshalInv, [Next]_vars PROVE MarshalInv'
  OBVIOUS
<1>0. Marshalling /\ Sent /\ Served
  BY DEF MarshalInv
<1>1. CASE marshall_arg
  <2>1. UNCHANGED <<call, h, pc, wire, up, srv, ca>> /\ pc = "args" /\ todo # <<>>
    BY <1>1 DEF marshall_arg
  <2>2. Head(todo) \in ArgsOf(call) /\ todo' \in Seq(ArgsOf(call))
    <3>1. todo \in Seq(ArgsOf(call)) /\ todo # <<>> /\ todo' = Tail(todo)
      BY <1>0, <1>1 DEF Marshalling, marshall_arg
    <3> QED BY <3>1, HeadTailProperties
  <2>3. Written(req', Bytes0) /\ Fits(req')
    <3>1. PICK v \in ArgsOf(call) : v = Head(todo)
      BY <2>2
    <3>2. req' = put(req, v)
      BY <1>1, <3>1 DEF marshall_arg
    <3>3. call \in Calls /\ Written(req, Bytes0) /\ Fits(req)
      BY <1>0 DEF Marshalling
    <3>4. \/ v.type = "string" /\ v.val \in Seq(Bytes0)
          \/ v.type \in DOMAIN Width /\ \A k \in 0 .. 7 : ByteOf(v.val[1], k) \in Bytes0
      BY <3>3, ArgsAreValues
    <3> QED BY <3>2, <3>3, <3>4, PutWrites, BytesAreNumbers
  <2>4. Marshalling'
    BY <1>0, <2>1, <2>2, <2>3 DEF Marshalling
  <2>5. Sent' /\ Served'
    BY <1>0, <2>1 DEF Sent, Served
  <2> QED BY <2>4, <2>5 DEF MarshalInv
<1>2. CASE call1
  <2>1. UNCHANGED <<call, h, todo, wire, up, srv, ca>> /\ pc' = "top" /\ req' = pack_req_header(req, h)
    BY <1>2 DEF call1
  <2>2. h \in Headers /\ Written(req, Bytes0) /\ Fits(req)
    BY <1>0 DEF Marshalling
  <2>3. /\ unpack_req_header(unmarshall(take_buf(req'))).h = h
        /\ unpack_req_header(unmarshall(take_buf(req'))).u = At(req'.buf, 24)
        /\ Written(req', Bytes0) /\ Fits(req')
    BY <2>1, <2>2, RequestHeaderArrives, BytesAreNumbers DEF Headers
  <2>4. At(req'.buf, 24) \in Reader
    <3>1. req'.buf \in Seq(Bytes0)
      BY <2>3 DEF Written
    <3>2. ASSUME NEW b \in Seq(Bytes0) PROVE At(b, 24) \in Reader
      BY DEF At, Reader
    <3> QED BY <3>1, <3>2
  <2>5. Marshalling' /\ Sent' /\ Served'
    BY <1>0, <2>1, <2>3, <2>4 DEF Marshalling, Sent, Served
  <2> QED BY <2>5 DEF MarshalInv
<1>3. ASSUME UNCHANGED <<call, h, todo, req, srv, ca>>, pc # "args", pc' # "args",
             "rep" \in wire' => "rep" \in wire
      PROVE  MarshalInv'
  <2>1. Marshalling' /\ Sent' /\ Served'
    BY <1>0, <1>3 DEF Marshalling, Sent, Served
  <2> QED BY <2>1 DEF MarshalInv
<1>4. CASE loop_top
  <2>1. wire' = wire \/ wire' = wire \cup {"req"}
    BY <1>4 DEF loop_top
  <2>2. UNCHANGED <<call, h, todo, req, srv, ca>> /\ pc = "top" /\ pc' # "args"
    BY <1>4 DEF loop_top
  <2> QED BY <1>3, <2>1, <2>2
<1>5. CASE set_deadline \/ timed_out \/ woken \/ call_m
  BY <1>3, <1>5 DEF set_deadline, timed_out, woken, call_m
<1>6. CASE dispatch
  <2> DEFINE u == unpack_req_header(unmarshall(take_buf(req)))
  <2>1. UNCHANGED <<call, h, todo, req, ca, pc, up>> /\ "req" \in wire /\ pc # "args"
    BY <1>0, <1>6 DEF dispatch, Marshalling
  <2>2. u.h = h /\ u.u \in Reader
    BY <1>0, <2>1 DEF Sent
  <2>3. \/ srv' = srv /\ ("rep" \in wire' => "rep" \in wire)
        \/ srv' = srv /\ srv.seen
        \/ /\ ~srv.seen /\ h.proc \in DOMAIN procs_
           /\ \E status \in Statuses : srv' = Dispatched(h, u.u, status)
    <3> HIDE DEF u
    <3>1. IF u.h.proc \in DOMAIN procs_
          THEN /\ wire' = (wire \ {"req"}) \cup {"rep"}
               /\ IF srv.seen THEN UNCHANGED srv
                  ELSE \E status \in Statuses : srv' = Dispatched(u.h, u.u, status)
          ELSE wire' = wire \ {"req"} /\ UNCHANGED srv
      BY <1>6 DEF dispatch, u
    <3> QED BY <2>2, <3>1
  <2>4. CASE srv' = srv /\ ("rep" \in wire' => "rep" \in wire)
    BY <1>3, <2>1, <2>4
  <2>5. CASE srv' = srv /\ srv.seen
    <3>1. Marshalling' /\ Sent' /\ Served'
      BY <1>0, <2>1, <2>5 DEF Marshalling, Sent, Served
    <3> QED BY <3>1 DEF MarshalInv
  <2>6. CASE /\ ~srv.seen /\ h.proc \in DOMAIN procs_
             /\ \E status \in Statuses : srv' = Dispatched(h, u.u, status)
    <3> HIDE DEF u
    <3>1. PICK status \in Statuses : srv' = Dispatched(h, u.u, status)
      BY <2>6
    <3>2. h \in Headers
      BY <1>0 DEF Marshalling
    <3>3. /\ srv'.seen = TRUE /\ srv'.h = h /\ srv'.ret \in Rets
          /\ Written(srv'.rep, Bytes0) /\ Fits(srv'.rep) /\ RepliesTo(srv'.rep, h.xid, srv'.ret)
      BY <2>2, <2>6, <3>1, <3>2, DispatchReplies
    <3>4. ~ca.done
      BY <1>0, <2>6 DEF Served
    <3>5. Served'
      BY <2>1, <3>3, <3>4 DEF Served
    <3>6. Marshalling' /\ Sent'
      BY <1>0, <2>1 DEF Marshalling, Sent
    <3> QED BY <3>5, <3>6 DEF MarshalInv
  <2> QED BY <2>3, <2>4, <2>5, <2>6
<1>7. CASE got_pdu
  <2>1. UNCHANGED <<call, h, todo, req, srv, pc, up>> /\ "rep" \in wire /\ wire' = wire \ {"rep"} /\ pc # "args"
    BY <1>7 DEF got_pdu, Pending
  <2>2. srv.seen /\ RepliesTo(srv.rep, h.xid, srv.ret)
    BY <1>0, <2>1 DEF Served
  <2>3. ca' = ca \/ (ca'.done = TRUE /\ ca'.intret = srv.ret)
    <3>1. unpack_reply_header(unmarshall(take_buf(srv.rep))).h.ret = srv.ret
      BY <2>2 DEF RepliesTo
    <3> DEFINE b == take_buf(srv.rep)
               rh == unpack_reply_header(unmarshall(b)).h
    <3>2. ca' = IF rh.xid = h.xid /\ ~ca.done
                THEN [done |-> TRUE, intret |-> rh.ret, un |-> take_in(b)] ELSE ca
      BY <1>7 DEF got_pdu
    <3>3. rh.ret = srv.ret
      BY <3>1
    <3> HIDE DEF rh, b
    <3>4. ASSUME ca' = [done |-> TRUE, intret |-> rh.ret, un |-> take_in(b)]
          PROVE  ca'.done = TRUE /\ ca'.intret = srv.ret
      BY <3>3, <3>4
    <3> QED BY <3>2, <3>4
  <2>4. Served'
    BY <1>0, <2>1, <2>2, <2>3 DEF Served
  <2>5. Marshalling' /\ Sent'
    BY <1>0, <2>1 DEF Marshalling, Sent
  <2> QED BY <2>4, <2>5 DEF MarshalInv
<1>8. CASE Break
  BY <1>3, <1>8 DEF Break, Pending
<1>9. CASE Tick
  BY <1>3, <1>9 DEF Tick
<1>10. CASE UNCHANGED vars
  <2>1. Marshalling' /\ Sent' /\ Served'
    BY <1>0, <1>10 DEF Marshalling, Sent, Served, vars
  <2> QED BY <2>1 DEF MarshalInv
<1> QED BY <1>1, <1>2, <1>4, <1>5, <1>6, <1>7, <1>8, <1>9, <1>10 DEF Next, Caller

LEMMA MarshalAlways == Spec => []MarshalInv
<1>1. Init => MarshalInv
  BY MarshalInit
<1>2. MarshalInv /\ [Next]_vars => MarshalInv'
  BY MarshalNext
<1> QED BY <1>1, <1>2, PTL DEF Spec

(* What is marshalled stays inside its buffer, for any arguments of any    *)
(* call and any capacity buffers start with: rawbyte doubles it in time,   *)
(* rawbytes by as much as a string needs, and the header goes in where     *)
(* room was left for it.                                                   *)
THEOREM MarshallHolds == Spec => []BuffersHold
<1>1. MarshalInv => BuffersHold
  <2> SUFFICES ASSUME MarshalInv, NEW m \in {req, srv.rep}
               PROVE  /\ m.ind <= m.capa /\ Len(m.buf) <= m.capa
                      /\ \A i \in DOMAIN m.buf : m.buf[i] \in 0 .. Junk
    BY DEF BuffersHold
  <2>1. Written(m, Bytes0) /\ Fits(m)
    BY DEF MarshalInv, Marshalling, Served
  <2>2. m.buf \in Seq(Bytes0) /\ Len(m.buf) = m.ind /\ m.ind <= m.capa
    BY <2>1 DEF Written, Fits
  <2>3. \A i \in DOMAIN m.buf : m.buf[i] \in Bytes0
    BY <2>2, ElementOfSeq, LenProperties
  <2> QED BY <2>2, <2>3 DEF Bytes0
<1> QED BY <1>1, MarshalAlways, PTL

(* The headers survive their way: dispatch decodes the header the caller   *)
(* packed, and a caller that is done has the status dispatch replied with. *)
HeadersArrive == /\ srv.seen => srv.h = h
                 /\ ca.done => srv.seen /\ ca.intret = srv.ret

(* Headers arrive whatever the xid, the nonces and the arguments are.      *)
THEOREM HeadersSurvive == Spec => []HeadersArrive
<1>1. MarshalInv => HeadersArrive
  BY DEF MarshalInv, Served, HeadersArrive
<1> QED BY <1>1, MarshalAlways, PTL
-----------------------------------------------------------------------------
(* Time.                                                                   *)

Timespec == [sec : Nat, nsec : 0 .. NsPerSec]

LEMMA Units == MsPerSec \in Nat \ {0} /\ NsPerMs \in Nat \ {0} /\ NsPerSec \in Nat \ {0}
  BY UnitsAssumption DEF NsPerSec

LEMMA ClockTells ==
    ASSUME NEW x \in Nat
    PROVE  /\ clock_gettime(x).sec \in Nat /\ clock_gettime(x).nsec \in 0 .. NsPerSec - 1
           /\ clock_gettime(x).sec * NsPerSec + clock_gettime(x).nsec = x
           /\ x >= NsPerSec => clock_gettime(x).sec >= 1
<1>1. PICK n \in Nat \ {0} : n = NsPerSec
  BY Units
<1>2. clock_gettime(x).sec = x \div n /\ clock_gettime(x).nsec = x % n
  BY <1>1 DEF clock_gettime
<1>3. PICK q \in Int : q = x \div n
  BY DivMod
<1>4. PICK r \in 0 .. n - 1 : r = x % n
  BY DivMod
<1>5. x = q * n + r
  BY <1>3, <1>4, DivMod
<1>6. ASSUME NEW k \in Int, k <= -1 PROVE k * n <= -n
  <2>1. (-1 - k) * n >= 0 /\ (-1 - k) * n = -n - k * n
    BY <1>6
  <2> QED BY <2>1
<1>7. q >= 0
  BY <1>5, <1>6
<1>8. x >= n => q >= 1
  <2>1. q = 0 => x < n
    BY <1>5
  <2> QED BY <1>7, <2>1
<1> QED BY <1>1, <1>2, <1>3, <1>4, <1>5, <1>7, <1>8

(* Milliseconds are added exactly, and nsec is at most one second.         *)
LEMMA AddIsExact ==
    ASSUME NEW a, a.sec \in Nat, a.nsec \in 0 .. NsPerSec - 1, NEW b \in Nat
    PROVE  /\ add_timespec(a, b) \in Timespec /\ add_timespec(a, b).sec >= a.sec
           /\ Total(add_timespec(a, b)) = Total(a) + b * NsPerMs
<1>1. PICK n \in Nat \ {0} : n = NsPerSec
  BY Units
<1>2. PICK s \in Nat \ {0} : s = MsPerSec
  BY Units
<1>3. PICK k \in Nat \ {0} : k = NsPerMs
  BY Units
<1>4. n = s * k
  BY <1>1, <1>2, <1>3 DEF NsPerSec
<1>0. b = (b \div s) * s + (b % s) /\ b % s \in 0 .. s - 1 /\ b \div s \in Int
  <2>1. \A x \in Int : \A m \in Nat \ {0} :
           x = (x \div m) * m + (x % m) /\ x % m \in 0 .. m - 1 /\ x \div m \in Int
    BY DivMod
  <2> QED BY <2>1
<1>5. PICK q \in Int : q = b \div s
  BY <1>0
<1>6. PICK r \in 0 .. s - 1 : r = b % s
  BY <1>0
<1>7. b = q * s + r /\ q >= 0
  <2>1. b = q * s + r
    BY <1>5, <1>6, <1>0
  <2>2. ASSUME q <= -1 PROVE FALSE
    <3>1. (-1 - q) * s >= 0 /\ (-1 - q) * s = -s - q * s
      BY <2>2
    <3> QED BY <2>1, <3>1
  <2> QED BY <2>1, <2>2
<1>8. r * k >= 0 /\ r * k <= n - k
  <2>1. (s - 1 - r) * k >= 0 /\ (s - 1 - r) * k = s * k - k - r * k
    OBVIOUS
  <2> QED BY <1>4, <2>1
<1>9. b * k = q * n + r * k
  <2>1. (q * s + r) * k = q * (s * k) + r * k
    OBVIOUS
  <2> QED BY <1>4, <1>7, <2>1
<1>10. PICK rk \in Nat : rk = r * k
  BY <1>8
<1>11. PICK ns \in Nat : ns = a.nsec + rk
  <2>1. a.nsec \in Nat
    BY <1>1
  <2> QED BY <2>1
<1>12. ns < 2 * n
  BY <1>1, <1>8, <1>10, <1>11
<1> DEFINE carry == IF ns > n THEN (ns - 1) \div n ELSE 0
<1>13. carry = IF ns > n THEN 1 ELSE 0
  <2>1. ASSUME ns > n PROVE (ns - 1) \div n = 1
    <3>1. PICK m \in 0 .. n - 1 : m = ns - 1 - n
      BY <1>12, <2>1
    <3>2. PICK y \in Int : y = ns - 1
      OBVIOUS
    <3>3. y = 1 * n + m
      BY <3>1, <3>2
    <3>4. y \div n = 1
      BY <3>3, DivUnique
    <3> QED BY <3>2, <3>4
  <2> QED BY <2>1
<1>14. add_timespec(a, b) = [sec |-> a.sec + q + carry, nsec |-> ns - carry * n]
  BY <1>1, <1>2, <1>3, <1>5, <1>6, <1>10, <1>11 DEF add_timespec
<1> HIDE DEF carry
<1>15. PICK c \in {0, 1} : c = carry
  BY <1>13
<1>16. PICK e \in Nat : e = a.sec
  OBVIOUS
<1>17. e + q + c \in Nat /\ e + q + c >= e /\ ns - c * n \in 0 .. n
  BY <1>7, <1>12, <1>13, <1>15
<1>18. (e + q + c) * n + (ns - c * n) = e * n + q * n + ns
  <2>1. c = 0 \/ c = 1
    OBVIOUS
  <2>2. (e + q + c) * n = e * n + q * n + c * n
    OBVIOUS
  <2>3. PICK y \in Int : y = e * n
    OBVIOUS
  <2>4. PICK z \in Int : z = q * n
    OBVIOUS
  <2> QED BY <2>1, <2>2, <2>3, <2>4
<1>19. Total(add_timespec(a, b)) = Total(a) + b * NsPerMs
  <2>1. Total(add_timespec(a, b)) = (e + q + c) * n + (ns - c * n)
    BY <1>1, <1>14, <1>15, <1>16 DEF Total
  <2>2. Total(a) = e * n + a.nsec /\ b * NsPerMs = q * n + rk
    BY <1>1, <1>3, <1>9, <1>10, <1>16 DEF Total
  <2>3. PICK y \in Int : y = e * n
    OBVIOUS
  <2>4. PICK z \in Int : z = q * n
    OBVIOUS
  <2>5. a.nsec \in Int
    BY <1>1
  <2> QED BY <1>11, <1>18, <2>1, <2>2, <2>3, <2>4, <2>5
<1>20. add_timespec(a, b) \in Timespec /\ add_timespec(a, b).sec >= a.sec
  BY <1>1, <1>14, <1>15, <1>16, <1>17 DEF Timespec
<1> QED BY <1>19, <1>20

(* cmp_timespec orders times by what they stand for.                       *)
LEMMA CmpOrders ==
    ASSUME NEW a \in Timespec, NEW b \in Timespec
    PROVE  IF cmp_timespec(a, b) > 0 THEN Total(a) >= Total(b) ELSE Total(a) <= Total(b)
<1>1. PICK n \in Nat \ {0} : n = NsPerSec
  BY Units
<1>2. PICK s \in Nat : s = a.sec
  BY DEF Timespec
<1>3. PICK t \in Nat : t = b.sec
  BY DEF Timespec
<1>4. PICK x \in 0 .. n : x = a.nsec
  BY <1>1 DEF Timespec
<1>5. PICK y \in 0 .. n : y = b.nsec
  BY <1>1 DEF Timespec
<1>6. Total(a) = s * n + x /\ Total(b) = t * n + y
  BY <1>1, <1>2, <1>3, <1>4, <1>5 DEF Total
<1>7. ASSUME NEW d \in Nat, NEW e \in Nat, e > d PROVE e * n >= d * n + n
  <2>1. (e - d - 1) * n >= 0 /\ (e - d - 1) * n = e * n - d * n - n
    BY <1>7
  <2> QED BY <2>1
<1>8. PICK sn \in Int : sn = s * n
  OBVIOUS
<1>9. PICK tn \in Int : tn = t * n
  OBVIOUS
<1>10. (s > t => sn >= tn + n) /\ (t > s => tn >= sn + n) /\ (s = t => sn = tn)
  BY <1>7, <1>8, <1>9
<1>11. IF s > t \/ (s = t /\ x > y) THEN sn + x >= tn + y ELSE sn + x <= tn + y
  BY <1>10
<1>12. cmp_timespec(a, b) > 0 <=> (s > t \/ (s = t /\ x > y))
  BY <1>2, <1>3, <1>4, <1>5 DEF cmp_timespec
<1> QED BY <1>6, <1>8, <1>9, <1>11, <1>12
-----------------------------------------------------------------------------
(* When the call's own deadline is.                                        *)
Due == start + call.to * NsPerMs

InTime == Due <= now /\ now <= Due + Late

TimeTypes == /\ call \in Calls /\ now \in Nat /\ start \in Nat /\ start >= NsPerSec
             /\ curr_to \in Nat /\ final \in Timespec /\ next \in Timespec
             /\ pc \in {"args", "top", "set", "waiting", "out", "returned"}

(* finaldeadline is Due until it has been used for a wait, which then ends *)
(* when it has passed.  Every wait ends in time for the next, or for Due.  *)
TimeInv ==
    /\ TimeTypes
    /\ pc = "args" => now = start
    /\ pc \in {"top", "set", "waiting"} /\ final.sec # 0 => Total(final) = Due
    /\ pc = "set" => final.sec # 0
    /\ pc \in {"top", "set"} => now <= Due + Late
    /\ pc = "top" /\ final.sec = 0 => InTime
    /\ pc = "waiting" => /\ IsValid(next) => now <= Total(next) + Late
                         /\ Total(next) <= Due
                         /\ final.sec = 0 => Total(next) = Due
    /\ pc = "out" /\ ~ca.done => InTime
    /\ pc = "returned" /\ out.ret = timeout_failure => InTime

LEMMA DueIsNumber ==
    ASSUME TimeTypes
    PROVE  Due \in Nat /\ Due >= start /\ Late \in Nat /\ call.to \in Nat
           /\ Total(final) \in Nat /\ Total(next) \in Nat /\ now \in Nat
<1>1. call.to \in Nat
  BY CallsAssumption DEF TimeTypes
<1>2. call.to * NsPerMs \in Nat
  BY <1>1, Units
<1>3. ASSUME NEW t \in Timespec PROVE Total(t) \in Nat
  <2>1. t.sec \in Nat /\ t.nsec \in Nat
    BY Units DEF Timespec
  <2>2. t.sec * NsPerSec \in Nat
    BY <2>1, Units
  <2> QED BY <2>1, <2>2 DEF Total
<1> QED BY <1>1, <1>2, <1>3, TimingAssumption DEF Due, TimeTypes

LEMMA TimeInit == Init => TimeInv
<1> SUFFICES ASSUME Init PROVE TimeInv
  OBVIOUS
<1>1. now \in Starts /\ start = now /\ call \in Calls /\ pc = "args" /\ final = Time0 /\ next = Time0 /\ curr_to = 0
  BY DEF Init
<1>2. Time0 \in Timespec
  BY Units DEF Time0, Timespec
<1>3. TimeTypes
  BY <1>1, <1>2, StartsAssumption DEF TimeTypes
<1> QED BY <1>1, <1>3 DEF TimeInv

LEMMA TimeNext == TimeInv /\ MarshalInv /\ [Next]_vars => TimeInv'
<1> SUFFICES ASSUME TimeInv, MarshalInv, [Next]_vars PROVE TimeInv'
  OBVIOUS
<1>0. TimeTypes
  BY DEF TimeInv
<1>N. /\ Due \in Nat /\ Due >= start /\ Late \in Nat /\ call.to \in Nat
      /\ Total(final) \in Nat /\ Total(next) \in Nat /\ now \in Nat
  BY <1>0, DueIsNumber
<1>C. ASSUME UNCHANGED <<call, start>> PROVE Due' = Due
  BY <1>C DEF Due
<1>1. CASE marshall_arg
  <2>1. UNCHANGED <<now, call, pc, final, next, curr_to, start>> /\ pc = "args"
    BY <1>1 DEF marshall_arg
  <2> QED BY <2>1 DEF TimeInv, TimeTypes
<1>2. CASE call1
  <2>1. /\ UNCHANGED <<now, call, next, start>> /\ pc = "args" /\ pc' = "top"
        /\ final' = add_timespec(clock_gettime(now), call.to) /\ curr_to' = ToMin
    BY <1>2 DEF call1
  <2>2. now = start
    BY <2>1 DEF TimeInv
  <2>3. PICK a : a = clock_gettime(now)
    OBVIOUS
  <2>4. a.sec \in Nat /\ a.nsec \in 0 .. NsPerSec - 1 /\ Total(a) = now /\ a.sec >= 1
    BY <1>0, <2>2, <2>3, ClockTells DEF Total, TimeTypes
  <2>5. final' \in Timespec /\ final'.sec >= a.sec /\ Total(final') = Total(a) + call.to * NsPerMs
    BY <1>N, <2>1, <2>3, <2>4, AddIsExact
  <2>6. Total(final') = Due /\ final'.sec # 0
    <3>1. final'.sec \in Nat
      BY <2>5 DEF Timespec
    <3> QED BY <2>2, <2>4, <2>5, <3>1 DEF Due
  <2>7. TimeTypes'
    BY <1>0, <2>1, <2>5, TimingAssumption DEF TimeTypes
  <2>8. now <= Due + Late
    BY <1>N, <2>2
  <2>9. Due' = Due /\ Total(final)' = Total(final')
    BY <1>C, <2>1 DEF Total
  <2> QED BY <2>1, <2>6, <2>7, <2>8, <2>9 DEF TimeInv
<1>3. CASE loop_top
  <2>1. /\ UNCHANGED <<now, call, final, next, curr_to, start, ca, out>> /\ pc = "top"
        /\ pc' = IF final.sec = 0 THEN "out" ELSE "set"
    BY <1>3 DEF loop_top
  <2>2. Due' = Due /\ InTime' = InTime /\ Total(final)' = Total(final)
    BY <1>C, <2>1 DEF InTime, Total
  <2>3. TimeTypes'
    BY <1>0, <2>1 DEF TimeTypes
  <2>4. CASE final.sec = 0
    BY <2>1, <2>2, <2>3, <2>4 DEF TimeInv
  <2>5. CASE final.sec # 0
    BY <2>1, <2>2, <2>3, <2>5 DEF TimeInv
  <2> QED BY <2>4, <2>5
<1>4. CASE set_deadline
  <2> DEFINE d == add_timespec(clock_gettime(now), curr_to)
  <2>1. /\ UNCHANGED <<now, call, curr_to, start, ca, out>> /\ pc = "set" /\ pc' = "waiting"
        /\ next' = (IF CutOff(d) THEN final ELSE d)
        /\ final' = (IF CutOff(d) THEN [final EXCEPT !.sec = 0] ELSE final)
    BY <1>4 DEF set_deadline
  <2>2. d \in Timespec /\ Total(d) \in Nat /\ Total(d) >= now
    <3>1. PICK a : a = clock_gettime(now)
      OBVIOUS
    <3>2. a.sec \in Nat /\ a.nsec \in 0 .. NsPerSec - 1 /\ Total(a) = now
      BY <1>N, <3>1, ClockTells DEF Total
    <3>3. curr_to \in Nat
      BY <1>0 DEF TimeTypes
    <3>4. d \in Timespec /\ Total(d) = now + curr_to * NsPerMs
      BY <3>1, <3>2, <3>3, AddIsExact
    <3>5. curr_to * NsPerMs \in Nat
      BY <3>3, Units
    <3> HIDE DEF d
    <3> QED BY <1>N, <3>4, <3>5
  <2> HIDE DEF d
  <2>3. final \in Timespec /\ final.sec # 0 /\ Total(final) = Due /\ now <= Due + Late
    BY <1>0, <2>1 DEF TimeInv, TimeTypes
  <2>4. Due' = Due /\ Total(final)' = Total(final') /\ Total(next)' = Total(next') /\ IsValid(next)' = IsValid(next')
    BY <1>C, <2>1 DEF Total, IsValid
  <2>5. CASE CutOff(d)
    <3>1. final' \in Timespec /\ final'.sec = 0 /\ next' = final
      BY <2>1, <2>3, <2>5 DEF Timespec
    <3>2. TimeTypes'
      BY <1>0, <2>1, <2>3, <3>1 DEF TimeTypes
    <3>3. Total(next') = Due
      BY <2>3, <3>1
    <3> QED BY <1>N, <2>1, <2>3, <2>4, <3>1, <3>2, <3>3 DEF TimeInv
  <2>6. CASE ~CutOff(d)
    <3>1. final' = final /\ next' = d
      BY <2>1, <2>6
    <3>2. TimeTypes'
      BY <1>0, <2>1, <2>2, <3>1 DEF TimeTypes
    <3>3. Total(d) <= Due
      BY <2>2, <2>3, <2>6, CmpOrders DEF CutOff
    <3>4. now <= Total(d) + Late
      BY <1>N, <2>2
    <3> QED BY <2>1, <2>3, <2>4, <3>1, <3>2, <3>3, <3>4 DEF TimeInv
  <2> QED BY <2>5, <2>6
<1>5. CASE timed_out
  <2>1. /\ UNCHANGED <<now, call, final, next, start, ca, out>> /\ pc = "waiting" /\ pc' = "top"
        /\ IsValid(next) /\ now >= Total(next) /\ curr_to' = 2 * curr_to
    BY <1>5 DEF timed_out, HasPassed
  <2>2. Due' = Due /\ InTime' = InTime /\ Total(final)' = Total(final)
    BY <1>C, <2>1 DEF InTime, Total
  <2>3. TimeTypes'
    BY <1>0, <2>1 DEF TimeTypes
  <2>4. now <= Total(next) + Late /\ Total(next) <= Due /\ (final.sec = 0 => Total(next) = Due)
    BY <2>1 DEF TimeInv
  <2>5. now <= Due + Late /\ (final.sec = 0 => InTime)
    BY <1>N, <2>1, <2>4 DEF InTime
  <2>6. final.sec # 0 => Total(final) = Due
    BY <2>1 DEF TimeInv
  <2>7. (now <= Due + Late)' = (now <= Due + Late)
    BY <2>1, <2>2
  <2> QED BY <2>1, <2>2, <2>3, <2>5, <2>6, <2>7 DEF TimeInv
<1>6. CASE woken
  <2>1. /\ UNCHANGED <<now, call, final, next, curr_to, start, ca, out>> /\ ca.done /\ pc' = "out"
    BY <1>6 DEF woken
  <2>2. TimeTypes'
    BY <1>0, <2>1 DEF TimeTypes
  <2> QED BY <2>1, <2>2 DEF TimeInv
<1>7. CASE call_m
  <2> DEFINE intret == IF ca.done THEN ca.intret ELSE timeout_failure
             g == get(ca.un, call.rtype)
  <2>1. /\ UNCHANGED <<now, call, final, next, curr_to, start, ca>> /\ pc = "out" /\ pc' = "returned"
        /\ out' = IF intret < 0 THEN [ret |-> intret, val |-> <<>>]
                  ELSE [ret |-> IF okdone(g.u) THEN intret ELSE unmarshal_reply_failure, val |-> g.val]
    BY <1>7 DEF call_m
  <2>2. Due' = Due /\ InTime' = InTime
    BY <1>C, <2>1 DEF InTime
  <2>3. TimeTypes'
    BY <1>0, <2>1 DEF TimeTypes
  <2>4. out'.ret = intret \/ out'.ret = unmarshal_reply_failure
    <3> HIDE DEF intret, g
    <3> QED BY <2>1
  <2>5. ca.done => intret # timeout_failure
    BY RetsAreInts DEF MarshalInv, Served
  <2>6. out'.ret = timeout_failure => ~ca.done
    BY <2>4, <2>5 DEF unmarshal_reply_failure, timeout_failure
  <2>7. ~ca.done => InTime
    BY <2>1 DEF TimeInv
  <2> QED BY <2>1, <2>2, <2>3, <2>6, <2>7 DEF TimeInv
<1>8. CASE dispatch \/ Break \/ UNCHANGED vars
  <2>1. UNCHANGED <<now, call, pc, final, next, curr_to, start, ca, out>>
    BY <1>8 DEF dispatch, Break, vars
  <2>2. /\ Due' = Due /\ InTime' = InTime /\ Total(final)' = Total(final) /\ Total(next)' = Total(next)
        /\ IsValid(next)' = IsValid(next)
    BY <1>C, <2>1 DEF InTime, Total, IsValid
  <2>3. TimeTypes'
    BY <1>0, <2>1 DEF TimeTypes
  <2> QED BY <2>1, <2>2, <2>3 DEF TimeInv
<1>9. CASE got_pdu
  <2>1. /\ UNCHANGED <<now, call, pc, final, next, curr_to, start, out>>
        /\ pc \in {"top", "set", "waiting", "out"}
        /\ ca'.done \/ ca' = ca
    BY <1>9 DEF got_pdu, Pending
  <2>2. /\ Due' = Due /\ InTime' = InTime /\ Total(final)' = Total(final) /\ Total(next)' = Total(next)
        /\ IsValid(next)' = IsValid(next)
    BY <1>C, <2>1 DEF InTime, Total, IsValid
  <2>3. TimeTypes'
    BY <1>0, <2>1 DEF TimeTypes
  <2> QED BY <2>1, <2>2, <2>3 DEF TimeInv
<1>10. CASE Tick
  <2>1. /\ UNCHANGED <<call, pc, final, next, curr_to, start, ca, out>> /\ pc = "waiting"
        /\ now' = now + 1 /\ (IsValid(next) => now < Total(next) + Late)
    BY <1>10 DEF Tick
  <2>2. /\ Due' = Due /\ Total(final)' = Total(final) /\ Total(next)' = Total(next)
        /\ IsValid(next)' = IsValid(next)
    BY <1>C, <2>1 DEF Total, IsValid
  <2>3. TimeTypes'
    BY <1>0, <2>1 DEF TimeTypes
  <2>4. IsValid(next) => now' <= Total(next) + Late
    BY <1>N, <2>1
  <2> QED BY <2>1, <2>2, <2>3, <2>4 DEF TimeInv
<1> QED BY <1>1, <1>2, <1>3, <1>4, <1>5, <1>6, <1>7, <1>8, <1>9, <1>10 DEF Next, Caller

(* A call times out when its whole timeout has passed and no later than    *)
(* its thread is late, for any timeout, any units and any start: the waits *)
(* that double from to_min, the cut at finaldeadline, and add_timespec's   *)
(* carry neither lose nor gain time.                                       *)
THEOREM TimeoutsAreInTime == Spec => []TimeoutInTime
<1>1. Init => TimeInv
  BY TimeInit
<1>2. TimeInv /\ MarshalInv /\ [Next]_vars => TimeInv'
  BY TimeNext
<1>3. TimeInv => TimeoutInTime
  <2> SUFFICES ASSUME TimeInv, pc = "returned", out.ret = timeout_failure
               PROVE  Elapsed \in call.to * NsPerMs .. call.to * NsPerMs + Late
    BY DEF TimeoutInTime
  <2>1. InTime /\ TimeTypes
    BY DEF TimeInv
  <2>2. call.to \in Nat /\ Late \in Nat /\ now \in Nat /\ start \in Nat
    BY <2>1, DueIsNumber DEF TimeTypes
  <2>3. PICK t \in Nat : t = call.to * NsPerMs
    BY <2>2, Units
  <2>4. start + t <= now /\ now <= start + t + Late
    BY <2>1, <2>3 DEF InTime, Due
  <2> QED BY <2>2, <2>3, <2>4 DEF Elapsed
<1> QED BY <1>1, <1>2, <1>3, MarshalAlways, PTL DEF Spec

-----------------------------------------------------------------------------
(* Integers of any width.                                                  *)

LEMMA PowerStep ==
    ASSUME NEW k \in 1 .. 8
    PROVE  Power[k] = Power[k - 1] * Byte /\ Power[k] \in Nat \ {0} /\ Power[k - 1] \in Nat \ {0}
<1>1. k \in 0 .. 8 /\ k - 1 \in 0 .. 8
  OBVIOUS
<1> QED BY <1>1, Powers

(* g[i] is the number that bytes b[1] to b[i] spell.                       *)
Spells(g, b, n) == /\ g[0] = 0
                   /\ \A i \in 1 .. n : g[i] = g[i - 1] * Byte + b[i]

(* Induction up to a bound.                                                *)
LEMMA UpTo ==
    ASSUME NEW n \in Nat, NEW S, 0 \in S, \A i \in 1 .. n : i - 1 \in S => i \in S
    PROVE  \A i \in 0 .. n : i \in S
<1> DEFINE R == {i \in Nat : i <= n => i \in S}
<1>1. 0 \in R
  OBVIOUS
<1>2. ASSUME NEW i \in Nat, i \in R PROVE i + 1 \in R
  <2> SUFFICES ASSUME i + 1 <= n PROVE i + 1 \in S
    OBVIOUS
  <2>1. i + 1 \in 1 .. n /\ (i + 1) - 1 = i /\ i <= n
    OBVIOUS
  <2>2. i \in S
    BY <1>2, <2>1
  <2> QED BY <2>1, <2>2
<1> HIDE DEF R
<1>3. \A i \in Nat : i \in R
  BY <1>1, <1>2, NatIsInductive
<1> QED BY <1>3 DEF R

(* Bytes spell a number whose bytes they are.                              *)
LEMMA SpelledBytes ==
    ASSUME NEW n \in 0 .. 8, NEW g, NEW b, Spells(g, b, n), \A i \in 1 .. n : b[i] \in 0 .. Byte - 1
    PROVE  /\ \A i \in 0 .. n : g[i] \in 0 .. Power[i] - 1
           /\ \A i \in 1 .. n : ByteOf(g[n], n - i) = b[i]
<1>0. Byte \in Nat \ {0} /\ Power[0] = 1
  BY Powers
<1>1. \A i \in 1 .. n : i \in 1 .. 8
  OBVIOUS
<1> DEFINE S == {i \in 0 .. n : g[i] \in 0 .. Power[i] - 1}
<1>2. 0 \in S
  BY <1>0 DEF Spells
<1>3. ASSUME NEW i \in 1 .. n, i - 1 \in S PROVE i \in S
  <2>1. PICK x \in Nat : x = g[i - 1] /\ x <= Power[i - 1] - 1
    BY <1>1, <1>3, PowerStep
  <2>2. PICK p \in Nat \ {0} : p = Power[i - 1] /\ Power[i] = p * Byte
    BY <1>1, PowerStep
  <2>3. PICK c \in 0 .. Byte - 1 : c = b[i]
    OBVIOUS
  <2>4. g[i] = x * Byte + c
    BY <2>1, <2>3 DEF Spells
  <2>5. (p - 1 - x) * Byte >= 0 /\ (p - 1 - x) * Byte = p * Byte - Byte - x * Byte
        /\ x * Byte \in Nat /\ p * Byte \in Nat
    BY <1>0, <2>1, <2>2
  <2> QED BY <1>0, <2>2, <2>4, <2>5
<1>4. \A i \in 0 .. n : i \in S
  <2> HIDE DEF S
  <2> QED BY <1>2, <1>3, UpTo
<1>5. \A i \in 0 .. n : g[i] \in Nat
  BY <1>4
<1>6. ASSUME NEW i \in 1 .. n PROVE g[i] \div Byte = g[i - 1] /\ g[i] % Byte = b[i]
  <2>1. PICK x \in Nat : x = g[i - 1]
    BY <1>5
  <2>2. PICK c \in 0 .. Byte - 1 : c = b[i]
    OBVIOUS
  <2>3. PICK y \in Nat : y = g[i]
    BY <1>5
  <2>4. y = x * Byte + c
    BY <2>1, <2>2, <2>3 DEF Spells
  <2>5. y \div Byte = x /\ y % Byte = c
    <3>1. y \in Int /\ x \in Int
      OBVIOUS
    <3> QED BY <1>0, <2>4, <3>1, DivUnique
  <2> QED BY <2>1, <2>2, <2>3, <2>5
<1> DEFINE R == {k \in 0 .. n : g[n] \div Power[k] = g[n - k]}
<1>7. 0 \in R
  BY <1>0, <1>5
<1>8. ASSUME NEW k \in 1 .. n, k - 1 \in R PROVE k \in R
  <2>1. PICK y \in Nat : y = g[n]
    BY <1>5
  <2>2. PICK p \in Nat \ {0} : p = Power[k - 1] /\ Power[k] = p * Byte
    BY <1>1, PowerStep
  <2>3. PICK j \in 1 .. n : j = n - (k - 1)
    OBVIOUS
  <2>4. y \div p = g[j]
    BY <1>8, <2>1, <2>2, <2>3
  <2>5. (y \div p) \div Byte = y \div (p * Byte)
    <3>1. y \in Int
      OBVIOUS
    <3> QED BY <1>0, <3>1, DivTwice
  <2>6. g[j] \div Byte = g[j - 1] /\ j - 1 = n - k
    BY <1>6, <2>3
  <2> QED BY <2>1, <2>2, <2>4, <2>5, <2>6
<1>9. \A k \in 0 .. n : k \in R
  <2> HIDE DEF R
  <2> QED BY <1>7, <1>8, UpTo
<1>10. ASSUME NEW i \in 1 .. n PROVE ByteOf(g[n], n - i) = b[i]
  <2>1. n - i \in 0 .. n /\ n - (n - i) = i
    OBVIOUS
  <2>2. g[n] \div Power[n - i] = g[i]
    BY <1>9, <2>1
  <2> QED BY <1>6, <2>2 DEF ByteOf
<1> QED BY <1>4, <1>10

(* The bytes of x spell it, up to multiples of Power[n].                   *)
LEMMA BytesSpell ==
    ASSUME NEW n \in 0 .. 8, NEW g, NEW b, Spells(g, b, n), NEW x \in Int,
           \A i \in 1 .. n : b[i] = ByteOf(x, n - i)
    PROVE  g[n] = x % Power[n]
<1>0. Byte \in Nat \ {0} /\ Power[0] = 1
  BY Powers
<1> DEFINE S == {i \in 0 .. n : g[i] = (x \div Power[n - i]) % Power[i]}
<1>1. 0 \in S
  <2>1. PICK p \in Nat \ {0} : p = Power[n]
    BY Powers
  <2>2. PICK q \in Int : q = x \div p
    BY DivMod
  <2>3. q % 1 = 0
    BY <2>2
  <2> QED BY <1>0, <2>1, <2>2, <2>3 DEF Spells
<1>2. ASSUME NEW i \in 1 .. n, i - 1 \in S PROVE i \in S
  <2>1. n - i \in 0 .. 8 /\ n - (i - 1) = (n - i) + 1 /\ (n - i) + 1 \in 1 .. 8 /\ ((n - i) + 1) - 1 = n - i
        /\ i \in 1 .. 8
    OBVIOUS
  <2>2. PICK p \in Nat \ {0} : p = Power[n - i] /\ Power[(n - i) + 1] = p * Byte
    BY <2>1, PowerStep
  <2>3. PICK d \in Nat \ {0} : d = Power[i - 1] /\ Power[i] = d * Byte
    BY <2>1, PowerStep
  <2>4. PICK y \in Int : y = x \div p
    BY DivMod
  <2>5. PICK q \in Int : q = y \div Byte
    BY <1>0, DivMod
  <2>6. q = x \div (p * Byte)
    BY <1>0, <2>4, <2>5, DivTwice
  <2>7. PICK c \in 0 .. Byte - 1 : c = y % Byte /\ y = q * Byte + c
    BY <1>0, <2>5, DivMod
  <2>8. b[i] = c
    BY <2>1, <2>2, <2>4, <2>7 DEF ByteOf
  <2>9. PICK t \in 0 .. d - 1 : t = q % d
    BY DivMod
  <2>10. PICK s \in Int : q = s * d + t
    BY <2>9, DivMod
  <2>11. g[i - 1] = t
    BY <1>2, <2>1, <2>2, <2>3, <2>6, <2>9
  <2>12. g[i] = t * Byte + c
    BY <2>8, <2>11 DEF Spells
  <2>13. y = s * (d * Byte) + (t * Byte + c)
    <3>1. (s * d + t) * Byte = s * (d * Byte) + t * Byte
      BY <1>0
    <3>2. s * (d * Byte) \in Int /\ t * Byte \in Int
      BY <1>0
    <3> QED BY <2>7, <2>10, <3>1, <3>2
  <2>14. d * Byte \in Nat \ {0} /\ t * Byte + c \in 0 .. d * Byte - 1
    <3>1. (d - 1 - t) * Byte >= 0 /\ (d - 1 - t) * Byte = d * Byte - Byte - t * Byte
          /\ t * Byte \in Nat /\ d * Byte \in Nat \ {0}
      BY <1>0
    <3> QED BY <1>0, <3>1
  <2>15. PICK e \in Nat \ {0} : e = d * Byte
    BY <2>14
  <2>16. PICK m \in 0 .. e - 1 : m = t * Byte + c
    BY <2>14, <2>15
  <2>17. y % e = m
    BY <2>13, <2>15, <2>16, DivUnique
  <2> QED BY <2>2, <2>3, <2>4, <2>12, <2>15, <2>16, <2>17
<1>3. \A i \in 0 .. n : i \in S
  <2> HIDE DEF S
  <2> QED BY <1>1, <1>2, UpTo
<1>4. n \in S /\ n - n = 0
  BY <1>3
<1>5. g[n] = (x \div 1) % Power[n]
  BY <1>0, <1>4
<1> QED BY <1>5

(* Any bytes spell a number.                                               *)
LEMMA SpellingExists ==
    ASSUME NEW b, NEW n \in Nat
    PROVE  \E f : f = [i \in 0 .. n |-> IF i = 0 THEN 0 ELSE f[i - 1] * Byte + b[i]]
<1> DEFINE F(f, k) == [i \in 0 .. k |-> IF i = 0 THEN 0 ELSE f[i - 1] * Byte + b[i]]
           S == {k \in Nat : \E f : f = F(f, k)}
<1>1. 0 \in S
  <2>1. [i \in 0 .. 0 |-> 0] = F([i \in 0 .. 0 |-> 0], 0)
    OBVIOUS
  <2> HIDE DEF F
  <2> QED BY <2>1
<1>2. ASSUME NEW k \in Nat, k \in S PROVE k + 1 \in S
  <2>1. PICK f : f = F(f, k)
    BY <1>2
  <2> DEFINE g == [i \in 0 .. k + 1 |-> IF i <= k THEN f[i] ELSE f[k] * Byte + b[k + 1]]
  <2>2. ASSUME NEW i \in 0 .. k + 1 PROVE g[i] = F(g, k + 1)[i]
    <3>1. CASE i = 0
      <4>1. f[0] = 0 /\ g[0] = f[0]
        BY <2>1
      <4> QED BY <3>1, <4>1
    <3>2. CASE i \in 1 .. k
      <4>1. f[i] = f[i - 1] * Byte + b[i]
        BY <2>1, <3>2
      <4>2. g[i] = f[i] /\ g[i - 1] = f[i - 1]
        BY <3>2
      <4> QED BY <3>2, <4>1, <4>2
    <3>3. CASE i = k + 1
      <4>1. g[k + 1] = f[k] * Byte + b[k + 1] /\ g[k] = f[k]
        OBVIOUS
      <4>2. F(g, k + 1)[k + 1] = g[k] * Byte + b[k + 1]
        <5> HIDE DEF g
        <5>1. (k + 1) - 1 = k /\ k + 1 # 0 /\ k + 1 \in 0 .. k + 1
          OBVIOUS
        <5> QED BY <5>1
      <4> QED BY <3>3, <4>1, <4>2
    <3> QED BY <3>1, <3>2, <3>3
  <2>3. g = F(g, k + 1)
    BY <2>2
  <2> HIDE DEF F, g
  <2> QED BY <2>3
<1>3. n \in S
  <2> HIDE DEF S
  <2> QED BY <1>1, <1>2, NatIsInductive
<1> QED BY <1>3

LEMMA FixpointSpells ==
    ASSUME NEW b, NEW n \in Nat, NEW f, f = [i \in 0 .. n |-> IF i = 0 THEN 0 ELSE f[i - 1] * Byte + b[i]]
    PROVE  Spells(f, b, n)
<1>1. f[0] = 0
  OBVIOUS
<1>2. ASSUME NEW i \in 1 .. n PROVE f[i] = f[i - 1] * Byte + b[i]
  OBVIOUS
<1> QED BY <1>1, <1>2 DEF Spells

(* What GetBytes returns is what the next bytes spell.                     *)
LEMMA NumberSpells ==
    ASSUME NEW u, NEW n \in Nat
    PROVE  \E g : Spells(g, [i \in 1 .. n |-> ByteAt(u, i)], n) /\ GetBytes(u, n).val = g[n]
<1> DEFINE at(i) == ByteAt(u, i)
           b == [i \in 1 .. n |-> at(i)]
           F(f) == [i \in 0 .. n |-> IF i = 0 THEN 0 ELSE f[i - 1] * Byte + at(i)]
           G(f) == [i \in 0 .. n |-> IF i = 0 THEN 0 ELSE f[i - 1] * Byte + b[i]]
           num == CHOOSE f : f = F(f)
<1>0. GetBytes(u, n).val = num[n]
  BY DEF GetBytes, ByteAt
<1> HIDE DEF at
<1>1. ASSUME NEW f PROVE F(f) = G(f)
  <2>1. \A i \in 0 .. n : i # 0 => b[i] = at(i)
    OBVIOUS
  <2> HIDE DEF b
  <2> QED BY <2>1
<1>2. \E f : f = G(f)
  <2> HIDE DEF b
  <2> QED BY SpellingExists
<1>3. num = G(num)
  <2> HIDE DEF F, G
  <2> QED BY <1>1, <1>2
<1>4. Spells(num, b, n)
  <2> HIDE DEF num, b
  <2> QED BY <1>3, FixpointSpells
<1> QED BY <1>0, <1>4 DEF at

LEMMA WidthIs == ASSUME NEW t \in DOMAIN Width PROVE Width[t] \in {1, 2, 4, 8}
  BY DEF Width

(* Powers of an even Byte are even, except the first.                      *)
LEMMA PowerIsEven ==
    ASSUME NEW n \in 1 .. 8
    PROVE  \E k \in Nat : Power[n] = 2 * k /\ Power[n] \div 2 = k /\ Power[n] \in Nat \ {0}
<1>1. PICK p \in Nat \ {0} : p = Power[n - 1] /\ Power[n] = p * Byte
  BY PowerStep
<1>2. PICK b \in Nat \ {0} : Byte = 2 * b
  <2>1. PICK a \in Nat \ {0} : a = Byte /\ a % 2 = 0
    BY ByteAssumption
  <2>2. a = 2 * (a \div 2) /\ a \div 2 \in Nat \ {0}
    BY <2>1
  <2> QED BY <2>1, <2>2
<1>3. PICK k \in Nat : k = p * b
  OBVIOUS
<1>4. p * Byte = 2 * k
  BY <1>2, <1>3
<1>5. (2 * k) \div 2 = k
  OBVIOUS
<1>6. Power[n] \in Nat \ {0}
  BY PowerStep
<1> QED BY <1>1, <1>4, <1>5, <1>6

(* An integer of a type, reduced to its bits, comes back.                  *)
LEMMA BitsReturn ==
    ASSUME NEW n \in 1 .. 8, NEW x \in Int
    PROVE  /\ x \in 0 .. Power[n] - 1 => x % Power[n] = x
           /\ x \in -(Power[n] \div 2) .. Power[n] \div 2 - 1 => AsSigned(x % Power[n], n) = x
<1>1. PICK k \in Nat : Power[n] = 2 * k /\ Power[n] \div 2 = k /\ Power[n] \in Nat \ {0}
  BY PowerIsEven
<1>2. PICK P \in Nat \ {0} : P = Power[n] /\ P = 2 * k
  BY <1>1
<1>3. ASSUME x >= 0, x < P PROVE x % P = x
  <2>1. x = 0 * P + x /\ x \in 0 .. P - 1
    BY <1>3
  <2> QED BY <2>1, DivUnique
<1>4. ASSUME x < 0, x >= -k PROVE x % P = x + P
  <2>1. x = (-1) * P + (x + P) /\ x + P \in 0 .. P - 1
    BY <1>2, <1>4
  <2> QED BY <2>1, DivUnique
<1>5. ASSUME x \in -k .. k - 1 PROVE AsSigned(x % P, n) = x
  <2>1. CASE x >= 0
    <3>1. x % P = x /\ ~(2 * x >= P)
      BY <1>2, <1>3, <1>5, <2>1
    <3> QED BY <1>2, <3>1 DEF AsSigned
  <2>2. CASE x < 0
    <3>1. x % P = x + P /\ 2 * (x + P) >= P /\ (x + P) - P = x
      BY <1>2, <1>4, <1>5, <2>2
    <3> QED BY <1>2, <3>1 DEF AsSigned
  <2> QED BY <2>1, <2>2
<1> QED BY <1>1, <1>2, <1>3, <1>5

(* A signed integer has the bits it was made from, and is one of its type. *)
LEMMA SignedReturn ==
    ASSUME NEW n \in 1 .. 8, NEW y \in 0 .. Power[n] - 1
    PROVE  /\ AsSigned(y, n) \in Int /\ AsSigned(y, n) % Power[n] = y /\ y % Power[n] = y
           /\ AsSigned(y, n) \in -(Power[n] \div 2) .. Power[n] \div 2 - 1
<1>1. PICK k \in Nat : Power[n] = 2 * k /\ Power[n] \div 2 = k /\ Power[n] \in Nat \ {0}
  BY PowerIsEven
<1>2. PICK P \in Nat \ {0} : P = Power[n] /\ P = 2 * k
  BY <1>1
<1>3. y \in 0 .. P - 1 /\ y \in Int
  BY <1>2
<1>4. y % P = y
  <2>1. y = 0 * P + y
    BY <1>3
  <2> QED BY <1>3, <2>1, DivUnique
<1>5. (y - P) % P = y
  <2>1. PICK z \in Int : z = y - P
    BY <1>3
  <2>2. z = (-1) * P + y
    BY <1>3, <2>1
  <2> QED BY <1>3, <2>1, <2>2, DivUnique
<1>6. AsSigned(y, n) = IF 2 * y >= P THEN y - P ELSE y
  BY <1>2 DEF AsSigned
<1>7. CASE 2 * y >= P
  BY <1>1, <1>2, <1>3, <1>4, <1>5, <1>6, <1>7
<1>8. CASE ~(2 * y >= P)
  BY <1>1, <1>2, <1>3, <1>4, <1>6, <1>8
<1> QED BY <1>7, <1>8

AreBytes(b, n) == \A i \in 1 .. n : b[i] \in 0 .. Byte - 1

(* The bytes of x.                                                         *)
BytesAre(x, n, b) == \A i \in 1 .. n : ByteOf(x, n - i) = b[i]

(* Bytes depend on the bits alone.                                         *)
LEMMA SameBits ==
    ASSUME NEW n \in 1 .. 8, NEW x \in Int, NEW g, NEW b, Spells(g, b, n),
           AreBytes(b, n), x % Power[n] = g[n]
    PROVE  BytesAre(x, n, b)
<1>0. n \in Nat /\ n \in 0 .. 8
  OBVIOUS
<1> DEFINE c == [i \in 1 .. n |-> ByteOf(x, n - i)]
<1>1. \A i \in 1 .. n : c[i] \in 0 .. Byte - 1
  <2>1. \A i \in 1 .. n : n - i \in 0 .. 8
    OBVIOUS
  <2> QED BY <2>1, ByteIsByte
<1>2. \A i \in 1 .. n : c[i] = ByteOf(x, n - i)
  OBVIOUS
<1> HIDE DEF c
<1>3. PICK f : Spells(f, c, n)
  <2>1. PICK f : f = [i \in 0 .. n |-> IF i = 0 THEN 0 ELSE f[i - 1] * Byte + c[i]]
    BY <1>0, SpellingExists
  <2> QED BY <1>0, <2>1, FixpointSpells
<1>4. f[n] = x % Power[n]
  BY <1>0, <1>2, <1>3, BytesSpell
<1>5. \A i \in 1 .. n : ByteOf(f[n], n - i) = c[i]
  BY <1>0, <1>1, <1>3, SpelledBytes
<1>6. \A i \in 1 .. n : ByteOf(g[n], n - i) = b[i]
  BY <1>0, SpelledBytes DEF AreBytes
<1> QED BY <1>2, <1>4, <1>5, <1>6 DEF BytesAre

-----------------------------------------------------------------------------
(* Bytes in a buffer.                                                      *)

ByteSet == 0 .. Byte - 1

(* The bytes s stand in b from place q on.                                 *)
Lies(b, q, s) == q + Len(s) <= Len(b) /\ \A i \in 1 .. Len(s) : b[q + i] = s[i]

(* The sequence of s and then t.                                           *)
Joined(s, t, S, c) == /\ c \in Seq(S) /\ Len(c) = Len(s) + Len(t)
                      /\ \A i \in 1 .. Len(s) : c[i] = s[i]
                      /\ \A i \in 1 .. Len(t) : c[Len(s) + i] = t[i]

LEMMA ConcatIs ==
    ASSUME NEW S, NEW s \in Seq(S), NEW t \in Seq(S)
    PROVE  Joined(s, t, S, s \o t)
<1>1. /\ s \o t \in Seq(S) /\ Len(s \o t) = Len(s) + Len(t)
      /\ \A i \in 1 .. Len(s) + Len(t) : (s \o t)[i] = IF i <= Len(s) THEN s[i] ELSE t[i - Len(s)]
  BY ConcatProperties
<1>2. Len(s) \in Nat /\ Len(t) \in Nat
  BY LenProperties
<1>3. ASSUME NEW i \in 1 .. Len(s) PROVE (s \o t)[i] = s[i]
  <2>1. i \in 1 .. Len(s) + Len(t) /\ i <= Len(s)
    BY <1>2
  <2> QED BY <1>1, <2>1
<1>4. ASSUME NEW i \in 1 .. Len(t) PROVE (s \o t)[Len(s) + i] = t[i]
  <2>1. Len(s) + i \in 1 .. Len(s) + Len(t) /\ ~(Len(s) + i <= Len(s)) /\ (Len(s) + i) - Len(s) = i
    BY <1>2
  <2> QED BY <1>1, <2>1
<1> QED BY <1>1, <1>3, <1>4 DEF Joined

(* What << writes for an integer.                                          *)
LEMMA EncInt ==
    ASSUME NEW v, v.type \in DOMAIN Width, NEW x \in Int, v.val[1] = x
    PROVE  /\ Enc(v) \in Seq(ByteSet) /\ Len(Enc(v)) = Width[v.type]
           /\ \A i \in 1 .. Width[v.type] : Enc(v)[i] = ByteOf(x, Width[v.type] - i)
<1>1. PICK w \in 1 .. 8 : w = Width[v.type]
  BY WidthIs
<1>2. v.type # "string"
  BY DEF Width
<1>3. Enc(v) = BigEndian(x, w)
  BY <1>1, <1>2 DEF Enc
<1>4. \A k \in 0 .. w - 1 : ByteOf(x, k) \in ByteSet
  <2>1. \A k \in 0 .. w - 1 : k \in 0 .. 8
    OBVIOUS
  <2> QED BY <2>1, ByteIsByte DEF ByteSet
<1>5. BigEndian(x, w) \in Seq(ByteSet) /\ Len(BigEndian(x, w)) = w
  <2>1. w \in Nat
    OBVIOUS
  <2> QED BY <1>4, <2>1, BigEndianSeq
<1>6. \A i \in 1 .. w : BigEndian(x, w)[i] = ByteOf(x, w - i)
  BY DEF BigEndian
<1> QED BY <1>1, <1>3, <1>5, <1>6

(* And for a string.                                                       *)
LEMMA EncString ==
    ASSUME NEW v, v.type = "string", NEW s \in Seq(ByteSet), v.val = s
    PROVE  /\ Enc(v) \in Seq(ByteSet) /\ Len(Enc(v)) = 4 + Len(s)
           /\ \A i \in 1 .. 4 : Enc(v)[i] = ByteOf(Len(s), 4 - i)
           /\ \A i \in 1 .. Len(s) : Enc(v)[4 + i] = s[i]
<1>1. PICK n \in Nat : n = Len(s)
  BY LenProperties
<1>2. PICK e : e = BigEndian(n, 4)
  OBVIOUS
<1>3. Enc(v) = e \o s
  BY <1>1, <1>2, Sizes DEF Enc
<1>5. e \in Seq(ByteSet) /\ Len(e) = 4
  <2>1. n \in Int /\ 0 .. Byte - 1 \subseteq ByteSet
    BY DEF ByteSet
  <2>2. BigEndian(n, 4) \in Seq(ByteSet) /\ Len(BigEndian(n, 4)) = 4
    BY <2>1, FirstInt
  <2> QED BY <1>2, <2>2
<1>6. \A i \in 1 .. 4 : e[i] = ByteOf(n, 4 - i)
  BY <1>2 DEF BigEndian
<1>7. Joined(e, s, ByteSet, e \o s)
  BY <1>5, ConcatIs
<1> QED BY <1>1, <1>3, <1>5, <1>6, <1>7 DEF Joined

(* n bytes that are there are read as the number they spell.               *)
NumberAt(b, q, n, y) ==
    /\ GetBytes(At(b, q), n) = [val |-> y, u |-> At(b, q + n)]
    /\ \A x \in Int : (x % Power[n] = y) => \A i \in 1 .. n : ByteOf(x, n - i) = b[q + i]
    /\ \A x \in Int : (\A i \in 1 .. n : ByteOf(x, n - i) = b[q + i]) => y = x % Power[n]

LEMMA GetsBytes ==
    ASSUME NEW T, NEW b \in Seq(T), NEW q \in Nat, NEW n \in 1 .. 8, q + n <= Len(b),
           \A i \in 1 .. n : b[q + i] \in ByteSet
    PROVE  \E y \in 0 .. Power[n] - 1 : NumberAt(b, q, n, y)
<1>1. Len(b) \in Nat /\ n <= Len(b) - q
  BY LenProperties
<1>2. PICK u : u = At(b, q)
  OBVIOUS
<1>3. u.buf = b /\ u.ind = q
  BY <1>2 DEF At
<1> DEFINE c == [i \in 1 .. n |-> ByteAt(u, i)]
<1>4. \A i \in 1 .. n : c[i] = b[q + i]
  <2>1. \A i \in 1 .. n : i <= Len(b) - q
    BY <1>1
  <2> QED BY <1>3, <2>1 DEF ByteAt
<1>5. PICK g : Spells(g, c, n) /\ GetBytes(u, n).val = g[n]
  <2>1. n \in Nat
    OBVIOUS
  <2> QED BY <2>1, NumberSpells
<1> HIDE DEF c
<1>6. \A i \in 1 .. n : c[i] \in 0 .. Byte - 1
  BY <1>4 DEF ByteSet
<1>7. n \in 0 .. 8
  OBVIOUS
<1>8. g[n] \in 0 .. Power[n] - 1
  BY <1>5, <1>6, <1>7, SpelledBytes
<1>9. PICK y \in 0 .. Power[n] - 1 : y = g[n]
  BY <1>8
<1>10. GetBytes(u, n).u = At(b, q + n)
  <2>1. GetBytes(u, n).u = [u EXCEPT !.ind = @ + n]
    BY <1>1, <1>3 DEF GetBytes
  <2>2. [u EXCEPT !.ind = @ + n] = [u EXCEPT !.ind = q + n]
    BY <1>3
  <2> QED BY <1>2, <2>1, <2>2, IndSet
<1>11. GetBytes(u, n) = [val |-> GetBytes(u, n).val, u |-> GetBytes(u, n).u]
  <2>1. \E x, w : GetBytes(u, n) = [val |-> x, u |-> w]
    BY Zenon DEF GetBytes
  <2> QED BY <2>1
<1>12. ASSUME NEW x \in Int, x % Power[n] = y PROVE \A i \in 1 .. n : ByteOf(x, n - i) = b[q + i]
  <2>1. \A i \in 1 .. n : ByteOf(x, n - i) = c[i]
    <3>1. AreBytes(c, n) /\ x % Power[n] = g[n]
      BY <1>6, <1>9, <1>12 DEF AreBytes
    <3>2. BytesAre(x, n, c)
      BY <1>5, <3>1, SameBits
    <3> QED BY <3>2 DEF BytesAre
  <2> QED BY <1>4, <2>1
<1>13. ASSUME NEW x \in Int, \A i \in 1 .. n : ByteOf(x, n - i) = b[q + i] PROVE y = x % Power[n]
  <2>1. \A i \in 1 .. n : c[i] = ByteOf(x, n - i)
    BY <1>4, <1>13
  <2> QED BY <1>5, <1>7, <1>9, <2>1, BytesSpell
<1>14. GetBytes(At(b, q), n) = [val |-> y, u |-> At(b, q + n)]
  BY <1>2, <1>5, <1>9, <1>10, <1>11
<1> QED BY <1>12, <1>13, <1>14 DEF NumberAt

(* Bytes that are not there are not read.                                  *)
LEMMA GetsPast ==
    ASSUME NEW T, NEW b \in Seq(T), NEW q \in Nat, NEW n \in 1 .. 8, q + n > Len(b)
    PROVE  GetBytes(At(b, q), n).u.ok = FALSE
<1>1. Len(b) \in Nat /\ ~(n <= Len(b) - q)
  BY LenProperties
<1>2. PICK u : u = At(b, q)
  OBVIOUS
<1>3. u.buf = b /\ u.ind = q /\ DOMAIN u = {"buf", "ind", "ok"}
  BY <1>2 DEF At
<1>4. \E k : GetBytes(u, n).u = [u EXCEPT !.ind = k, !.ok = FALSE]
  BY <1>1, <1>3 DEF GetBytes
<1>5. \A k : [u EXCEPT !.ind = k, !.ok = FALSE].ok = FALSE
  BY <1>3
<1> QED BY <1>2, <1>4, <1>5

(* The bytes of x stand in b from place q on.                              *)
Stands(b, q, n, x) == \A i \in 1 .. n : ByteOf(x, n - i) = b[q + i]

(* An integer of type t is read as x, the only one with the bytes read.    *)
ReadsAs(b, q, t, x) ==
    /\ get(At(b, q), t) = [val |-> <<x>>, u |-> At(b, q + Width[t])]
    /\ Stands(b, q, Width[t], x)
    /\ \A z \in ValuesOf(t) : Stands(b, q, Width[t], z) => z = x

LEMMA ReadsInteger ==
    ASSUME NEW T, NEW b \in Seq(T), NEW q \in Nat, NEW t \in DOMAIN Width, q + Width[t] <= Len(b),
           \A i \in 1 .. Width[t] : b[q + i] \in ByteSet
    PROVE  \E x \in ValuesOf(t) : x \in Int /\ ReadsAs(b, q, t, x)
<1>1. PICK n \in 1 .. 8 : n = Width[t]
  BY WidthIs
<1>2. t # "string"
  BY DEF Width
<1>3. PICK y \in 0 .. Power[n] - 1 : NumberAt(b, q, n, y)
  <2>1. q + n <= Len(b) /\ \A i \in 1 .. n : b[q + i] \in ByteSet
    BY <1>1
  <2> QED BY <2>1, GetsBytes
<1>4. PICK P \in Nat \ {0} : P = Power[n]
  BY PowerIsEven
<1> DEFINE x == IF t \in SignedTypes THEN AsSigned(y, n) ELSE y
<1>5. get(At(b, q), t) = [val |-> <<x>>, u |-> At(b, q + n)]
  BY <1>1, <1>2, <1>3 DEF get, NumberAt
<1>6. x \in Int /\ x % Power[n] = y /\ x \in ValuesOf(t)
  <2>1. y \in Int /\ y % Power[n] = y
    <3>1. y % Power[n] = y
      BY SignedReturn
    <3> QED BY <1>4, <3>1
  <2>2. CASE t \in SignedTypes
    <3>1. /\ AsSigned(y, n) \in Int /\ AsSigned(y, n) % Power[n] = y
          /\ AsSigned(y, n) \in -(Power[n] \div 2) .. Power[n] \div 2 - 1
      BY SignedReturn
    <3> QED BY <1>1, <2>2, <3>1 DEF ValuesOf
  <2>3. CASE t \notin SignedTypes
    BY <1>1, <2>1, <2>3 DEF ValuesOf
  <2> QED BY <2>2, <2>3
<1>7. Stands(b, q, n, x)
  <2> HIDE DEF x
  <2> QED BY <1>3, <1>6 DEF NumberAt, Stands
<1>8. ASSUME NEW z \in ValuesOf(t), Stands(b, q, n, z) PROVE z = x
  <2>1. PICK k \in Nat : P = 2 * k /\ P \div 2 = k
    BY <1>4, PowerIsEven
  <2>2. CASE t \in SignedTypes
    <3>1. z \in -(Power[n] \div 2) .. Power[n] \div 2 - 1
      BY <1>1, <2>2 DEF ValuesOf
    <3>2. z \in Int
      BY <1>4, <2>1, <3>1
    <3>3. y = z % Power[n]
      BY <1>3, <1>8, <3>2 DEF NumberAt, Stands
    <3>4. AsSigned(z % Power[n], n) = z
      BY <3>1, <3>2, BitsReturn
    <3> QED BY <2>2, <3>3, <3>4
  <2>3. CASE t \notin SignedTypes
    <3>1. z \in 0 .. Power[n] - 1
      BY <1>1, <2>3 DEF ValuesOf
    <3>2. z \in Int
      BY <1>4, <3>1
    <3>3. y = z % Power[n]
      BY <1>3, <1>8, <3>2 DEF NumberAt, Stands
    <3>4. z % Power[n] = z
      BY <3>1, <3>2, BitsReturn
    <3> QED BY <2>3, <3>3, <3>4
  <2> QED BY <2>2, <2>3
<1> HIDE DEF x
<1>9. ReadsAs(b, q, t, x)
  BY <1>1, <1>5, <1>7, <1>8 DEF ReadsAs
<1> QED BY <1>6, <1>9

LEMMA ModSmall == ASSUME NEW P \in Nat \ {0}, NEW e \in Nat, e < P PROVE e % P = e
<1>1. e = 0 * P + e /\ e \in 0 .. P - 1 /\ e \in Int /\ 0 \in Int
  OBVIOUS
<1> QED BY <1>1, DivUnique

LEMMA LenIs == ASSUME NEW n \in Nat, NEW s, DOMAIN s = 1 .. n PROVE Len(s) = n
  OBVIOUS

(* A string's bytes: inside the buffer, past it, and so many that the sum  *)
(* wraps.                                                                  *)
SliceAt(b, q, n) == [i \in 1 .. n |-> b[q + i]]

LEMMA StringIn ==
    ASSUME NEW T, NEW b \in Seq(T), NEW q \in Nat, NEW n \in Nat, q + n <= Len(b), Len(b) < Power[4]
    PROVE  GetString(At(b, q), n) = [val |-> SliceAt(b, q, n), u |-> At(b, q + n)]
<1>1. PICK P \in Nat \ {0} : P = Power[4] /\ P = Power[SizeOfInt]
  BY Powers, Sizes
<1>2. Len(b) \in Nat
  BY LenProperties
<1>3. PICK e \in Nat : e = q + n
  OBVIOUS
<1>4. e % P = e
  <2>1. e < P
    BY <1>1, <1>2, <1>3
  <2> QED BY <2>1, ModSmall
<1>5. PICK u : u = At(b, q)
  OBVIOUS
<1>6. u.buf = b /\ u.ind = q
  BY <1>5 DEF At
<1>7. \A i \in 1 .. n : q + i <= Len(b)
  BY <1>2
<1>8. (u.ind + n) % Power[SizeOfInt] = e /\ ~(e > Len(u.buf))
  BY <1>1, <1>2, <1>3, <1>4, <1>6
<1> DEFINE s == [i \in 1 .. n |-> IF u.ind + i <= Len(u.buf) THEN u.buf[u.ind + i] ELSE Junk]
<1>9. GetString(u, n) = [val |-> s, u |-> [u EXCEPT !.ind = e]]
  BY <1>8 DEF GetString
<1>10. s = SliceAt(b, q, n)
  BY <1>6, <1>7 DEF SliceAt
<1> HIDE DEF s
<1> QED BY <1>3, <1>5, <1>9, <1>10, IndSet

LEMMA StringPast ==
    ASSUME NEW T, NEW b \in Seq(T), NEW q \in Nat, NEW n \in Nat, q + n > Len(b), q + n < Power[4]
    PROVE  GetString(At(b, q), n).u.ok = FALSE
<1>1. PICK P \in Nat \ {0} : P = Power[4] /\ P = Power[SizeOfInt]
  BY Powers, Sizes
<1>3. PICK e \in Nat : e = q + n
  OBVIOUS
<1>4. e % P = e
  <2>1. e < P
    BY <1>1, <1>3
  <2> QED BY <2>1, ModSmall
<1>5. PICK u : u = At(b, q)
  OBVIOUS
<1>6. u.buf = b /\ u.ind = q /\ DOMAIN u = {"buf", "ind", "ok"}
  BY <1>5 DEF At
<1>8. (u.ind + n) % Power[SizeOfInt] = e /\ e > Len(u.buf)
  BY <1>1, <1>3, <1>4, <1>6
<1>9. GetString(u, n).u = [u EXCEPT !.ok = FALSE]
  BY <1>8 DEF GetString
<1> QED BY <1>5, <1>6, <1>9

LEMMA StringWraps ==
    ASSUME NEW T, NEW b \in Seq(T), NEW q \in Nat, NEW n \in Nat, q <= Len(b), Len(b) < Power[4],
           n < Power[4], q + n >= Power[4]
    PROVE  /\ GetString(At(b, q), n).u = At(b, q + n - Power[4])
           /\ Len(GetString(At(b, q), n).val) = n
<1>1. PICK P \in Nat \ {0} : P = Power[4] /\ P = Power[SizeOfInt]
  BY Powers, Sizes
<1>2. Len(b) \in Nat
  BY LenProperties
<1>3. PICK e \in Nat : e = q + n - P
  BY <1>1
<1>4. (q + n) % P = e
  <2>1. PICK z \in Int : z = q + n
    OBVIOUS
  <2>2. z = 1 * P + e /\ e \in 0 .. P - 1 /\ e \in Int
    BY <1>1, <1>2, <1>3, <2>1
  <2>3. z % P = e
    BY <2>2, DivUnique
  <2> QED BY <2>1, <2>3
<1>5. PICK u : u = At(b, q)
  OBVIOUS
<1>6. u.buf = b /\ u.ind = q
  BY <1>5 DEF At
<1>8. (u.ind + n) % Power[SizeOfInt] = e /\ ~(e > Len(u.buf))
  BY <1>1, <1>2, <1>3, <1>4, <1>6
<1> DEFINE s == [i \in 1 .. n |-> IF u.ind + i <= Len(u.buf) THEN u.buf[u.ind + i] ELSE Junk]
<1>9. GetString(u, n) = [val |-> s, u |-> [u EXCEPT !.ind = e]]
  BY <1>8 DEF GetString
<1>11. DOMAIN s = 1 .. n
  OBVIOUS
<1> HIDE DEF s
<1>10. Len(s) = n
  BY <1>11, LenIs
<1> QED BY <1>1, <1>3, <1>5, <1>9, <1>10, IndSet

(* The length of a string is read first.                                   *)
StringFrom(b, q, n) == /\ get(At(b, q), "string") = GetString(At(b, q + 4), n)
                       /\ Stands(b, q, 4, n)
                       /\ \A z \in Int : Stands(b, q, 4, z) => n = z % Power[4]

LEMMA ReadsLength ==
    ASSUME NEW T, NEW b \in Seq(T), NEW q \in Nat, q + 4 <= Len(b), \A i \in 1 .. 4 : b[q + i] \in ByteSet
    PROVE  \E n \in Nat : n < Power[4] /\ StringFrom(b, q, n)
<1>1. PICK y \in 0 .. Power[4] - 1 : NumberAt(b, q, 4, y)
  <2>1. 4 \in 1 .. 8
    OBVIOUS
  <2> QED BY <2>1, GetsBytes
<1>2. PICK P \in Nat \ {0} : P = Power[4]
  BY Powers
<1>3. y \in Nat /\ y < Power[4]
  BY <1>2
<1>4. y % Power[4] = y
  BY <1>2, <1>3, ModSmall
<1>5. Stands(b, q, 4, y)
  <2>1. y \in Int
    BY <1>3
  <2> QED BY <1>1, <1>4, <2>1 DEF NumberAt, Stands
<1>6. \A z \in Int : Stands(b, q, 4, z) => y = z % Power[4]
  BY <1>1 DEF NumberAt, Stands
<1>7. get(At(b, q), "string") = GetString(At(b, q + 4), y)
  <2>1. GetBytes(At(b, q), SizeOfInt) = [val |-> y, u |-> At(b, q + 4)]
    BY <1>1, Sizes DEF NumberAt
  <2>2. PICK w : w = At(b, q + 4)
    OBVIOUS
  <2>3. w.ok
    BY <2>2 DEF At
  <2>4. PICK g : g = GetBytes(At(b, q), SizeOfInt)
    OBVIOUS
  <2>5. g.val = y /\ g.u = w
    BY <2>1, <2>2, <2>4
  <2>6. get(At(b, q), "string") = IF g.u.ok THEN GetString(g.u, g.val) ELSE [val |-> <<>>, u |-> g.u]
    BY <2>4 DEF get
  <2> QED BY <2>2, <2>3, <2>5, <2>6
<1> QED BY <1>3, <1>5, <1>6, <1>7 DEF StringFrom

(* A value of type t that was written is read.                             *)
LEMMA ReadValue ==
    ASSUME NEW T, NEW b \in Seq(T), NEW q \in Nat, NEW v, IsValue(v), Lies(b, q, Enc(v)), Len(b) < Power[4]
    PROVE  get(At(b, q), v.type) = [val |-> v.val, u |-> At(b, q + Len(Enc(v)))]
<1>0. Len(b) \in Nat
  BY LenProperties
<1>1. CASE v.type = "string" /\ v.val \in Seq(0 .. Byte - 1)
  <2>1. PICK s \in Seq(ByteSet) : s = v.val
    BY <1>1 DEF ByteSet
  <2>2. PICK L \in Nat : L = Len(s)
    BY LenProperties
  <2>3. /\ Enc(v) \in Seq(ByteSet) /\ Len(Enc(v)) = 4 + L
        /\ \A i \in 1 .. 4 : Enc(v)[i] = ByteOf(L, 4 - i)
        /\ \A i \in 1 .. L : Enc(v)[4 + i] = s[i]
    BY <1>1, <2>1, <2>2, EncString
  <2>4. \A i \in 1 .. 4 + L : b[q + i] = Enc(v)[i] /\ b[q + i] \in ByteSet
    <3>1. \A i \in 1 .. Len(Enc(v)) : Enc(v)[i] \in ByteSet
      BY <2>3, ElementOfSeq
    <3> QED BY <2>3, <3>1 DEF Lies
  <2>5. q + 4 + L <= Len(b) /\ q + 4 <= Len(b)
    BY <1>0, <2>3 DEF Lies
  <2>6. Stands(b, q, 4, L) /\ \A i \in 1 .. 4 : b[q + i] \in ByteSet
    <3>1. \A i \in 1 .. 4 : i \in 1 .. 4 + L
      OBVIOUS
    <3> QED BY <2>3, <2>4, <3>1 DEF Stands
  <2>7. PICK n \in Nat : n < Power[4] /\ StringFrom(b, q, n)
    BY <2>5, <2>6, ReadsLength
  <2>8. n = L
    <3>1. PICK P \in Nat \ {0} : P = Power[4]
      BY Powers
    <3>2. L < P /\ L \in Int
      BY <1>0, <2>5, <3>1
    <3>3. L % P = L
      BY <3>2, ModSmall
    <3> QED BY <2>6, <2>7, <3>1, <3>2, <3>3 DEF StringFrom
  <2>9. GetString(At(b, q + 4), L) = [val |-> SliceAt(b, q + 4, L), u |-> At(b, (q + 4) + L)]
    <3>1. q + 4 \in Nat
      OBVIOUS
    <3> QED BY <2>5, <3>1, StringIn
  <2>10. SliceAt(b, q + 4, L) = s
    <3>1. SliceAt(b, q + 4, L) \in [1 .. L -> ByteSet] /\ \A i \in 1 .. L : SliceAt(b, q + 4, L)[i] = s[i]
      <4>1. \A i \in 1 .. L : 4 + i \in 1 .. 4 + L /\ (q + 4) + i = q + (4 + i)
        OBVIOUS
      <4>2. \A i \in 1 .. L : b[(q + 4) + i] = s[i] /\ b[(q + 4) + i] \in ByteSet
        BY <2>3, <2>4, <4>1
      <4> QED BY <4>2 DEF SliceAt
    <3>2. PICK c : c = SliceAt(b, q + 4, L)
      OBVIOUS
    <3>3. c \in Seq(ByteSet)
      BY <3>1, <3>2, SeqDef
    <3>4. Len(c) = L
      BY <3>1, <3>2, LenIs
    <3> QED BY <2>2, <3>1, <3>2, <3>3, <3>4, SeqEqual
  <2>11. q + Len(Enc(v)) = (q + 4) + L
    BY <2>3
  <2> QED BY <1>1, <2>1, <2>7, <2>8, <2>9, <2>10, <2>11 DEF StringFrom
<1>2. CASE v.type \in DOMAIN Width /\ v.val \in Seq(Int) /\ Len(v.val) = 1 /\ v.val[1] \in ValuesOf(v.type)
  <2>1. PICK t \in DOMAIN Width : t = v.type
    BY <1>2
  <2>2. PICK w \in 1 .. 8 : w = Width[t]
    BY WidthIs
  <2>3. PICK z \in Int : z = v.val[1]
    <3>1. 1 \in 1 .. Len(v.val)
      BY <1>2
    <3> QED BY <1>2, <3>1, ElementOfSeq
  <2>4. v.val = <<z>>
    <3>1. <<z>> \in Seq(Int) /\ Len(<<z>>) = 1 /\ <<z>>[1] = z
      OBVIOUS
    <3>2. \A i \in 1 .. Len(v.val) : v.val[i] = <<z>>[i]
      BY <1>2, <2>3, <3>1
    <3> QED BY <1>2, <3>1, <3>2, SeqEqual
  <2>5. /\ Enc(v) \in Seq(ByteSet) /\ Len(Enc(v)) = w
        /\ \A i \in 1 .. w : Enc(v)[i] = ByteOf(z, w - i)
    BY <1>2, <2>1, <2>2, <2>3, EncInt
  <2>6. \A i \in 1 .. w : b[q + i] = Enc(v)[i] /\ b[q + i] \in ByteSet
    <3>1. \A i \in 1 .. Len(Enc(v)) : Enc(v)[i] \in ByteSet
      BY <2>5, ElementOfSeq
    <3> QED BY <2>5, <3>1 DEF Lies
  <2>7. q + w <= Len(b)
    BY <2>5 DEF Lies
  <2>8. Stands(b, q, w, z)
    BY <2>5, <2>6 DEF Stands
  <2>9. PICK x \in ValuesOf(t) : x \in Int /\ ReadsAs(b, q, t, x)
    BY <2>2, <2>6, <2>7, ReadsInteger
  <2>10. x = z
    BY <1>2, <2>1, <2>2, <2>3, <2>8, <2>9 DEF ReadsAs
  <2> QED BY <2>1, <2>2, <2>4, <2>5, <2>9, <2>10 DEF ReadsAs
<1> QED BY <1>1, <1>2 DEF IsValue

-----------------------------------------------------------------------------
(* What is read from a buffer.                                             *)

Val(t, x) == [type |-> t, val |-> x]

(* What g, read from b at place q, is: a value whose bytes stand there, or *)
(* a string so long that the sum wrapped.                                  *)
Valid(b, q, t, g) == /\ IsValue(Val(t, g.val)) /\ Lies(b, q, Enc(Val(t, g.val)))
                     /\ g.u = At(b, q + Len(Enc(Val(t, g.val))))

Wrapped(b, q, t, g) == /\ t = "string" /\ Len(g.val) \in Nat
                       /\ q + 4 <= Len(b) /\ Len(g.val) < Power[4] /\ Power[4] <= q + 4 + Len(g.val)
                       /\ g.u = At(b, q + 4 + Len(g.val) - Power[4])

Reads(b, q, t, g) == g.u.ok = FALSE \/ Valid(b, q, t, g) \/ Wrapped(b, q, t, g)

LEMMA ReadsValue ==
    ASSUME NEW T, NEW b \in Seq(T), NEW q \in Nat, NEW t \in DOMAIN Width \cup {"string"},
           \A i \in q + 1 .. Len(b) : b[i] \in ByteSet, Len(b) < Power[4]
    PROVE  Reads(b, q, t, get(At(b, q), t))
<1>0. Len(b) \in Nat
  BY LenProperties
<1>1. PICK P \in Nat \ {0} : P = Power[4]
  BY Powers
<1>2. PICK g : g = get(At(b, q), t)
  OBVIOUS
<1>3. PICK v : v = Val(t, g.val)
  OBVIOUS
<1>4. v.type = t /\ v.val = g.val
  BY <1>3 DEF Val
<1>5. CASE t \in DOMAIN Width
  <2>1. PICK w \in 1 .. 8 : w = Width[t]
    BY <1>5, WidthIs
  <2>2. CASE q + w <= Len(b)
    <3>1. \A i \in 1 .. w : b[q + i] \in ByteSet
      <4>1. \A i \in 1 .. w : q + i \in q + 1 .. Len(b)
        BY <1>0, <2>2
      <4> QED BY <4>1
    <3>2. PICK x \in ValuesOf(t) : x \in Int /\ ReadsAs(b, q, t, x)
      BY <1>5, <2>1, <2>2, <3>1, ReadsInteger
    <3>3. g.val = <<x>> /\ g.u = At(b, q + w)
      BY <1>2, <2>1, <3>2 DEF ReadsAs
    <3>4. v.val \in Seq(Int) /\ Len(v.val) = 1 /\ v.val[1] = x
      BY <1>4, <3>2, <3>3
    <3>5. IsValue(v)
      BY <1>4, <1>5, <3>2, <3>4 DEF IsValue
    <3>6. /\ Enc(v) \in Seq(ByteSet) /\ Len(Enc(v)) = w
          /\ \A i \in 1 .. w : Enc(v)[i] = ByteOf(x, w - i)
      BY <1>4, <1>5, <2>1, <3>2, <3>4, EncInt
    <3>7. Lies(b, q, Enc(v))
      BY <2>1, <2>2, <3>2, <3>6 DEF Lies, ReadsAs, Stands
    <3> QED BY <1>2, <1>3, <3>3, <3>5, <3>6, <3>7 DEF Valid, Reads
  <2>3. CASE q + w > Len(b)
    <3>1. GetBytes(At(b, q), w).u.ok = FALSE
      BY <2>3, GetsPast
    <3>2. t # "string"
      BY <1>5 DEF Width
    <3>3. get(At(b, q), t).u = GetBytes(At(b, q), w).u
      BY <2>1, <3>2 DEF get
    <3> QED BY <3>1, <3>3 DEF Reads
  <2>4. q + w > Len(b) \/ q + w <= Len(b)
    BY <1>0
  <2> QED BY <2>2, <2>3, <2>4
<1>6. CASE t = "string"
  <2>1. CASE q + 4 > Len(b)
    <3>1. PICK f : f = GetBytes(At(b, q), SizeOfInt)
      OBVIOUS
    <3>2. f.u.ok = FALSE
      <4>1. 4 \in 1 .. 8
        OBVIOUS
      <4>2. GetBytes(At(b, q), 4).u.ok = FALSE
        BY <2>1, <4>1, GetsPast
      <4> QED BY <3>1, <4>2, Sizes
    <3>3. get(At(b, q), t) = IF f.u.ok THEN GetString(f.u, f.val) ELSE [val |-> <<>>, u |-> f.u]
      BY <1>6, <3>1 DEF get
    <3>4. get(At(b, q), t).u = f.u
      BY <3>2, <3>3
    <3> QED BY <3>2, <3>4 DEF Reads
  <2>2. CASE q + 4 <= Len(b)
    <3>1. \A i \in 1 .. 4 : b[q + i] \in ByteSet
      <4>1. \A i \in 1 .. 4 : q + i \in q + 1 .. Len(b)
        BY <1>0, <2>2
      <4> QED BY <4>1
    <3>2. PICK n \in Nat : n < P /\ StringFrom(b, q, n)
      BY <1>1, <2>2, <3>1, ReadsLength
    <3>3. PICK k \in Nat : k = q + 4
      OBVIOUS
    <3>4. g = GetString(At(b, k), n)
      BY <1>2, <1>6, <3>2, <3>3 DEF StringFrom
    <3>5. CASE k + n >= P
      <4>1. g.u = At(b, k + n - Power[4]) /\ Len(g.val) = n
        BY <1>1, <2>2, <3>2, <3>3, <3>4, <3>5, StringWraps
      <4> QED BY <1>1, <1>2, <1>6, <2>2, <3>2, <3>3, <3>5, <4>1 DEF Wrapped, Reads
    <3>6. CASE k + n < P /\ k + n > Len(b)
      <4>1. GetString(At(b, k), n).u.ok = FALSE
        BY <1>1, <3>6, StringPast
      <4> QED BY <1>2, <3>4, <4>1 DEF Reads
    <3>7. CASE k + n <= Len(b)
      <4>1. g.val = SliceAt(b, k, n) /\ g.u = At(b, k + n)
        BY <3>4, <3>7, StringIn
      <4>2. SliceAt(b, k, n) \in [1 .. n -> ByteSet] /\ \A i \in 1 .. n : SliceAt(b, k, n)[i] = b[k + i]
        <5>1. \A i \in 1 .. n : k + i \in q + 1 .. Len(b)
          BY <1>0, <3>3, <3>7
        <5> QED BY <5>1 DEF SliceAt
      <4>3. PICK s \in Seq(ByteSet) : s = g.val
        BY <4>1, <4>2, SeqDef
      <4>4. Len(s) = n /\ \A i \in 1 .. n : s[i] = b[k + i]
        BY <4>1, <4>2, <4>3, LenIs
      <4>5. IsValue(v)
        BY <1>4, <1>6, <4>3 DEF IsValue, ByteSet
      <4>6. /\ Len(Enc(v)) = 4 + n
            /\ \A i \in 1 .. 4 : Enc(v)[i] = ByteOf(n, 4 - i)
            /\ \A i \in 1 .. n : Enc(v)[4 + i] = s[i]
        <5>1. v.type = "string" /\ v.val = s
          BY <1>4, <1>6, <4>3
        <5>2. /\ Len(Enc(v)) = 4 + Len(s)
              /\ \A i \in 1 .. 4 : Enc(v)[i] = ByteOf(Len(s), 4 - i)
              /\ \A i \in 1 .. Len(s) : Enc(v)[4 + i] = s[i]
          BY <5>1, EncString
        <5> QED BY <4>4, <5>2
      <4>7. ASSUME NEW i \in 1 .. 4 + n PROVE b[q + i] = Enc(v)[i]
        <5>1. CASE i \in 1 .. 4
          BY <3>2, <4>6, <5>1 DEF StringFrom, Stands
        <5>2. CASE i > 4
          <6>1. PICK j \in 1 .. n : i = 4 + j /\ q + i = k + j
            <7>1. i - 4 \in 1 .. n /\ i = 4 + (i - 4) /\ q + i = k + (i - 4)
              BY <3>3, <5>2
            <7> QED BY <7>1
          <6> QED BY <4>4, <4>6, <6>1
        <5> QED BY <5>1, <5>2
      <4>8. Lies(b, q, Enc(v))
        <5>1. q + (4 + n) <= Len(b)
          BY <1>0, <3>3, <3>7
        <5> QED BY <4>6, <4>7, <5>1 DEF Lies
      <4>9. g.u = At(b, q + Len(Enc(v)))
        <5>1. q + (4 + n) = k + n
          BY <3>3
        <5> QED BY <4>1, <4>6, <5>1
      <4> QED BY <1>2, <1>3, <4>5, <4>8, <4>9 DEF Valid, Reads
    <3>8. k + n >= P \/ (k + n < P /\ k + n > Len(b)) \/ k + n <= Len(b)
      BY <1>0
    <3> QED BY <3>5, <3>6, <3>7, <3>8
  <2>3. q + 4 > Len(b) \/ q + 4 <= Len(b)
    BY <1>0
  <2> QED BY <2>1, <2>2, <2>3
<1> QED BY <1>5, <1>6

-----------------------------------------------------------------------------
(* A list of values in a buffer.                                           *)

(* The marshall objects that putting the values vs one by one makes.       *)
Fold(vs) == LET f[i \in 0 .. Len(vs)] == IF i = 0 THEN marshall ELSE put(f[i - 1], vs[i])
            IN  f

LEMMA FoldExists ==
    ASSUME NEW vs, NEW n \in Nat
    PROVE  \E f : f = [i \in 0 .. n |-> IF i = 0 THEN marshall ELSE put(f[i - 1], vs[i])]
<1> DEFINE F(f, k) == [i \in 0 .. k |-> IF i = 0 THEN marshall ELSE put(f[i - 1], vs[i])]
           S == {k \in Nat : \E f : f = F(f, k)}
<1>1. 0 \in S
  <2>1. [i \in 0 .. 0 |-> marshall] = F([i \in 0 .. 0 |-> marshall], 0)
    OBVIOUS
  <2> HIDE DEF F
  <2> QED BY <2>1
<1>2. ASSUME NEW k \in Nat, k \in S PROVE k + 1 \in S
  <2>1. PICK f : f = F(f, k)
    BY <1>2
  <2> DEFINE g == [i \in 0 .. k + 1 |-> IF i <= k THEN f[i] ELSE put(f[k], vs[k + 1])]
  <2>2. ASSUME NEW i \in 0 .. k + 1 PROVE g[i] = F(g, k + 1)[i]
    <3>1. CASE i = 0
      <4>1. f[0] = marshall /\ g[0] = f[0]
        BY <2>1
      <4> QED BY <3>1, <4>1
    <3>2. CASE i \in 1 .. k
      <4>1. f[i] = put(f[i - 1], vs[i])
        BY <2>1, <3>2
      <4>2. g[i] = f[i] /\ g[i - 1] = f[i - 1]
        BY <3>2
      <4> QED BY <3>2, <4>1, <4>2
    <3>3. CASE i = k + 1
      <4>1. g[k + 1] = put(f[k], vs[k + 1]) /\ g[k] = f[k]
        OBVIOUS
      <4>2. F(g, k + 1)[k + 1] = put(g[k], vs[k + 1])
        <5> HIDE DEF g
        <5>1. (k + 1) - 1 = k /\ k + 1 # 0 /\ k + 1 \in 0 .. k + 1
          OBVIOUS
        <5> QED BY <5>1
      <4> QED BY <3>3, <4>1, <4>2
    <3> QED BY <3>1, <3>2, <3>3
  <2>3. g = F(g, k + 1)
    BY <2>2
  <2> HIDE DEF F, g
  <2> QED BY <2>3
<1>3. n \in S
  <2> HIDE DEF S
  <2> QED BY <1>1, <1>2, NatIsInductive
<1> QED BY <1>3

LEMMA FoldSteps ==
    ASSUME NEW vs, Len(vs) \in Nat
    PROVE  /\ Fold(vs)[0] = marshall
           /\ \A i \in 1 .. Len(vs) : Fold(vs)[i] = put(Fold(vs)[i - 1], vs[i])
<1>1. PICK n \in Nat : n = Len(vs)
  OBVIOUS
<1> DEFINE F(f) == [i \in 0 .. n |-> IF i = 0 THEN marshall ELSE put(f[i - 1], vs[i])]
           c == CHOOSE f : f = F(f)
<1>2. Fold(vs) = c
  BY <1>1 DEF Fold
<1>3. \E f : f = F(f)
  BY FoldExists
<1>4. c = F(c)
  <2> HIDE DEF F
  <2> QED BY <1>3
<1> HIDE DEF c
<1>5. c[0] = marshall /\ \A i \in 1 .. n : c[i] = put(c[i - 1], vs[i])
  BY <1>4
<1> QED BY <1>1, <1>2, <1>5

LEMMA SeqWider ==
    ASSUME NEW S, NEW R, S \subseteq R, NEW s \in Seq(S) PROVE s \in Seq(R)
<1>1. PICK n \in Nat : s \in [1 .. n -> S]
  BY SeqDef
<1>2. s \in [1 .. n -> R]
  BY <1>1
<1> QED BY <1>2, SeqDef

(* What << takes.                                                          *)
LEMMA ValueFits ==
    ASSUME NEW v, IsValue(v)
    PROVE  /\ \/ v.type = "string" /\ v.val \in Seq(Bytes0)
              \/ v.type \in DOMAIN Width /\ \A k \in 0 .. 7 : ByteOf(v.val[1], k) \in Bytes0
           /\ Enc(v) \in Seq(ByteSet)
<1>2. CASE v.type = "string" /\ v.val \in Seq(0 .. Byte - 1)
  <2>1. v.val \in Seq(Bytes0)
    BY <1>2, SeqWider, BytesAreNumbers
  <2>2. PICK s \in Seq(ByteSet) : s = v.val
    BY <1>2 DEF ByteSet
  <2>3. Enc(v) \in Seq(ByteSet)
    BY <1>2, <2>2, EncString
  <2> QED BY <1>2, <2>1, <2>3
<1>3. CASE v.type \in DOMAIN Width /\ v.val \in Seq(Int) /\ Len(v.val) = 1
  <2>1. PICK x \in Int : x = v.val[1]
    <3>1. 1 \in 1 .. Len(v.val)
      BY <1>3
    <3> QED BY <1>3, <3>1, ElementOfSeq
  <2>2. \A k \in 0 .. 7 : k \in 0 .. 8
    OBVIOUS
  <2>3. \A k \in 0 .. 7 : ByteOf(x, k) \in Bytes0
    BY <2>2, ByteIsByte, BytesAreNumbers
  <2>4. Enc(v) \in Seq(ByteSet)
    BY <1>3, <2>1, EncInt
  <2> QED BY <1>3, <2>1, <2>3, <2>4
<1> QED BY <1>2, <1>3 DEF IsValue

(* Behind the header there are bytes.                                      *)
Clean(b) == \A i \in 25 .. Len(b) : b[i] \in ByteSet

Marshalled(m) == Written(m, Bytes0) /\ Fits(m) /\ Clean(m.buf)

LEMMA PutIs ==
    ASSUME NEW m, Marshalled(m), NEW v, IsValue(v)
    PROVE  Marshalled(put(m, v)) /\ Joined(m.buf, Enc(v), Bytes0, put(m, v).buf)
<1>1. PICK e \in Seq(ByteSet) : e = Enc(v)
  BY ValueFits
<1>2. /\ Written(put(m, v), Bytes0) /\ Fits(put(m, v)) /\ put(m, v).buf = m.buf \o Enc(v)
      /\ Enc(v) \in Seq(Bytes0)
  BY ValueFits, PutWrites, BytesAreNumbers DEF Marshalled
<1>3. PICK b \in Seq(Bytes0) : b = m.buf /\ Len(b) \in Nat
  BY LenProperties DEF Marshalled, Written
<1>4. Joined(b, e, Bytes0, b \o e)
  BY <1>1, <1>2, ConcatIs
<1>5. PICK c : c = b \o e
  OBVIOUS
<1>6. ASSUME NEW i \in 25 .. Len(c) PROVE c[i] \in ByteSet
  <2>1. Len(e) \in Nat /\ Len(c) = Len(b) + Len(e)
    BY <1>4, <1>5, LenProperties DEF Joined
  <2>2. CASE i <= Len(b)
    <3>1. i \in 1 .. Len(b) /\ i \in 25 .. Len(b)
      BY <1>3, <2>1, <2>2
    <3> QED BY <1>3, <1>4, <1>5, <3>1 DEF Marshalled, Clean, Joined
  <2>3. CASE i > Len(b)
    <3>1. PICK j \in 1 .. Len(e) : i = Len(b) + j
      <4>1. i - Len(b) \in 1 .. Len(e) /\ i = Len(b) + (i - Len(b))
        BY <1>3, <2>1, <2>3
      <4> QED BY <4>1
    <3>2. e[j] \in ByteSet
      BY <1>1, ElementOfSeq
    <3> QED BY <1>4, <1>5, <3>1, <3>2 DEF Joined
  <2>4. i <= Len(b) \/ i > Len(b)
    BY <1>3, <2>1
  <2> QED BY <2>2, <2>3, <2>4
<1> QED BY <1>1, <1>2, <1>3, <1>4, <1>5, <1>6 DEF Marshalled, Clean

LEMMA FreshIsMarshalled == Marshalled(marshall) /\ Len(marshall.buf) = 24
<1>1. Written(marshall, Bytes0) /\ Fits(marshall)
  BY BytesAreNumbers, FreshIsWritten
<1>2. Len(marshall.buf) = 24
  BY <1>1, Sizes DEF Written, marshall
<1>3. 25 .. 24 = {}
  OBVIOUS
<1> QED BY <1>1, <1>2, <1>3 DEF Marshalled, Clean

LEMMA FoldIsMarshalled ==
    ASSUME NEW vs, Len(vs) \in Nat, \A i \in 1 .. Len(vs) : IsValue(vs[i])
    PROVE  \A i \in 0 .. Len(vs) : Marshalled(Fold(vs)[i])
<1> DEFINE S == {i \in 0 .. Len(vs) : Marshalled(Fold(vs)[i])}
<1>1. 0 \in S
  BY FoldSteps, FreshIsMarshalled
<1>2. ASSUME NEW i \in 1 .. Len(vs), i - 1 \in S PROVE i \in S
  <2>1. Marshalled(Fold(vs)[i - 1]) /\ IsValue(vs[i])
    BY <1>2
  <2>2. Marshalled(put(Fold(vs)[i - 1], vs[i]))
    BY <2>1, PutIs
  <2>3. Marshalled(Fold(vs)[i])
    BY <2>2, FoldSteps
  <2> QED BY <2>3
<1>3. \A i \in 0 .. Len(vs) : i \in S
  <2> HIDE DEF S
  <2> QED BY <1>1, <1>2, UpTo
<1> QED BY <1>3

LEMMA BytesAreFold ==
    ASSUME NEW vs, Len(vs) \in Nat, \A i \in 1 .. Len(vs) : IsValue(vs[i]), NEW m, m = Fold(vs)[Len(vs)]
    PROVE  /\ Marshalled(m) /\ Bytes(vs) = SubSeq(m.buf, 25, Len(m.buf))
           /\ Len(m.buf) = 24 + Len(Bytes(vs)) /\ Len(Bytes(vs)) \in Nat
<1>1. Marshalled(m)
  <2>1. Len(vs) \in 0 .. Len(vs)
    OBVIOUS
  <2> QED BY <2>1, FoldIsMarshalled
<1>2. PICK b \in Seq(Bytes0) : b = m.buf /\ Len(b) \in Nat /\ Len(b) >= 24 /\ m.ind = Len(b)
  BY <1>1, LenProperties, Sizes DEF Marshalled, Written
<1>3. take_buf(m) = b
  BY <1>2, SubSeqFull DEF take_buf
<1>4. Bytes(vs) = SubSeq(take_buf(m), RPC_HEADER_SZ + 1, Len(take_buf(m)))
  BY DEF Bytes, Fold
<1>5. Bytes(vs) = SubSeq(b, 25, Len(b))
  <2>1. RPC_HEADER_SZ + 1 = 25
    BY Sizes
  <2> QED BY <1>3, <1>4, <2>1
<1>6. Slice(b, 25, Len(b), Bytes0, SubSeq(b, 25, Len(b)))
  <2>1. 25 \in 1 .. Len(b) + 1 /\ Len(b) \in 25 - 1 .. Len(b)
    BY <1>2
  <2> QED BY <2>1, SubSeqIs
<1>7. Len(SubSeq(b, 25, Len(b))) = Len(b) - 24
  BY <1>2, <1>6 DEF Slice
<1> QED BY <1>1, <1>2, <1>5, <1>7

(* Behind the header of b there are one value and no more, or two.         *)
Laid1(b, v) == Lies(b, 24, Enc(v)) /\ Len(b) = 24 + Len(Enc(v))

Laid2(b, v, w) == /\ Lies(b, 24, Enc(v)) /\ Lies(b, 24 + Len(Enc(v)), Enc(w))
                  /\ Len(b) = 24 + Len(Enc(v)) + Len(Enc(w))

LEMMA FoldOne ==
    ASSUME NEW vs, Len(vs) = 1, IsValue(vs[1])
    PROVE  Laid1(Fold(vs)[1].buf, vs[1])
<1>1. Fold(vs)[0] = marshall /\ Fold(vs)[1] = put(marshall, vs[1])
  <2>1. Len(vs) \in Nat /\ 1 \in 1 .. Len(vs) /\ 1 - 1 = 0
    OBVIOUS
  <2> QED BY <2>1, FoldSteps
<1>2. PICK e \in Seq(ByteSet) : e = Enc(vs[1]) /\ Len(e) \in Nat
  BY ValueFits, LenProperties
<1>3. PICK c : c = put(marshall, vs[1]).buf
  OBVIOUS
<1>4. Joined(marshall.buf, e, Bytes0, c)
  BY <1>2, <1>3, PutIs, FreshIsMarshalled
<1>5. Len(c) = 24 + Len(e) /\ \A i \in 1 .. Len(e) : c[24 + i] = e[i]
  BY <1>4, FreshIsMarshalled DEF Joined
<1>6. Lies(c, 24, e)
  BY <1>2, <1>5 DEF Lies
<1> QED BY <1>1, <1>2, <1>3, <1>5, <1>6 DEF Laid1

LEMMA FoldTwo ==
    ASSUME NEW vs, Len(vs) = 2, IsValue(vs[1]), IsValue(vs[2])
    PROVE  Laid2(Fold(vs)[2].buf, vs[1], vs[2])
<1>1. Fold(vs)[0] = marshall /\ Fold(vs)[1] = put(marshall, vs[1]) /\ Fold(vs)[2] = put(Fold(vs)[1], vs[2])
  <2>1. Len(vs) \in Nat /\ 1 \in 1 .. Len(vs) /\ 1 - 1 = 0 /\ 2 \in 1 .. Len(vs) /\ 2 - 1 = 1
    OBVIOUS
  <2> QED BY <2>1, FoldSteps
<1>2. PICK e \in Seq(ByteSet) : e = Enc(vs[1]) /\ Len(e) \in Nat
  BY ValueFits, LenProperties
<1>3. PICK d \in Seq(ByteSet) : d = Enc(vs[2]) /\ Len(d) \in Nat
  BY ValueFits, LenProperties
<1>4. PICK m : m = put(marshall, vs[1])
  OBVIOUS
<1>5. Marshalled(m) /\ Joined(marshall.buf, e, Bytes0, m.buf)
  BY <1>2, <1>4, PutIs, FreshIsMarshalled
<1>6. PICK c : c = put(m, vs[2]).buf
  OBVIOUS
<1>7. Joined(m.buf, d, Bytes0, c)
  BY <1>3, <1>5, <1>6, PutIs
<1>8. Len(m.buf) = 24 + Len(e) /\ \A i \in 1 .. Len(e) : m.buf[24 + i] = e[i]
  BY <1>5, FreshIsMarshalled DEF Joined
<1>9. Len(c) = 24 + Len(e) + Len(d)
  BY <1>7, <1>8 DEF Joined
<1>10. Lies(c, 24, e)
  <2>1. \A i \in 1 .. Len(e) : 24 + i \in 1 .. Len(m.buf)
    BY <1>2, <1>8
  <2>2. \A i \in 1 .. Len(e) : c[24 + i] = e[i]
    BY <1>7, <1>8, <2>1 DEF Joined
  <2> QED BY <1>2, <1>3, <1>9, <2>2 DEF Lies
<1>11. Lies(c, 24 + Len(e), d)
  <2>1. \A i \in 1 .. Len(d) : c[(24 + Len(e)) + i] = d[i]
    BY <1>7, <1>8 DEF Joined
  <2> QED BY <1>2, <1>3, <1>9, <2>1 DEF Lies
<1> QED BY <1>1, <1>2, <1>3, <1>4, <1>6, <1>9, <1>10, <1>11 DEF Laid2

(* What lies in b lies in what has the same bytes behind the header.       *)
LEMMA LiesKept ==
    ASSUME NEW w, NEW b, KeepsRest(w, b), Len(b) \in Nat, NEW q \in Nat, q >= 24, NEW s, Len(s) \in Nat, Lies(b, q, s)
    PROVE  Lies(w, q, s)
<1>1. Len(w) = Len(b) /\ q + Len(s) <= Len(w)
  BY DEF KeepsRest, Lies
<1>2. ASSUME NEW i \in 1 .. Len(s) PROVE w[q + i] = s[i]
  <2>1. q + i \in 25 .. Len(b)
    BY <1>1
  <2> QED BY <2>1 DEF KeepsRest, Lies
<1> QED BY <1>1, <1>2 DEF Lies

(* The values decide the bytes.                                            *)
LEMMA LaidSame1 ==
    ASSUME NEW b, NEW c, NEW v, IsValue(v), Laid1(b, v), Laid1(c, v)
    PROVE  KeepsRest(b, c)
<1>1. PICK e \in Seq(ByteSet) : e = Enc(v) /\ Len(e) \in Nat
  BY ValueFits, LenProperties
<1>2. Len(b) = 24 + Len(e) /\ Len(c) = 24 + Len(e)
  BY <1>1 DEF Laid1
<1>3. ASSUME NEW i \in 25 .. Len(c) PROVE b[i] = c[i]
  <2>1. PICK j \in 1 .. Len(e) : i = 24 + j
    <3>1. i - 24 \in 1 .. Len(e) /\ i = 24 + (i - 24)
      BY <1>1, <1>2
    <3> QED BY <3>1
  <2> QED BY <1>1, <2>1 DEF Laid1, Lies
<1> QED BY <1>2, <1>3 DEF KeepsRest

LEMMA LaidSame2 ==
    ASSUME NEW b, NEW c, NEW v, IsValue(v), NEW w, IsValue(w), Laid2(b, v, w), Laid2(c, v, w)
    PROVE  KeepsRest(b, c)
<1>1. PICK e \in Seq(ByteSet) : e = Enc(v) /\ Len(e) \in Nat
  BY ValueFits, LenProperties
<1>2. PICK d \in Seq(ByteSet) : d = Enc(w) /\ Len(d) \in Nat
  BY ValueFits, LenProperties
<1>3. Len(b) = 24 + Len(e) + Len(d) /\ Len(c) = 24 + Len(e) + Len(d)
  BY <1>1, <1>2 DEF Laid2
<1>4. ASSUME NEW i \in 25 .. Len(c) PROVE b[i] = c[i]
  <2>1. CASE i <= 24 + Len(e)
    <3>1. PICK j \in 1 .. Len(e) : i = 24 + j
      <4>1. i - 24 \in 1 .. Len(e) /\ i = 24 + (i - 24)
        BY <1>1, <1>2, <1>3, <2>1
      <4> QED BY <4>1
    <3> QED BY <1>1, <3>1 DEF Laid2, Lies
  <2>2. CASE i > 24 + Len(e)
    <3>1. PICK j \in 1 .. Len(d) : i = (24 + Len(e)) + j
      <4>1. i - (24 + Len(e)) \in 1 .. Len(d) /\ i = (24 + Len(e)) + (i - (24 + Len(e)))
        BY <1>1, <1>2, <1>3, <2>2
      <4> QED BY <4>1
    <3> QED BY <1>1, <1>2, <3>1 DEF Laid2, Lies
  <2>3. i <= 24 + Len(e) \/ i > 24 + Len(e)
    BY <1>1, <1>2, <1>3
  <2> QED BY <2>1, <2>2, <2>3
<1> QED BY <1>3, <1>4 DEF KeepsRest

LEMMA KeptTail ==
    ASSUME NEW b \in Seq(Bytes0), NEW c \in Seq(Bytes0), KeepsRest(b, c), Len(c) >= 24
    PROVE  SubSeq(b, 25, Len(b)) = SubSeq(c, 25, Len(c))
<1>1. PICK n \in Nat : n = Len(b) /\ n = Len(c) /\ n >= 24
  BY LenProperties DEF KeepsRest
<1>2. 25 \in 1 .. n + 1 /\ n \in 25 - 1 .. n
  BY <1>1
<1>3. PICK x : x = SubSeq(b, 25, n)
  OBVIOUS
<1>4. PICK y : y = SubSeq(c, 25, n)
  OBVIOUS
<1>5. Slice(b, 25, n, Bytes0, x) /\ Slice(c, 25, n, Bytes0, y)
  BY <1>1, <1>2, <1>3, <1>4, SubSeqIs
<1>6. /\ x \in Seq(Bytes0) /\ Len(x) = n - 25 + 1 /\ \A i \in 1 .. n - 25 + 1 : x[i] = b[25 + i - 1]
      /\ y \in Seq(Bytes0) /\ Len(y) = n - 25 + 1 /\ \A i \in 1 .. n - 25 + 1 : y[i] = c[25 + i - 1]
  BY <1>5 DEF Slice
<1>7. ASSUME NEW i \in 1 .. n - 25 + 1 PROVE x[i] = y[i]
  <2>1. PICK j \in 25 .. n : j = 25 + i - 1
    <3>1. 25 + i - 1 \in 25 .. n
      BY <1>1
    <3> QED BY <3>1
  <2>2. b[j] = c[j]
    BY <1>1 DEF KeepsRest
  <2> QED BY <1>6, <2>1, <2>2
<1>8. x = y
  BY <1>6, <1>7, SeqEqual
<1> QED BY <1>1, <1>3, <1>4, <1>8

-----------------------------------------------------------------------------
(* The arguments of a call on their way.                                   *)

LEMMA TailIsBytes1 ==
    ASSUME NEW vs, Len(vs) = 1, IsValue(vs[1]), NEW b \in Seq(Bytes0), Laid1(b, vs[1])
    PROVE  Bytes(vs) = SubSeq(b, 25, Len(b))
<1>1. Len(vs) \in Nat /\ \A i \in 1 .. Len(vs) : IsValue(vs[i])
  OBVIOUS
<1>2. PICK m : m = Fold(vs)[1]
  OBVIOUS
<1>3. Marshalled(m) /\ Bytes(vs) = SubSeq(m.buf, 25, Len(m.buf))
  BY <1>1, <1>2, BytesAreFold
<1>4. PICK c \in Seq(Bytes0) : c = m.buf /\ Len(c) >= 24
  BY <1>3, Sizes DEF Marshalled, Written
<1>5. Laid1(c, vs[1])
  BY <1>2, <1>4, FoldOne
<1>6. KeepsRest(b, c)
  BY <1>5, LaidSame1
<1> QED BY <1>3, <1>4, <1>6, KeptTail

LEMMA TailIsBytes2 ==
    ASSUME NEW vs, Len(vs) = 2, IsValue(vs[1]), IsValue(vs[2]), NEW b \in Seq(Bytes0), Laid2(b, vs[1], vs[2])
    PROVE  Bytes(vs) = SubSeq(b, 25, Len(b))
<1>1. Len(vs) \in Nat /\ \A i \in 1 .. Len(vs) : IsValue(vs[i])
  <2>1. \A i \in 1 .. 2 : i = 1 \/ i = 2
    OBVIOUS
  <2> QED BY <2>1
<1>2. PICK m : m = Fold(vs)[2]
  OBVIOUS
<1>3. Marshalled(m) /\ Bytes(vs) = SubSeq(m.buf, 25, Len(m.buf))
  BY <1>1, <1>2, BytesAreFold
<1>4. PICK c \in Seq(Bytes0) : c = m.buf /\ Len(c) >= 24
  BY <1>3, Sizes DEF Marshalled, Written
<1>5. Laid2(c, vs[1], vs[2])
  BY <1>2, <1>4, FoldTwo
<1>6. KeepsRest(b, c)
  BY <1>5, LaidSame2
<1> QED BY <1>3, <1>4, <1>6, KeptTail

LEMMA CallArgs ==
    ASSUME NEW c \in Calls
    PROVE  /\ Len(c.args) \in Nat /\ DOMAIN c.args = 1 .. Len(c.args)
           /\ \A i \in 1 .. Len(c.args) : IsValue(c.args[i])
<1>1. c.args \in Seq(ArgsOf(c))
  BY CallsAssumption DEF ArgsOf
<1>2. Len(c.args) \in Nat /\ DOMAIN c.args = 1 .. Len(c.args)
  BY <1>1, LenProperties
<1>3. \A i \in DOMAIN c.args : IsValue(c.args[i])
  BY CallsAssumption
<1> QED BY <1>2, <1>3

(* A byte has more than two values, if the size of a request is an int.    *)
LEMMA BigEnough ==
    ASSUME NEW c \in Calls
    PROVE  /\ \E k \in Nat : Power[4] = 2 * k /\ k >= 128 /\ Int32 = -k .. k - 1
           /\ 24 + Len(Bytes(c.args)) \in Nat /\ 2 * (24 + Len(Bytes(c.args))) < Power[4]
<1>1. PICK k \in Nat : Power[4] = 2 * k /\ Power[4] \div 2 = k
  <2>1. 4 \in 1 .. 8
    OBVIOUS
  <2> QED BY <2>1, PowerIsEven
<1>2. Int32 = -k .. k - 1
  BY <1>1, Sizes DEF Int32
<1>3. PICK n \in Nat : n = Len(Bytes(c.args))
  <2>1. PICK m : m = Fold(c.args)[Len(c.args)]
    OBVIOUS
  <2> QED BY <2>1, CallArgs, BytesAreFold
<1>4. 24 + n \in -k .. k - 1
  BY <1>2, <1>3, SizesAssumption, Sizes
<1>5. k > 24
  BY <1>4
<1>6. PICK b \in Nat \ {0} : b = Byte /\ b % 2 = 0 /\ Power[4] = b * b * b * b
  BY Powers, ByteAssumption
<1>7. b # 2
  <2>1. 2 * 2 * 2 * 2 = 16
    OBVIOUS
  <2> QED BY <1>1, <1>5, <1>6, <2>1
<1>8. b >= 4
  <2>1. b # 1 /\ b # 3
    BY <1>6
  <2> QED BY <1>7, <2>1
<1>9. PICK d \in Nat : d = b * b /\ d >= 16
  <2>1. (b - 4) * (b - 4) >= 0 /\ (b - 4) * (b - 4) = b * b - 8 * b + 16 /\ b * b \in Nat
    BY <1>8
  <2> QED BY <1>8, <2>1
<1>10. d * d >= 256 /\ d * d \in Nat
  <2>1. (d - 16) * (d - 16) >= 0 /\ (d - 16) * (d - 16) = d * d - 32 * d + 256 /\ d * d \in Nat
    BY <1>9
  <2> QED BY <1>9, <2>1
<1>11. b * b * b * b = d * d
  BY <1>9
<1>12. k >= 128
  BY <1>1, <1>6, <1>10, <1>11
<1> QED BY <1>1, <1>2, <1>3, <1>4, <1>12

(* b is a request of call c.                                               *)
Asked(c, b) == b \in Seq(Bytes0) /\ KeepsRest(b, Fold(c.args)[Len(c.args)].buf)

LEMMA AskedIs ==
    ASSUME NEW c \in Calls, NEW b, Asked(c, b)
    PROVE  /\ Len(b) \in Nat /\ Len(b) >= 24 /\ 2 * Len(b) < Power[4] /\ Len(b) < Power[4] /\ Clean(b)
           /\ Bytes(c.args) = SubSeq(b, 25, Len(b)) /\ Len(b) = 24 + Len(Bytes(c.args))
<1>1. PICK m : m = Fold(c.args)[Len(c.args)]
  OBVIOUS
<1>2. /\ Marshalled(m) /\ Bytes(c.args) = SubSeq(m.buf, 25, Len(m.buf))
      /\ Len(m.buf) = 24 + Len(Bytes(c.args)) /\ Len(Bytes(c.args)) \in Nat
  BY <1>1, CallArgs, BytesAreFold
<1>3. m.buf \in Seq(Bytes0) /\ Len(m.buf) >= 24
  BY <1>2, Sizes DEF Marshalled, Written
<1>4. KeepsRest(b, m.buf) /\ b \in Seq(Bytes0)
  BY <1>1 DEF Asked
<1>5. SubSeq(b, 25, Len(b)) = SubSeq(m.buf, 25, Len(m.buf))
  BY <1>3, <1>4, KeptTail
<1>6. Len(b) = 24 + Len(Bytes(c.args))
  BY <1>2, <1>4 DEF KeepsRest
<1>7. PICK k \in Nat : Power[4] = 2 * k
  BY BigEnough
<1>8. 2 * (24 + Len(Bytes(c.args))) < Power[4]
  BY BigEnough
<1>9. Len(b) \in Nat /\ Len(b) >= 24 /\ 2 * Len(b) < Power[4] /\ Len(b) < Power[4]
  BY <1>2, <1>6, <1>7, <1>8
<1>10. Clean(b)
  BY <1>2, <1>4 DEF Clean, KeepsRest, Marshalled
<1> QED BY <1>2, <1>5, <1>6, <1>9, <1>10

(* Values of the right types are what the handler is given.                *)
LEMMA ArgsArrive1 ==
    ASSUME NEW c \in Calls, NEW b, Asked(c, b), NEW t, TypesOf(c.args) = <<t>>
    PROVE  /\ GetArgs(At(b, 24), <<t>>).vals = <<c.args[1].val>> /\ ValsOf(c.args) = <<c.args[1].val>>
           /\ GetArgs(At(b, 24), <<t>>).u = At(b, Len(b)) /\ Len(c.args) = 1
           /\ IsValue(c.args[1]) /\ c.args[1].type = t
<1>1. DOMAIN c.args = 1 .. 1 /\ c.args[1].type = t
  <2>1. DOMAIN <<t>> = 1 .. 1 /\ <<t>>[1] = t
    OBVIOUS
  <2>2. DOMAIN TypesOf(c.args) = DOMAIN c.args
    BY DEF TypesOf
  <2>3. DOMAIN c.args = 1 .. 1
    BY <2>1, <2>2
  <2>4. TypesOf(c.args)[1] = c.args[1].type
    BY <2>3 DEF TypesOf
  <2> QED BY <2>1, <2>3, <2>4
<1>2. Len(c.args) = 1 /\ IsValue(c.args[1])
  <2>1. Len(c.args) = 1
    BY <1>1, LenIs
  <2> QED BY <2>1, CallArgs
<1>3. PICK v : v = c.args[1]
  OBVIOUS
<1>4. PICK m : m = Fold(c.args)[1].buf
  OBVIOUS
<1>5. KeepsRest(b, m) /\ b \in Seq(Bytes0)
  BY <1>2, <1>4 DEF Asked
<1>6. Laid1(m, v)
  BY <1>2, <1>3, <1>4, FoldOne
<1>7. Len(Enc(v)) \in Nat
  BY <1>2, <1>3, ValueFits, LenProperties
<1>8. Lies(b, 24, Enc(v)) /\ Len(b) = 24 + Len(Enc(v))
  <2>1. Len(m) \in Nat /\ Lies(m, 24, Enc(v)) /\ 24 \in Nat /\ 24 >= 24
    BY <1>6, <1>7 DEF Laid1
  <2>2. Lies(b, 24, Enc(v))
    BY <1>5, <1>7, <2>1, LiesKept
  <2> QED BY <1>5, <1>6, <2>2 DEF KeepsRest, Laid1
<1>9. get(At(b, 24), t) = [val |-> v.val, u |-> At(b, Len(b))]
  <2>1. get(At(b, 24), v.type) = [val |-> v.val, u |-> At(b, 24 + Len(Enc(v)))]
    <3>1. 24 \in Nat /\ Len(b) < Power[4] /\ IsValue(v)
      BY <1>2, <1>3, AskedIs
    <3> QED BY <1>5, <1>8, <3>1, ReadValue
  <2> QED BY <1>1, <1>3, <1>8, <2>1
<1>10. ValsOf(c.args) = <<v.val>>
  <2>1. ValsOf(c.args) = [i \in 1 .. 1 |-> c.args[i].val]
    BY <1>1 DEF ValsOf
  <2> QED BY <1>3, <2>1
<1> QED BY <1>1, <1>2, <1>3, <1>9, <1>10, OneArg

LEMMA ArgsArrive2 ==
    ASSUME NEW c \in Calls, NEW b, Asked(c, b), NEW t, NEW r, TypesOf(c.args) = <<t, r>>
    PROVE  /\ GetArgs(At(b, 24), <<t, r>>).vals = <<c.args[1].val, c.args[2].val>>
           /\ ValsOf(c.args) = <<c.args[1].val, c.args[2].val>>
           /\ GetArgs(At(b, 24), <<t, r>>).u = At(b, Len(b)) /\ Len(c.args) = 2
           /\ IsValue(c.args[1]) /\ c.args[1].type = t
           /\ IsValue(c.args[2]) /\ c.args[2].type = r
           /\ Len(b) = 24 + Len(Enc(c.args[1])) + Len(Enc(c.args[2]))
<1>1. DOMAIN c.args = 1 .. 2 /\ c.args[1].type = t /\ c.args[2].type = r
  <2>1. DOMAIN <<t, r>> = 1 .. 2 /\ <<t, r>>[1] = t /\ <<t, r>>[2] = r
    OBVIOUS
  <2>2. DOMAIN TypesOf(c.args) = DOMAIN c.args
    BY DEF TypesOf
  <2>3. DOMAIN c.args = 1 .. 2
    BY <2>1, <2>2
  <2>4. TypesOf(c.args)[1] = c.args[1].type /\ TypesOf(c.args)[2] = c.args[2].type
    BY <2>3 DEF TypesOf
  <2> QED BY <2>1, <2>3, <2>4
<1>2. Len(c.args) = 2 /\ IsValue(c.args[1]) /\ IsValue(c.args[2])
  <2>1. Len(c.args) = 2
    BY <1>1, LenIs
  <2> QED BY <2>1, CallArgs
<1>3. PICK v : v = c.args[1]
  OBVIOUS
<1>33. PICK w : w = c.args[2]
  OBVIOUS
<1>4. PICK m : m = Fold(c.args)[2].buf
  OBVIOUS
<1>5. KeepsRest(b, m) /\ b \in Seq(Bytes0)
  BY <1>2, <1>4 DEF Asked
<1>6. Laid2(m, v, w)
  BY <1>2, <1>3, <1>33, <1>4, FoldTwo
<1>7. Len(Enc(v)) \in Nat /\ Len(Enc(w)) \in Nat
  BY <1>2, <1>3, <1>33, ValueFits, LenProperties
<1>77. PICK q \in Nat : q = 24 + Len(Enc(v))
  BY <1>7
<1>8. Lies(b, 24, Enc(v)) /\ Lies(b, q, Enc(w)) /\ Len(b) = q + Len(Enc(w))
  <2>1. Len(m) \in Nat /\ Lies(m, 24, Enc(v)) /\ Lies(m, q, Enc(w)) /\ 24 \in Nat /\ 24 >= 24 /\ q >= 24
    BY <1>6, <1>7, <1>77 DEF Laid2
  <2>2. Lies(b, 24, Enc(v))
    BY <1>5, <1>7, <2>1, LiesKept
  <2>3. Lies(b, q, Enc(w))
    BY <1>5, <1>7, <2>1, LiesKept
  <2> QED BY <1>5, <1>6, <1>77, <2>2, <2>3 DEF KeepsRest, Laid2
<1>88. Len(b) < Power[4]
  BY AskedIs
<1>9. get(At(b, 24), t) = [val |-> v.val, u |-> At(b, q)]
  <2>1. get(At(b, 24), v.type) = [val |-> v.val, u |-> At(b, 24 + Len(Enc(v)))]
    <3>1. 24 \in Nat /\ IsValue(v)
      BY <1>2, <1>3
    <3> QED BY <1>5, <1>8, <1>88, <3>1, ReadValue
  <2> QED BY <1>1, <1>3, <1>77, <2>1
<1>10. get(At(b, q), r) = [val |-> w.val, u |-> At(b, Len(b))]
  <2>1. get(At(b, q), w.type) = [val |-> w.val, u |-> At(b, q + Len(Enc(w)))]
    <3>1. IsValue(w)
      BY <1>2, <1>33
    <3> QED BY <1>5, <1>8, <1>88, <3>1, ReadValue
  <2> QED BY <1>1, <1>33, <1>8, <2>1
<1>11. ValsOf(c.args) = <<v.val, w.val>>
  <2>1. ValsOf(c.args) = [i \in 1 .. 2 |-> c.args[i].val]
    BY <1>1 DEF ValsOf
  <2>2. [i \in 1 .. 2 |-> c.args[i].val] = <<c.args[1].val, c.args[2].val>>
    OBVIOUS
  <2> QED BY <1>3, <1>33, <2>1, <2>2
<1>12. /\ GetArgs(At(b, 24), <<t, r>>).vals = <<v.val, w.val>>
       /\ GetArgs(At(b, 24), <<t, r>>).u = At(b, Len(b))
  BY <1>9, <1>10, TwoArgs
<1> QED BY <1>1, <1>2, <1>3, <1>33, <1>77, <1>8, <1>11, <1>12

LEMMA DoneAt == ASSUME NEW b, NEW k, okdone(At(b, k)) PROVE k = Len(b)
  BY DEF okdone, At

LEMMA AtEnd == ASSUME NEW b PROVE okdone(At(b, Len(b)))
  BY DEF okdone, At

LEMMA NotDone == ASSUME NEW u, u.ok = FALSE PROVE ~okdone(u)
  BY DEF okdone

(* A reader that has failed stays so.                                      *)
LEMMA NotOkStays ==
    ASSUME NEW u \in Reader, u.ok = FALSE, NEW t \in DOMAIN Width \cup {"string"}
    PROVE  get(u, t).u.ok = FALSE
<1>1. DOMAIN u = {"buf", "ind", "ok"}
  BY DEF Reader
<1>2. ASSUME NEW n PROVE GetBytes(u, n).u.ok = FALSE
  <2>1. \/ GetBytes(u, n).u = [u EXCEPT !.ind = @ + n]
        \/ GetBytes(u, n).u = [u EXCEPT !.ind = IF Len(u.buf) - u.ind > 0 THEN Len(u.buf) ELSE @, !.ok = FALSE]
    BY DEF GetBytes
  <2>2. [u EXCEPT !.ind = @ + n].ok = FALSE
    BY <1>1
  <2>3. \A k : [u EXCEPT !.ind = k, !.ok = FALSE].ok = FALSE
    BY <1>1
  <2> QED BY <2>1, <2>2, <2>3
<1>3. CASE t = "string"
  <2>1. PICK f : f = GetBytes(u, SizeOfInt)
    OBVIOUS
  <2>2. f.u.ok = FALSE
    BY <1>2, <2>1
  <2>3. get(u, t) = IF f.u.ok THEN GetString(f.u, f.val) ELSE [val |-> <<>>, u |-> f.u]
    BY <1>3, <2>1 DEF get
  <2>4. get(u, t).u = f.u
    BY <2>2, <2>3
  <2> QED BY <2>2, <2>4
<1>4. CASE t # "string"
  <2>1. get(u, t).u = GetBytes(u, Width[t]).u
    BY <1>4 DEF get
  <2> QED BY <1>2, <2>1
<1> QED BY <1>3, <1>4

LEMMA RequestReader == ASSUME NEW b \in Seq(Bytes0), NEW q \in Nat PROVE At(b, q) \in Reader
  BY DEF At, Reader

(* A handler with one argument: what it is given has the bytes sent.       *)
LEMMA ArgsRead1 ==
    ASSUME NEW c \in Calls, NEW b, Asked(c, b), NEW t \in DOMAIN Width \cup {"string"},
           okdone(GetArgs(At(b, 24), <<t>>).u)
    PROVE  /\ IsValue(Val(t, GetArgs(At(b, 24), <<t>>).vals[1]))
           /\ Bytes(Typed(<<t>>, GetArgs(At(b, 24), <<t>>).vals)) = Bytes(c.args)
<1>1. PICK P \in Nat \ {0} : P = Power[4]
  BY Powers
<1>2. PICK g : g = get(At(b, 24), t)
  OBVIOUS
<1>3. PICK a : a = GetArgs(At(b, 24), <<t>>).vals
  OBVIOUS
<1>4. a = <<g.val>> /\ okdone(g.u)
  BY <1>2, <1>3, OneArg
<1>5. /\ b \in Seq(Bytes0) /\ Len(b) \in Nat /\ Len(b) >= 24 /\ Len(b) < Power[4] /\ Clean(b)
      /\ Bytes(c.args) = SubSeq(b, 25, Len(b))
  BY AskedIs DEF Asked
<1>6. Reads(b, 24, t, g)
  <2>1. 24 \in Nat /\ \A i \in 24 + 1 .. Len(b) : b[i] \in ByteSet
    <3>1. 24 + 1 = 25
      OBVIOUS
    <3> QED BY <1>5, <3>1 DEF Clean
  <2> QED BY <1>2, <1>5, <2>1, ReadsValue
<1>7. g.u.ok # FALSE
  BY <1>4, NotDone
<1>8. ~Wrapped(b, 24, t, g)
  <2> SUFFICES ASSUME Wrapped(b, 24, t, g) PROVE FALSE
    OBVIOUS
  <2>1. PICK n \in Nat : n = Len(g.val) /\ n < P /\ 24 + 4 <= Len(b) /\ g.u = At(b, 24 + 4 + n - P)
    BY <1>1 DEF Wrapped
  <2>2. 24 + 4 + n - P = Len(b)
    BY <1>4, <2>1, DoneAt
  <2> QED BY <1>5, <2>1, <2>2
<1>9. Valid(b, 24, t, g)
  BY <1>6, <1>7, <1>8 DEF Reads
<1>10. PICK v : v = Val(t, g.val)
  OBVIOUS
<1>11. IsValue(v) /\ Lies(b, 24, Enc(v)) /\ g.u = At(b, 24 + Len(Enc(v)))
  BY <1>9, <1>10 DEF Valid
<1>12. Laid1(b, v)
  BY <1>4, <1>11, DoneAt DEF Laid1
<1>13. PICK vs : vs = Typed(<<t>>, a)
  OBVIOUS
<1>14. Len(vs) = 1 /\ vs[1] = v
  <2>1. DOMAIN <<t>> = 1 .. 1 /\ <<t>>[1] = t /\ a[1] = g.val
    BY <1>4
  <2>2. DOMAIN vs = 1 .. 1 /\ vs[1] = [type |-> t, val |-> a[1]]
    BY <1>13, <2>1 DEF Typed
  <2>3. Len(vs) = 1
    BY <2>2, LenIs
  <2> QED BY <1>10, <2>1, <2>2, <2>3 DEF Val
<1>15. Bytes(vs) = SubSeq(b, 25, Len(b))
  BY <1>5, <1>11, <1>12, <1>14, TailIsBytes1
<1> QED BY <1>3, <1>4, <1>5, <1>10, <1>11, <1>13, <1>15

(* And one with two, if the first is inside the buffer.                    *)
LEMMA ArgsRead2 ==
    ASSUME NEW c \in Calls, NEW b, Asked(c, b), NEW t \in {"int", "string"}, NEW r \in DOMAIN Width \cup {"string"},
           okdone(GetArgs(At(b, 24), <<t, r>>).u),
           t = "string" => Len(GetArgs(At(b, 24), <<t, r>>).vals[1]) <= Len(b)
    PROVE  /\ IsValue(Val(t, GetArgs(At(b, 24), <<t, r>>).vals[1]))
           /\ IsValue(Val(r, GetArgs(At(b, 24), <<t, r>>).vals[2]))
           /\ Len(Enc(Val(t, GetArgs(At(b, 24), <<t, r>>).vals[1])))
              + Len(Enc(Val(r, GetArgs(At(b, 24), <<t, r>>).vals[2]))) + 24 = Len(b)
           /\ Bytes(Typed(<<t, r>>, GetArgs(At(b, 24), <<t, r>>).vals)) = Bytes(c.args)
<1>1. PICK P \in Nat \ {0} : P = Power[4]
  BY Powers
<1>2. PICK g : g = get(At(b, 24), t)
  OBVIOUS
<1>22. PICK f : f = get(g.u, r)
  OBVIOUS
<1>3. PICK a : a = GetArgs(At(b, 24), <<t, r>>).vals
  OBVIOUS
<1>4. a = <<g.val, f.val>> /\ okdone(f.u) /\ (t = "string" => Len(g.val) <= Len(b))
  <2>1. a = <<g.val, f.val>> /\ okdone(f.u)
    BY <1>2, <1>22, <1>3, TwoArgs
  <2>2. a[1] = g.val
    BY <2>1
  <2> QED BY <1>3, <2>1, <2>2
<1>5. /\ b \in Seq(Bytes0) /\ Len(b) \in Nat /\ Len(b) >= 24 /\ 2 * Len(b) < P /\ Len(b) < Power[4] /\ Clean(b)
      /\ Bytes(c.args) = SubSeq(b, 25, Len(b))
  BY <1>1, AskedIs DEF Asked
<1>55. t \in DOMAIN Width \cup {"string"}
  BY DEF Width
<1>6. Reads(b, 24, t, g)
  <2>1. 24 \in Nat /\ \A i \in 24 + 1 .. Len(b) : b[i] \in ByteSet
    <3>1. 24 + 1 = 25
      OBVIOUS
    <3> QED BY <1>5, <3>1 DEF Clean
  <2> QED BY <1>2, <1>5, <1>55, <2>1, ReadsValue
<1>7. g.u.ok # FALSE
  <2> SUFFICES ASSUME g.u.ok = FALSE PROVE FALSE
    OBVIOUS
  <2>1. g.u \in Reader
    <3>1. At(b, 24) \in Reader
      BY <1>5, RequestReader
    <3> QED BY <1>2, <3>1, GetsValue
  <2>2. f.u.ok = FALSE
    BY <1>22, <2>1, NotOkStays
  <2> QED BY <1>4, <2>2, NotDone
<1>8. ~Wrapped(b, 24, t, g)
  <2> SUFFICES ASSUME Wrapped(b, 24, t, g) PROVE FALSE
    OBVIOUS
  <2>1. t = "string"
    BY DEF Wrapped
  <2>2. PICK n \in Nat : n = Len(g.val) /\ n < P /\ 24 + 4 <= Len(b) /\ P <= 24 + 4 + n
    BY <1>1 DEF Wrapped
  <2>3. n <= Len(b)
    BY <1>4, <2>1, <2>2
  <2> QED BY <1>5, <2>2, <2>3
<1>9. Valid(b, 24, t, g)
  BY <1>6, <1>7, <1>8 DEF Reads
<1>10. PICK v : v = Val(t, g.val)
  OBVIOUS
<1>11. IsValue(v) /\ Lies(b, 24, Enc(v)) /\ g.u = At(b, 24 + Len(Enc(v)))
  BY <1>9, <1>10 DEF Valid
<1>12. PICK q \in Nat : q = 24 + Len(Enc(v)) /\ q <= Len(b)
  <2>1. Len(Enc(v)) \in Nat
    BY <1>11, ValueFits, LenProperties
  <2> QED BY <1>11, <2>1 DEF Lies
<1>13. f = get(At(b, q), r)
  BY <1>22, <1>11, <1>12
<1>14. Reads(b, q, r, f)
  <2>1. \A i \in q + 1 .. Len(b) : b[i] \in ByteSet
    <3>1. \A i \in q + 1 .. Len(b) : i \in 25 .. Len(b)
      <4>1. q >= 24
        <5>1. Len(Enc(v)) \in Nat
          BY <1>11, ValueFits, LenProperties
        <5> QED BY <1>12, <5>1
      <4> QED BY <1>5, <4>1
    <3> QED BY <1>5, <3>1 DEF Clean
  <2> QED BY <1>5, <1>13, <2>1, ReadsValue
<1>15. f.u.ok # FALSE
  BY <1>4, NotDone
<1>16. ~Wrapped(b, q, r, f)
  <2> SUFFICES ASSUME Wrapped(b, q, r, f) PROVE FALSE
    OBVIOUS
  <2>1. PICK n \in Nat : n = Len(f.val) /\ n < P /\ q + 4 <= Len(b) /\ f.u = At(b, q + 4 + n - P)
    BY <1>1 DEF Wrapped
  <2>2. q + 4 + n - P = Len(b)
    BY <1>4, <2>1, DoneAt
  <2>3. PICK l \in Nat : l = Len(b)
    BY <1>5
  <2>4. q + 4 + n - P = l /\ q + 4 <= l /\ n < P
    BY <2>1, <2>2, <2>3
  <2> QED BY <2>4
<1>17. Valid(b, q, r, f)
  BY <1>14, <1>15, <1>16 DEF Reads
<1>18. PICK w : w = Val(r, f.val)
  OBVIOUS
<1>19. IsValue(w) /\ Lies(b, q, Enc(w)) /\ f.u = At(b, q + Len(Enc(w)))
  BY <1>17, <1>18 DEF Valid
<1>20. q + Len(Enc(w)) = Len(b)
  BY <1>4, <1>19, DoneAt
<1>21. Laid2(b, v, w)
  BY <1>11, <1>12, <1>19, <1>20 DEF Laid2
<1>23. PICK vs : vs = Typed(<<t, r>>, a)
  OBVIOUS
<1>24. Len(vs) = 2 /\ vs[1] = v /\ vs[2] = w /\ a[1] = g.val /\ a[2] = f.val
  <2>1. DOMAIN <<t, r>> = 1 .. 2 /\ <<t, r>>[1] = t /\ <<t, r>>[2] = r /\ a[1] = g.val /\ a[2] = f.val
    BY <1>4
  <2>2. DOMAIN vs = 1 .. 2 /\ vs[1] = [type |-> t, val |-> a[1]] /\ vs[2] = [type |-> r, val |-> a[2]]
    BY <1>23, <2>1 DEF Typed
  <2>3. Len(vs) = 2
    BY <2>2, LenIs
  <2> QED BY <1>10, <1>18, <2>1, <2>2, <2>3 DEF Val
<1>25. Bytes(vs) = SubSeq(b, 25, Len(b))
  BY <1>5, <1>11, <1>19, <1>21, <1>24, TailIsBytes2
<1>26. v = Val(t, a[1]) /\ w = Val(r, a[2])
  BY <1>10, <1>18, <1>24
<1>27. Len(Enc(v)) + Len(Enc(w)) + 24 = Len(b)
  <2>1. Len(Enc(v)) \in Nat /\ Len(Enc(w)) \in Nat
    BY <1>11, <1>19, ValueFits, LenProperties
  <2> QED BY <1>12, <1>20, <2>1
<1> QED BY <1>3, <1>5, <1>11, <1>19, <1>23, <1>25, <1>26, <1>27

-----------------------------------------------------------------------------
(* The results of the handlers, and the reply.                             *)

(* The handlers, one by one.                                               *)
LEMMA ProcTypes ==
    ASSUME NEW p \in DOMAIN procs_
    PROVE  \/ p = 22 /\ procs_[p].args = <<"string", "string">> /\ procs_[p].r = "string"
           \/ p = 25 /\ procs_[p].args = <<"int">> /\ procs_[p].r = "string"
           \/ p = 74 /\ procs_[p].args = <<"int", "ull">> /\ procs_[p].r = "int"
           \/ p \in {1, 23, 24} /\ procs_[p].args = <<"int">> /\ procs_[p].r = "int"
  BY DEF procs_

LEMMA TypesAreTypes ==
    {"int", "ull", "string"} \subseteq DOMAIN Width \cup {"string"} /\ "int" \in DOMAIN Width /\ Width["int"] = 4
    /\ ValuesOf("int") = Int32
<1>1. "int" \in SignedTypes /\ Width["int"] = 4
  BY DEF SignedTypes, Width
<1>2. ValuesOf("int") = Int32
  BY <1>1, Sizes DEF ValuesOf, Int32
<1> QED BY <1>1, <1>2 DEF Width

LEMMA IntIsValue ==
    ASSUME NEW c \in Calls, NEW x \in Int32
    PROVE  IsValue(Val("int", <<x>>)) /\ Len(Enc(Val("int", <<x>>))) + 24 < Power[4]
<1>1. PICK v : v = Val("int", <<x>>)
  OBVIOUS
<1>2. v.type = "int" /\ v.val = <<x>>
  BY <1>1 DEF Val
<1>3. x \in Int
  BY IntsReturn
<1>4. v.val \in Seq(Int) /\ Len(v.val) = 1 /\ v.val[1] = x
  BY <1>2, <1>3
<1>5. IsValue(v)
  BY <1>2, <1>4, TypesAreTypes DEF IsValue
<1>6. Len(Enc(v)) = 4
  BY <1>2, <1>3, <1>4, TypesAreTypes, EncInt
<1>7. PICK k \in Nat : Power[4] = 2 * k /\ k >= 128
  BY BigEnough
<1>8. Len(Enc(v)) + 24 < Power[4]
  BY <1>6, <1>7
<1> QED BY <1>1, <1>5, <1>8

(* What a handler that runs puts into r can be sent.                       *)
LEMMA ResultFits ==
    ASSUME NEW c \in Calls, NEW b, Asked(c, b), NEW p \in DOMAIN procs_, NEW g, g = GetArgs(At(b, 24), procs_[p].args),
           okdone(g.u), p = 22 => Len(g.vals[1]) <= Len(b)
    PROVE  /\ IsValue(Val(procs_[p].r, meth(p, g.vals)))
           /\ Len(Enc(Val(procs_[p].r, meth(p, g.vals)))) + 24 < Power[4]
<1>1. PICK k \in Nat : Power[4] = 2 * k /\ k >= 128 /\ Int32 = -k .. k - 1
  BY BigEnough
<1>2. Len(b) \in Nat /\ Len(b) < Power[4]
  BY AskedIs
<1>3. CASE p = 22
  <2>1. procs_[p].args = <<"string", "string">> /\ procs_[p].r = "string"
    BY <1>3, ProcTypes
  <2>2. /\ IsValue(Val("string", g.vals[1])) /\ IsValue(Val("string", g.vals[2]))
        /\ Len(Enc(Val("string", g.vals[1]))) + Len(Enc(Val("string", g.vals[2]))) + 24 = Len(b)
    <3>1. /\ g = GetArgs(At(b, 24), <<"string", "string">>) /\ okdone(g.u)
          /\ Len(g.vals[1]) <= Len(b)
      BY <1>3, <2>1
    <3> QED BY <3>1, ArgsRead2, TypesAreTypes
  <2>3. ASSUME NEW x, IsValue(Val("string", x))
        PROVE  x \in Seq(ByteSet) /\ Len(x) \in Nat /\ Len(Enc(Val("string", x))) = 4 + Len(x)
    <3>1. Val("string", x).type = "string" /\ Val("string", x).val = x
      BY DEF Val
    <3>2. "string" \notin DOMAIN Width
      BY DEF Width
    <3>3. x \in Seq(ByteSet)
      BY <2>3, <3>1, <3>2 DEF IsValue, ByteSet
    <3> QED BY <3>1, <3>3, EncString, LenProperties
  <2>4. PICK x \in Seq(ByteSet) : x = g.vals[1] /\ Len(x) \in Nat /\ Len(Enc(Val("string", g.vals[1]))) = 4 + Len(x)
    BY <2>2, <2>3
  <2>5. PICK y \in Seq(ByteSet) : y = g.vals[2] /\ Len(y) \in Nat /\ Len(Enc(Val("string", g.vals[2]))) = 4 + Len(y)
    BY <2>2, <2>3
  <2>6. PICK z \in Seq(ByteSet) : z = x \o y /\ Len(z) = Len(x) + Len(y)
    BY ConcatProperties
  <2>7. meth(p, g.vals) = z
    <3>1. meth(22, g.vals) = g.vals[1] \o g.vals[2]
      BY Handlers
    <3> QED BY <1>3, <2>4, <2>5, <2>6, <3>1
  <2>8. PICK v : v = Val("string", z)
    OBVIOUS
  <2>9. v.type = "string" /\ v.val = z
    BY <2>8 DEF Val
  <2>10. IsValue(v) /\ Len(Enc(v)) = 4 + Len(z)
    BY <2>9, EncString DEF IsValue, ByteSet
  <2>11. Len(Enc(v)) + 24 < Power[4]
    <3>1. PICK l \in Nat : l = Len(b)
      BY <1>2
    <3>2. PICK m \in Nat : m = Len(x)
      BY <2>4
    <3>3. PICK n \in Nat : n = Len(y)
      BY <2>5
    <3>4. (4 + m) + (4 + n) + 24 = l
      BY <2>2, <2>4, <2>5, <3>1, <3>2, <3>3
    <3>5. Len(Enc(v)) = 4 + (m + n)
      BY <2>6, <2>10, <3>2, <3>3
    <3>6. (4 + (m + n)) + 24 < 2 * k
      BY <1>1, <1>2, <3>1, <3>4
    <3> QED BY <1>1, <3>5, <3>6
  <2> QED BY <2>1, <2>7, <2>8, <2>10, <2>11
<1>4. CASE p \in {23, 24, 25}
  <2>1. procs_[p].args = <<"int">>
    BY <1>4, ProcTypes
  <2>2. IsValue(Val("int", g.vals[1]))
    <3>1. g = GetArgs(At(b, 24), <<"int">>) /\ okdone(g.u)
      BY <2>1
    <3> QED BY <3>1, ArgsRead1, TypesAreTypes
  <2>3. PICK x \in Int32 : x = g.vals[1][1]
    <3>1. Val("int", g.vals[1]).type = "int" /\ Val("int", g.vals[1]).val = g.vals[1]
      BY DEF Val
    <3> QED BY <2>2, <3>1, TypesAreTypes DEF IsValue
  <2>4. x \in Int
    BY <1>1
  <2>5. CASE p \in {23, 24}
    <3>1. PICK y \in Int32 : meth(p, g.vals) = <<y>>
      <4>1. \A z \in Int : AsInt(z) \in Int32
        BY AsIntIsInt
      <4>2. x + 1 \in Int /\ x + 2 \in Int
        BY <2>4
      <4>3. meth(p, g.vals) = <<AsInt(x + 1)>> \/ meth(p, g.vals) = <<AsInt(x + 2)>>
        BY <2>3, <2>5, Handlers
      <4> QED BY <4>1, <4>2, <4>3
    <3>2. procs_[p].r = "int"
      BY <2>5, ProcTypes
    <3> QED BY <3>1, <3>2, IntIsValue
  <2>6. CASE p = 25
    <3>1. PICK s : s = [i \in 1 .. x |-> 1]
      OBVIOUS
    <3>2. meth(p, g.vals) = s
      BY <2>3, <2>6, <3>1 DEF meth
    <3>3. PICK n \in Nat : 1 .. x = 1 .. n /\ n <= k
      <4>1. CASE x >= 0
        BY <1>1, <2>4, <4>1
      <4>2. CASE x < 0
        <5>1. 1 .. x = 1 .. 0 /\ 0 \in Nat /\ 0 <= k
          BY <2>4, <4>2
        <5> QED BY <5>1
      <4> QED BY <2>4, <4>1, <4>2
    <3>4. 1 \in ByteSet
      BY Powers DEF ByteSet
    <3>5. s \in [1 .. n -> ByteSet]
      BY <3>1, <3>3, <3>4
    <3>6. s \in Seq(ByteSet) /\ Len(s) = n
      <4>1. s \in Seq(ByteSet)
        BY <3>5, SeqDef
      <4>2. DOMAIN s = 1 .. n
        BY <3>5
      <4> QED BY <4>1, <4>2, LenIs
    <3>7. PICK v : v = Val("string", s)
      OBVIOUS
    <3>8. v.type = "string" /\ v.val = s
      BY <3>7 DEF Val
    <3>9. IsValue(v) /\ Len(Enc(v)) = 4 + Len(s)
      BY <3>6, <3>8, EncString DEF IsValue, ByteSet
    <3>10. Len(Enc(v)) + 24 < Power[4]
      BY <1>1, <3>3, <3>6, <3>9
    <3>11. procs_[p].r = "string"
      BY <2>6, ProcTypes
    <3> QED BY <3>2, <3>7, <3>9, <3>10, <3>11
  <2> QED BY <1>4, <2>5, <2>6
<1>5. CASE p \in {1, 74}
  <2>1. PICK y \in Int32 : meth(p, g.vals) = <<y>>
    <3>1. nonce_ \in Int32 /\ 2 \in Int32
      BY <1>1, StatusesAssumption
    <3>2. p = 1 => meth(p, g.vals) = <<nonce_>>
      BY DEF meth
    <3>3. p = 74 => meth(p, g.vals) = <<2>>
      BY DEF meth
    <3> QED BY <1>5, <3>1, <3>2, <3>3
  <2>2. procs_[p].r = "int"
    BY <1>5, ProcTypes
  <2> QED BY <2>1, <2>2, IntIsValue
<1>6. p \in {1, 22, 23, 24, 25, 74}
  BY DEF procs_
<1> QED BY <1>3, <1>4, <1>5, <1>6

(* A reply with value v behind its header.                                 *)
LEMMA ReplyLaid ==
    ASSUME NEW v, IsValue(v), NEW xid \in Int32, NEW ret \in Int32,
           NEW rep, rep = pack_reply_header(put(marshall, v), [xid |-> xid, ret |-> ret])
    PROVE  /\ take_buf(rep) = rep.buf /\ rep.buf \in Seq(Bytes0) /\ Clean(rep.buf) /\ Laid1(rep.buf, v)
           /\ take_in(take_buf(rep)) = At(rep.buf, 24)
<1>1. PICK m : m = put(marshall, v)
  OBVIOUS
<1>2. PICK e \in Seq(ByteSet) : e = Enc(v) /\ Len(e) \in Nat
  BY ValueFits, LenProperties
<1>3. Marshalled(m) /\ Joined(marshall.buf, e, Bytes0, m.buf)
  BY <1>1, <1>2, PutIs, FreshIsMarshalled
<1>4. Len(m.buf) = 24 + Len(e) /\ \A i \in 1 .. Len(e) : m.buf[24 + i] = e[i]
  BY <1>3, FreshIsMarshalled DEF Joined
<1>5. Lies(m.buf, 24, e)
  BY <1>2, <1>4 DEF Lies
<1>6. Written(rep, Bytes0) /\ take_buf(rep) = rep.buf /\ KeepsRest(rep.buf, m.buf)
  BY <1>1, <1>3, ReplyHeaderArrives, BytesAreNumbers DEF Marshalled
<1>7. rep.buf \in Seq(Bytes0)
  BY <1>6 DEF Written
<1>8. Clean(rep.buf)
  BY <1>3, <1>6 DEF Marshalled, Clean, KeepsRest
<1>9. Lies(rep.buf, 24, e)
  <2>1. Len(m.buf) \in Nat /\ 24 \in Nat /\ 24 >= 24
    BY <1>2, <1>4
  <2> QED BY <1>2, <1>5, <1>6, <2>1, LiesKept
<1>10. Len(rep.buf) = 24 + Len(e)
  BY <1>4, <1>6 DEF KeepsRest
<1>11. Laid1(rep.buf, v)
  BY <1>2, <1>9, <1>10 DEF Laid1
<1>12. take_in(rep.buf) = At(rep.buf, 24)
  <2>1. (Len(rep.buf) >= RPC_HEADER_SZ) = TRUE
    BY <1>2, <1>10, Sizes
  <2> QED BY <2>1, Sizes DEF take_in, At
<1> QED BY <1>6, <1>7, <1>8, <1>11, <1>12

(* The caller's r: the value sent, or one with the same bytes.             *)
LEMMA ReplyRead ==
    ASSUME NEW v, IsValue(v), NEW b \in Seq(Bytes0), Clean(b), Laid1(b, v), Len(Enc(v)) + 24 < Power[4],
           NEW t \in DOMAIN Width \cup {"string"}, NEW g, g = get(At(b, 24), t)
    PROVE  /\ t = v.type => g.val = v.val /\ okdone(g.u)
           /\ okdone(g.u) => Bytes(<<Val(t, g.val)>>) = Bytes(<<v>>)
<1>1. PICK P \in Nat \ {0} : P = Power[4]
  BY Powers
<1>2. Len(Enc(v)) \in Nat
  BY ValueFits, LenProperties
<1>3. Len(b) \in Nat /\ Len(b) < Power[4] /\ Len(b) = 24 + Len(Enc(v)) /\ Lies(b, 24, Enc(v))
  BY <1>1, <1>2 DEF Laid1
<1>4. ASSUME t = v.type PROVE g.val = v.val /\ okdone(g.u)
  <2>1. get(At(b, 24), v.type) = [val |-> v.val, u |-> At(b, 24 + Len(Enc(v)))]
    BY <1>3, ReadValue
  <2>2. g.val = v.val /\ g.u = At(b, Len(b))
    BY <1>3, <1>4, <2>1
  <2> QED BY <2>2, AtEnd
<1>5. ASSUME okdone(g.u) PROVE Bytes(<<Val(t, g.val)>>) = Bytes(<<v>>)
  <2>1. Reads(b, 24, t, g)
    <3>1. 24 \in Nat /\ \A i \in 24 + 1 .. Len(b) : b[i] \in ByteSet
      <4>1. 24 + 1 = 25
        OBVIOUS
      <4> QED BY <4>1 DEF Clean
    <3> QED BY <1>3, <3>1, ReadsValue
  <2>2. g.u.ok # FALSE
    BY <1>5, NotDone
  <2>3. ~Wrapped(b, 24, t, g)
    <3> SUFFICES ASSUME Wrapped(b, 24, t, g) PROVE FALSE
      OBVIOUS
    <3>1. PICK n \in Nat : n = Len(g.val) /\ n < P /\ 24 + 4 <= Len(b) /\ g.u = At(b, 24 + 4 + n - P)
      BY <1>1 DEF Wrapped
    <3>2. 24 + 4 + n - P = Len(b)
      BY <1>5, <3>1, DoneAt
    <3> QED BY <1>3, <3>1, <3>2
  <2>4. Valid(b, 24, t, g)
    BY <2>1, <2>2, <2>3 DEF Reads
  <2>5. PICK w : w = Val(t, g.val)
    OBVIOUS
  <2>6. IsValue(w) /\ Lies(b, 24, Enc(w)) /\ g.u = At(b, 24 + Len(Enc(w)))
    BY <2>4, <2>5 DEF Valid
  <2>7. Laid1(b, w)
    BY <1>5, <2>6, DoneAt DEF Laid1
  <2>8. ASSUME NEW x, IsValue(x), Laid1(b, x) PROVE Bytes(<<x>>) = SubSeq(b, 25, Len(b))
    <3>1. Len(<<x>>) = 1 /\ <<x>>[1] = x
      OBVIOUS
    <3> QED BY <2>8, <3>1, TailIsBytes1
  <2> QED BY <2>5, <2>6, <2>7, <2>8
<1> QED BY <1>4, <1>5

-----------------------------------------------------------------------------
(* Where the values of a call are: the first k arguments are marshalled,   *)
(* all of them stand behind the header of what is sent, the server has     *)
(* made of that what dispatch makes of it, and the caller has the reply    *)
(* and has made of it what call_m makes of it.                             *)

ArgsSoFar ==
    pc = "args" =>
       /\ ~srv.seen /\ ~ca.done
       /\ \E k \in 0 .. Len(call.args) :
             /\ Len(todo) = Len(call.args) - k /\ req = Fold(call.args)[k]
             /\ \A i \in 1 .. Len(todo) : todo[i] = call.args[k + i]

ArgsSent ==
    pc # "args" => /\ Asked(call, req.buf)
                   /\ unpack_req_header(unmarshall(take_buf(req))).u = At(req.buf, 24)

AsDispatched ==
    srv.seen => /\ h.proc \in DOMAIN procs_
                /\ \E status \in Statuses : srv = Dispatched(h, At(req.buf, 24), status)

ReplyTaken == ca.done => ca.un = take_in(take_buf(srv.rep))

Outcome == LET intret == IF ca.done THEN ca.intret ELSE timeout_failure
               g == get(ca.un, call.rtype)
           IN  IF intret < 0 THEN [ret |-> intret, val |-> <<>>]
               ELSE [ret |-> IF okdone(g.u) THEN intret ELSE unmarshal_reply_failure, val |-> g.val]

AsReturned == pc = "returned" => out = Outcome

CallInv == ArgsSoFar /\ ArgsSent /\ AsDispatched /\ ReplyTaken /\ AsReturned

LEMMA CallInit == Init => CallInv
<1> SUFFICES ASSUME Init PROVE CallInv
  OBVIOUS
<1>1. call \in Calls /\ todo = call.args /\ req = marshall /\ pc = "args"
  BY DEF Init
<1>2. srv.seen = FALSE /\ ca.done = FALSE
  BY DEF Init, NotServed
<1>3. Len(call.args) \in Nat
  BY <1>1, CallArgs
<1>4. Fold(call.args)[0] = marshall
  BY <1>3, FoldSteps
<1>5. \E k \in 0 .. Len(call.args) :
             /\ Len(todo) = Len(call.args) - k /\ req = Fold(call.args)[k]
             /\ \A i \in 1 .. Len(todo) : todo[i] = call.args[k + i]
  <2>1. 0 \in 0 .. Len(call.args) /\ Len(todo) = Len(call.args) - 0 /\ \A i \in 1 .. Len(todo) : 0 + i = i
    BY <1>1, <1>3
  <2>2. \A i \in 1 .. Len(todo) : todo[i] = call.args[0 + i]
    BY <1>1, <2>1
  <2> QED BY <1>1, <1>4, <2>1, <2>2
<1>6. ArgsSoFar
  BY <1>2, <1>5 DEF ArgsSoFar
<1> QED BY <1>1, <1>2, <1>6 DEF CallInv, ArgsSent, AsDispatched, ReplyTaken, AsReturned

LEMMA CallNext == CallInv /\ MarshalInv /\ [Next]_vars => CallInv'
<1> SUFFICES ASSUME CallInv, MarshalInv, [Next]_vars PROVE CallInv'
  OBVIOUS
<1>0. ArgsSoFar /\ ArgsSent /\ AsDispatched /\ ReplyTaken /\ AsReturned
  BY DEF CallInv
<1>00. Marshalling /\ Sent /\ Served
  BY DEF MarshalInv
<1>1. CASE marshall_arg
  <2>1. /\ UNCHANGED <<call, h, pc, srv, ca, out>> /\ pc = "args" /\ todo # <<>>
        /\ req' = put(req, Head(todo)) /\ todo' = Tail(todo)
    BY <1>1 DEF marshall_arg
  <2>2. ~srv.seen /\ ~ca.done
    BY <1>0, <2>1 DEF ArgsSoFar
  <2>3. PICK k \in 0 .. Len(call.args) :
             /\ Len(todo) = Len(call.args) - k /\ req = Fold(call.args)[k]
             /\ \A i \in 1 .. Len(todo) : todo[i] = call.args[k + i]
    BY <1>0, <2>1 DEF ArgsSoFar
  <2>4. PICK n \in Nat : n = Len(call.args)
    BY <1>00, CallArgs DEF Marshalling
  <2>5. PICK s \in Seq(ArgsOf(call)) : s = todo /\ s # <<>>
    BY <1>00, <2>1 DEF Marshalling
  <2>6. PICK l \in Nat \ {0} : l = Len(s)
    BY <2>5, LenProperties, EmptySeq
  <2>7. /\ Tail(s) \in Seq(ArgsOf(call)) /\ Len(Tail(s)) = l - 1 /\ Head(s) = s[1]
        /\ \A i \in 1 .. l - 1 : Tail(s)[i] = s[i + 1]
    <3>1. /\ Tail(s) \in Seq(ArgsOf(call)) /\ Len(Tail(s)) = Len(s) - 1 /\ Head(s) = s[1]
      BY <2>5, HeadTailProperties
    <3>2. \A i \in 1 .. Len(s) - 1 : Tail(s)[i] = s[i + 1]
      BY <2>5, HeadTailProperties
    <3> QED BY <2>6, <3>1, <3>2
  <2>8. l = n - k /\ \A i \in 1 .. l : s[i] = call.args[k + i]
    BY <2>3, <2>4, <2>5, <2>6
  <2>9. PICK j \in 1 .. n : j = k + 1 /\ j - 1 = k
    <3>1. k + 1 \in 1 .. n
      BY <2>4, <2>6, <2>8
    <3> QED BY <3>1
  <2>10. Fold(call.args)[j] = put(Fold(call.args)[j - 1], call.args[j])
    BY <2>4, FoldSteps
  <2>11. req' = Fold(call.args)[j]
    <3>1. 1 \in 1 .. l
      BY <2>6
    <3>2. Head(todo) = call.args[j]
      BY <2>5, <2>7, <2>8, <2>9, <3>1
    <3> QED BY <2>1, <2>3, <2>9, <2>10, <3>2
  <2>12. Len(todo') = n - j /\ \A i \in 1 .. Len(todo') : todo'[i] = call.args[j + i]
    <3>1. todo' = Tail(s)
      BY <2>1, <2>5
    <3>2. l - 1 = n - j
      BY <2>4, <2>8, <2>9
    <3>3. ASSUME NEW i \in 1 .. l - 1 PROVE Tail(s)[i] = call.args[j + i]
      <4>1. i + 1 \in 1 .. l /\ k + (i + 1) = j + i
        BY <2>9
      <4>2. s[i + 1] = call.args[k + (i + 1)]
        BY <2>8, <4>1
      <4> QED BY <2>7, <4>1, <4>2
    <3> QED BY <2>7, <3>1, <3>2, <3>3
  <2>13. ArgsSoFar'
    <3>1. j \in 0 .. Len(call.args)
      BY <2>4
    <3> QED BY <2>1, <2>2, <2>4, <2>11, <2>12, <3>1 DEF ArgsSoFar
  <2> QED BY <2>1, <2>2, <2>13 DEF CallInv, ArgsSent, AsDispatched, ReplyTaken, AsReturned
<1>2. CASE call1
  <2>1. /\ UNCHANGED <<call, h, todo, srv, ca, out>> /\ pc' = "top" /\ req' = pack_req_header(req, h)
        /\ pc = "args" /\ todo = <<>>
    BY <1>2 DEF call1
  <2>2. ~srv.seen /\ ~ca.done
    BY <1>0, <2>1 DEF ArgsSoFar
  <2>3. req = Fold(call.args)[Len(call.args)]
    <3>1. PICK k \in 0 .. Len(call.args) : Len(todo) = Len(call.args) - k /\ req = Fold(call.args)[k]
      BY <1>0, <2>1 DEF ArgsSoFar
    <3>2. Len(todo) = 0 /\ Len(call.args) \in Nat
      BY <1>00, <2>1, CallArgs DEF Marshalling
    <3>3. k = Len(call.args)
      BY <3>1, <3>2
    <3> QED BY <3>1, <3>3
  <2>4. h \in Headers /\ Written(req, Bytes0)
    BY <1>00 DEF Marshalling
  <2>5. /\ unpack_req_header(unmarshall(take_buf(req'))).u = At(req'.buf, 24)
        /\ Written(req', Bytes0) /\ KeepsRest(req'.buf, req.buf)
    BY <2>1, <2>4, RequestHeaderArrives, BytesAreNumbers DEF Headers
  <2>6. Asked(call, req'.buf)
    BY <2>3, <2>5 DEF Asked, Written
  <2>7. ArgsSent'
    BY <2>1, <2>5, <2>6 DEF ArgsSent
  <2> QED BY <2>1, <2>2, <2>7 DEF CallInv, ArgsSoFar, AsDispatched, ReplyTaken, AsReturned
<1>3. ASSUME UNCHANGED <<call, h, req, srv, ca>>, pc # "args", pc' # "args", AsReturned'
      PROVE  CallInv'
  BY <1>0, <1>3 DEF CallInv, ArgsSoFar, ArgsSent, AsDispatched, ReplyTaken
<1>4. CASE loop_top \/ set_deadline \/ timed_out \/ woken \/ Break \/ Tick
  <2>1. UNCHANGED <<call, h, req, srv, ca>> /\ pc # "args" /\ pc' # "args" /\ pc' # "returned"
    BY <1>4 DEF loop_top, set_deadline, timed_out, woken, Break, Tick, Pending
  <2> QED BY <1>3, <2>1 DEF AsReturned
<1>5. CASE call_m
  <2>1. UNCHANGED <<call, h, req, srv, ca>> /\ pc # "args" /\ pc' = "returned" /\ out' = Outcome
    BY <1>5 DEF call_m, Outcome
  <2>2. Outcome' = Outcome
    BY <2>1 DEF Outcome
  <2> QED BY <1>3, <2>1, <2>2 DEF AsReturned
<1>6. CASE dispatch
  <2> DEFINE u == unpack_req_header(unmarshall(take_buf(req)))
  <2>1. UNCHANGED <<call, h, todo, req, ca, pc, out>> /\ "req" \in wire /\ pc # "args"
    BY <1>00, <1>6 DEF dispatch, Marshalling
  <2>2. u.h = h /\ u.u = At(req.buf, 24)
    BY <1>0, <1>00, <2>1 DEF Sent, ArgsSent
  <2>3. \/ srv' = srv
        \/ /\ ~srv.seen /\ h.proc \in DOMAIN procs_
           /\ \E status \in Statuses : srv' = Dispatched(h, At(req.buf, 24), status)
    <3> HIDE DEF u
    <3>1. IF u.h.proc \in DOMAIN procs_
          THEN /\ wire' = (wire \ {"req"}) \cup {"rep"}
               /\ IF srv.seen THEN UNCHANGED srv
                  ELSE \E status \in Statuses : srv' = Dispatched(u.h, u.u, status)
          ELSE wire' = wire \ {"req"} /\ UNCHANGED srv
      BY <1>6 DEF dispatch, u
    <3> QED BY <2>2, <3>1
  <2>4. AsReturned'
    <3>1. Outcome' = Outcome
      BY <2>1 DEF Outcome
    <3> QED BY <1>0, <2>1, <3>1 DEF AsReturned
  <2>5. CASE srv' = srv
    BY <1>3, <2>1, <2>4, <2>5
  <2>6. CASE /\ ~srv.seen /\ h.proc \in DOMAIN procs_
             /\ \E status \in Statuses : srv' = Dispatched(h, At(req.buf, 24), status)
    <3>1. ~ca.done
      BY <1>00, <2>6 DEF Served
    <3>2. AsDispatched'
      BY <2>1, <2>6 DEF AsDispatched
    <3>3. ReplyTaken' /\ ArgsSoFar'
      BY <2>1, <3>1 DEF ReplyTaken, ArgsSoFar
    <3>4. ArgsSent'
      BY <1>0, <2>1 DEF ArgsSent
    <3> QED BY <2>4, <3>2, <3>3, <3>4 DEF CallInv
  <2> QED BY <2>3, <2>5, <2>6
<1>7. CASE got_pdu
  <2>1. UNCHANGED <<call, h, todo, req, srv, pc, out>> /\ pc # "args" /\ pc # "returned"
    BY <1>7 DEF got_pdu, Pending
  <2>2. ReplyTaken'
    <3> DEFINE b == take_buf(srv.rep)
               rh == unpack_reply_header(unmarshall(b)).h
    <3>2. ca' = IF rh.xid = h.xid /\ ~ca.done
                THEN [done |-> TRUE, intret |-> rh.ret, un |-> take_in(b)] ELSE ca
      BY <1>7 DEF got_pdu
    <3>3. take_buf(srv'.rep) = b
      BY <2>1
    <3> HIDE DEF rh, b
    <3>4. ca' = ca \/ ca'.un = take_in(b)
      BY <3>2
    <3>5. ca' = ca => ReplyTaken'
      BY <1>0, <2>1 DEF ReplyTaken
    <3>6. ca'.un = take_in(b) => ReplyTaken'
      BY <3>3 DEF ReplyTaken
    <3> QED BY <3>4, <3>5, <3>6
  <2>3. ArgsSoFar' /\ ArgsSent' /\ AsDispatched' /\ AsReturned'
    BY <1>0, <2>1 DEF ArgsSoFar, ArgsSent, AsDispatched, AsReturned
  <2> QED BY <2>2, <2>3 DEF CallInv
<1>8. CASE UNCHANGED vars
  <2>1. Outcome' = Outcome
    BY <1>8 DEF Outcome, vars
  <2>2. UNCHANGED <<call, h, req, srv, ca, pc, out, todo>>
    BY <1>8 DEF vars
  <2> QED BY <1>0, <2>1, <2>2 DEF CallInv, ArgsSoFar, ArgsSent, AsDispatched, ReplyTaken, AsReturned
<1> QED BY <1>1, <1>2, <1>4, <1>5, <1>6, <1>7, <1>8 DEF Next, Caller

LEMMA CallAlways == Spec => [](CallInv /\ MarshalInv)
<1>1. CallInv /\ MarshalInv /\ [Next]_vars => (CallInv /\ MarshalInv)'
  BY CallNext, MarshalNext
<1> QED BY <1>1, CallInit, MarshalInit, PTL DEF Spec

-----------------------------------------------------------------------------
(* What a request and its reply are when they arrive.                      *)

(* What dispatch left of a request with header hd and arguments g.         *)
Ran(hd, g, status, d) ==
    /\ d.ran = TRUE /\ d.args = g.vals /\ d.ret = status /\ d.r = meth(hd.proc, g.vals)
    /\ d.rep = pack_reply_header(put(marshall, Val(procs_[hd.proc].r, meth(hd.proc, g.vals))),
                                 [xid |-> hd.xid, ret |-> status])

NotRan(d) == d.ran = FALSE /\ d.ret = unmarshal_args_failure /\ d.args = <<>>

LEMMA DispatchedIs ==
    ASSUME NEW hd, NEW u, NEW status, NEW g, g = GetArgs(u, procs_[hd.proc].args),
           NEW d, d = Dispatched(hd, u, status)
    PROVE  /\ okdone(g.u) => Ran(hd, g, status, d)
           /\ ~okdone(g.u) => NotRan(d)
<1>1. PICK r : r = meth(hd.proc, g.vals)
  OBVIOUS
<1>2. PICK v : v = Val(procs_[hd.proc].r, r)
  OBVIOUS
<1>3. PICK p : p = pack_reply_header(put(marshall, v), [xid |-> hd.xid, ret |-> status])
  OBVIOUS
<1>4. ASSUME okdone(g.u)
      PROVE  d = [seen |-> TRUE, h |-> hd, ran |-> TRUE, args |-> g.vals, ret |-> status, r |-> r, rep |-> p]
  BY <1>1, <1>2, <1>3, <1>4 DEF Dispatched, Val
<1>5. PICK q : q = pack_reply_header(marshall, [xid |-> hd.xid, ret |-> unmarshal_args_failure])
  OBVIOUS
<1>6. ASSUME ~okdone(g.u)
      PROVE  d = [seen |-> TRUE, h |-> hd, ran |-> FALSE, args |-> <<>>, ret |-> unmarshal_args_failure,
                  r |-> <<>>, rep |-> q]
  BY <1>5, <1>6 DEF Dispatched
<1>7. ASSUME okdone(g.u) PROVE Ran(hd, g, status, d)
  BY <1>1, <1>2, <1>3, <1>4, <1>7 DEF Ran
<1>8. ASSUME ~okdone(g.u) PROVE NotRan(d)
  BY <1>6, <1>8 DEF NotRan
<1> QED BY <1>7, <1>8

(* The sum at rpc.cc:816 did not wrap: the strings a handler of strings    *)
(* was given are no longer than the request, if the caller sent anything   *)
(* but strings.                                                            *)
InBuffer == h.proc = 22 /\ TypesOf(call.args) # procs_[22].args =>
               \A i \in DOMAIN srv.args : Len(srv.args[i]) <= Len(req.buf)

(* What is known of a request once the server has seen it.                 *)
Seen(b, g, status) ==
    /\ call \in Calls /\ Asked(call, b) /\ h.proc = call.proc /\ h.proc \in DOMAIN procs_
    /\ h \in Headers /\ srv.h = h /\ b = req.buf
    /\ g = GetArgs(At(b, 24), procs_[h.proc].args)
    /\ srv = Dispatched(h, At(b, 24), status)

LEMMA SeenIs ==
    ASSUME CallInv, MarshalInv, srv.seen
    PROVE  \E b, g : \E status \in Statuses : Seen(b, g, status)
<1>1. pc # "args"
  BY DEF CallInv, ArgsSoFar
<1>2. Asked(call, req.buf)
  BY <1>1 DEF CallInv, ArgsSent
<1>3. h.proc \in DOMAIN procs_ /\ \E status \in Statuses : srv = Dispatched(h, At(req.buf, 24), status)
  BY DEF CallInv, AsDispatched
<1>4. call \in Calls /\ h.proc = call.proc /\ h \in Headers /\ srv.h = h
  BY DEF MarshalInv, Marshalling, Served
<1> QED BY <1>2, <1>3, <1>4 DEF Seen

LEMMA SeenRan ==
    ASSUME NEW b, NEW g, NEW status, Seen(b, g, status)
    PROVE  /\ okdone(g.u) => Ran(h, g, status, srv)
           /\ ~okdone(g.u) => NotRan(srv)
<1>1. PICK hd, d : hd = h /\ d = srv
  OBVIOUS
<1>2. g = GetArgs(At(b, 24), procs_[hd.proc].args) /\ d = Dispatched(hd, At(b, 24), status)
  BY <1>1 DEF Seen
<1>3. PICK u : u = At(b, 24)
  OBVIOUS
<1>4. g = GetArgs(u, procs_[hd.proc].args) /\ d = Dispatched(hd, u, status)
  BY <1>2, <1>3
<1>5. (okdone(g.u) => Ran(hd, g, status, d)) /\ (~okdone(g.u) => NotRan(d))
  BY <1>4, DispatchedIs
<1> QED BY <1>1, <1>5

(* The strings are inside the buffer.                                      *)
LEMMA StringsInside ==
    ASSUME NEW b, NEW g, NEW status \in Statuses, Seen(b, g, status), InBuffer, okdone(g.u)
    PROVE  h.proc = 22 => Len(g.vals[1]) <= Len(b)
<1> SUFFICES ASSUME h.proc = 22 PROVE Len(g.vals[1]) <= Len(b)
  OBVIOUS
<1>1. procs_[22].args = <<"string", "string">>
  BY ProcTypes DEF Seen
<1>2. g = GetArgs(At(b, 24), <<"string", "string">>) /\ srv.args = g.vals /\ b = req.buf
  <2>1. g = GetArgs(At(b, 24), procs_[h.proc].args) /\ srv = Dispatched(h, At(b, 24), status) /\ b = req.buf
    BY DEF Seen
  <2>2. srv.args = g.vals
    BY SeenRan DEF Ran
  <2> QED BY <1>1, <2>1, <2>2
<1>3. CASE TypesOf(call.args) # procs_[22].args
  <2>1. \A i \in DOMAIN srv.args : Len(srv.args[i]) <= Len(req.buf)
    BY <1>3 DEF InBuffer
  <2>2. 1 \in DOMAIN g.vals
    <3>1. PICK x, y : g.vals = <<x, y>>
      BY <1>2, TwoArgs
    <3> QED BY <3>1
  <2> QED BY <1>2, <2>1, <2>2
<1>4. CASE TypesOf(call.args) = procs_[22].args
  <2>1. PICK c \in Calls : c = call
    BY DEF Seen
  <2>2. Asked(c, b) /\ TypesOf(c.args) = <<"string", "string">>
    BY <1>1, <1>4, <2>1 DEF Seen
  <2>3. /\ g.vals = <<c.args[1].val, c.args[2].val>>
        /\ IsValue(c.args[1]) /\ c.args[1].type = "string" /\ IsValue(c.args[2])
        /\ Len(b) = 24 + Len(Enc(c.args[1])) + Len(Enc(c.args[2]))
    BY <1>2, <2>2, ArgsArrive2
  <2>4. PICK s \in Seq(ByteSet) : s = c.args[1].val
    <3>1. "string" \notin DOMAIN Width
      BY DEF Width
    <3> QED BY <2>3, <3>1 DEF IsValue, ByteSet
  <2>5. Len(Enc(c.args[1])) = 4 + Len(s) /\ Len(s) \in Nat
    BY <2>3, <2>4, EncString, LenProperties
  <2>6. Len(Enc(c.args[2])) \in Nat
    BY <2>3, ValueFits, LenProperties
  <2>7. g.vals[1] = s
    BY <2>3, <2>4
  <2>8. PICK k \in Nat : k = Len(s)
    BY <2>5
  <2>9. PICK j \in Nat : j = Len(Enc(c.args[2]))
    BY <2>6
  <2>10. Len(b) = 24 + (4 + k) + j
    BY <2>3, <2>5, <2>8, <2>9
  <2>11. k <= 24 + (4 + k) + j
    OBVIOUS
  <2> QED BY <2>7, <2>8, <2>10, <2>11
<1> QED BY <1>3, <1>4

LEMMA ArgsDo ==
    ASSUME CallInv, MarshalInv, InBuffer
    PROVE  ArgumentsArrive
<1> SUFFICES ASSUME srv.seen PROVE ArgumentsArrive
  BY DEF ArgumentsArrive
<1>1. PICK b, g : \E status \in Statuses : Seen(b, g, status)
  BY SeenIs
<1>2. PICK status \in Statuses : Seen(b, g, status)
  BY <1>1
<1>3. PICK c \in Calls : c = call /\ Asked(c, b)
  BY <1>2 DEF Seen
<1>4. PICK p \in DOMAIN procs_ : p = h.proc
  BY <1>2 DEF Seen
<1>5. PICK types : types = procs_[p].args
  OBVIOUS
<1>6. g = GetArgs(At(b, 24), types)
  BY <1>2, <1>4, <1>5 DEF Seen
<1>7. /\ okdone(g.u) => srv.ran = TRUE /\ srv.args = g.vals
      /\ ~okdone(g.u) => srv.ran = FALSE
  BY <1>2, SeenRan DEF Ran, NotRan
<1>8. \/ p = 22 /\ types = <<"string", "string">>
      \/ p = 74 /\ types = <<"int", "ull">>
      \/ p # 22 /\ types = <<"int">>
  BY <1>5, ProcTypes
<1>9. ASSUME srv.ran PROVE Bytes(Typed(types, srv.args)) = Bytes(call.args)
  <2>1. okdone(g.u) /\ srv.args = g.vals
    BY <1>7, <1>9
  <2>2. p = 22 => Len(g.vals[1]) <= Len(b)
    BY <1>2, <1>4, <2>1, StringsInside
  <2>3. CASE p = 22 /\ types = <<"string", "string">>
    <3>1. /\ g = GetArgs(At(b, 24), <<"string", "string">>) /\ okdone(g.u)
          /\ Len(g.vals[1]) <= Len(b)
      BY <1>6, <2>1, <2>2, <2>3
    <3>2. Bytes(Typed(<<"string", "string">>, g.vals)) = Bytes(c.args)
      BY <1>3, <3>1, ArgsRead2, TypesAreTypes
    <3> QED BY <1>3, <2>1, <2>3, <3>2
  <2>4. CASE p = 74 /\ types = <<"int", "ull">>
    <3>1. g = GetArgs(At(b, 24), <<"int", "ull">>) /\ okdone(g.u) /\ "int" # "string"
      BY <1>6, <2>1, <2>4
    <3>2. Bytes(Typed(<<"int", "ull">>, g.vals)) = Bytes(c.args)
      BY <1>3, <3>1, ArgsRead2, TypesAreTypes
    <3> QED BY <1>3, <2>1, <2>4, <3>2
  <2>5. CASE types = <<"int">>
    <3>1. g = GetArgs(At(b, 24), <<"int">>) /\ okdone(g.u)
      BY <1>6, <2>1, <2>5
    <3>2. Bytes(Typed(<<"int">>, g.vals)) = Bytes(c.args)
      BY <1>3, <3>1, ArgsRead1, TypesAreTypes
    <3> QED BY <1>3, <2>1, <2>5, <3>2
  <2> QED BY <1>8, <2>3, <2>4, <2>5
<1>10. ASSUME TypesOf(call.args) = types PROVE srv.ran /\ srv.args = ValsOf(call.args)
  <2>1. okdone(g.u) /\ g.vals = ValsOf(c.args)
    <3>1. ASSUME NEW t, NEW r, types = <<t, r>> PROVE g.u = At(b, Len(b)) /\ g.vals = ValsOf(c.args)
      <4>1. TypesOf(c.args) = <<t, r>> /\ g = GetArgs(At(b, 24), <<t, r>>)
        BY <1>3, <1>6, <1>10, <3>1
      <4> QED BY <1>3, <4>1, ArgsArrive2
    <3>2. ASSUME NEW t, types = <<t>> PROVE g.u = At(b, Len(b)) /\ g.vals = ValsOf(c.args)
      <4>1. TypesOf(c.args) = <<t>> /\ g = GetArgs(At(b, 24), <<t>>)
        BY <1>3, <1>6, <1>10, <3>2
      <4> QED BY <1>3, <4>1, ArgsArrive1
    <3>3. g.u = At(b, Len(b)) /\ g.vals = ValsOf(c.args)
      BY <1>8, <3>1, <3>2
    <3> QED BY <3>3, AtEnd
  <2> QED BY <1>3, <1>7, <2>1
<1>11. srv.h = h
  BY <1>2 DEF Seen
<1> QED BY <1>4, <1>5, <1>9, <1>10, <1>11 DEF ArgumentsArrive

(* A handler runs only on the header and the bytes of the caller, and on   *)
(* the caller's values if the types agree, whatever the calls are, as long *)
(* as no length read from the request makes the sum wrap.                  *)
THEOREM ArgumentsDoArrive == Spec => [](InBuffer => ArgumentsArrive)
<1>1. CallInv /\ MarshalInv => (InBuffer => ArgumentsArrive)
  BY ArgsDo
<1> QED BY <1>1, CallAlways, PTL

-----------------------------------------------------------------------------
(* The way back.                                                           *)

LEMMA ResultDoes ==
    ASSUME CallInv, MarshalInv, InBuffer, pc = "returned", ca.done
    PROVE  /\ srv.seen /\ ca.intret = srv.ret
           /\ ~srv.ran => out.ret = unmarshal_args_failure
           /\ srv.ran /\ out.ret >= 0 =>
                 /\ out.ret = srv.ret
                 /\ Bytes(<<Val(call.rtype, out.val)>>) = Bytes(<<Val(procs_[h.proc].r, srv.r)>>)
           /\ srv.ran /\ call.rtype = procs_[h.proc].r => out.ret = srv.ret /\ out.val = srv.r
           /\ srv.ran => srv.r = meth(h.proc, srv.args)
<1>1. srv.seen /\ ca.intret = srv.ret
  BY DEF MarshalInv, Served
<1>2. PICK b, g : \E status \in Statuses : Seen(b, g, status)
  BY <1>1, SeenIs
<1>3. PICK status \in Statuses : Seen(b, g, status)
  BY <1>2
<1>4. PICK c \in Calls : c = call /\ Asked(c, b)
  BY <1>3 DEF Seen
<1>5. PICK p \in DOMAIN procs_ : p = h.proc
  BY <1>3 DEF Seen
<1>6. PICK v : v = Val(procs_[p].r, meth(p, g.vals))
  OBVIOUS
<1>7. /\ okdone(g.u) =>
            /\ srv.ran = TRUE /\ srv.args = g.vals /\ srv.ret = status /\ srv.r = meth(p, g.vals)
            /\ srv.rep = pack_reply_header(put(marshall, v), [xid |-> h.xid, ret |-> status])
      /\ ~okdone(g.u) => srv.ran = FALSE /\ srv.ret = unmarshal_args_failure
  <2>1. /\ okdone(g.u) => Ran(h, g, status, srv)
        /\ ~okdone(g.u) => NotRan(srv)
    BY <1>3, SeenRan
  <2>2. ASSUME okdone(g.u)
        PROVE  /\ srv.ran = TRUE /\ srv.args = g.vals /\ srv.ret = status /\ srv.r = meth(p, g.vals)
               /\ srv.rep = pack_reply_header(put(marshall, v), [xid |-> h.xid, ret |-> status])
    <3>1. Ran(h, g, status, srv)
      BY <2>1, <2>2
    <3> QED BY <1>5, <1>6, <3>1 DEF Ran
  <2> QED BY <2>1, <2>2 DEF NotRan
<1>8. status \in Int32 /\ status \in Nat /\ h.xid \in Int32
  BY <1>3, StatusesAssumption DEF Seen, Headers
<1>9. PICK f : f = get(ca.un, call.rtype)
  OBVIOUS
<1>10. out = IF srv.ret < 0 THEN [ret |-> srv.ret, val |-> <<>>]
             ELSE [ret |-> IF okdone(f.u) THEN srv.ret ELSE unmarshal_reply_failure, val |-> f.val]
  BY <1>1, <1>9 DEF CallInv, AsReturned, Outcome
<1>11. ASSUME ~srv.ran PROVE out.ret = unmarshal_args_failure
  <2>1. srv.ret = -2
    BY <1>7, <1>11 DEF unmarshal_args_failure
  <2>2. out = [ret |-> srv.ret, val |-> <<>>]
    BY <1>10, <2>1
  <2> QED BY <2>1, <2>2 DEF unmarshal_args_failure
<1>12. ASSUME srv.ran
       PROVE  /\ out.ret >= 0 => /\ out.ret = srv.ret
                                 /\ Bytes(<<Val(call.rtype, out.val)>>) = Bytes(<<v>>)
              /\ call.rtype = procs_[p].r => out.ret = srv.ret /\ out.val = srv.r
  <2>1. okdone(g.u)
    BY <1>7, <1>12
  <2>2. srv.ret = status /\ srv.r = meth(p, g.vals) /\ srv.args = g.vals
        /\ srv.rep = pack_reply_header(put(marshall, v), [xid |-> h.xid, ret |-> status])
    BY <1>7, <2>1
  <2>3. IsValue(v) /\ Len(Enc(v)) + 24 < Power[4]
    <3>1. g = GetArgs(At(b, 24), procs_[p].args)
      BY <1>3, <1>5 DEF Seen
    <3>2. p = 22 => Len(g.vals[1]) <= Len(b)
      BY <1>3, <1>5, <2>1, StringsInside
    <3> QED BY <1>4, <1>6, <2>1, <3>1, <3>2, ResultFits
  <2>4. PICK rep : rep = srv.rep
    OBVIOUS
  <2>5. /\ rep.buf \in Seq(Bytes0) /\ Clean(rep.buf) /\ Laid1(rep.buf, v)
        /\ take_in(take_buf(rep)) = At(rep.buf, 24)
    <3>1. PICK x \in Int32 : x = h.xid
      BY <1>8
    <3>2. rep = pack_reply_header(put(marshall, v), [xid |-> x, ret |-> status])
      BY <2>2, <2>4, <3>1
    <3> QED BY <1>8, <2>3, <3>2, ReplyLaid
  <2>6. ca.un = At(rep.buf, 24)
    BY <2>4, <2>5 DEF CallInv, ReplyTaken
  <2>7. PICK t \in DOMAIN Width \cup {"string"} : t = call.rtype
    BY <1>4, CallsAssumption
  <2>8. f = get(At(rep.buf, 24), t)
    BY <1>9, <2>6, <2>7
  <2>9. PICK w : w = rep.buf
    OBVIOUS
  <2>10. /\ t = v.type => f.val = v.val /\ okdone(f.u)
         /\ okdone(f.u) => Bytes(<<Val(t, f.val)>>) = Bytes(<<v>>)
    <3>1. w \in Seq(Bytes0) /\ Clean(w) /\ Laid1(w, v) /\ f = get(At(w, 24), t)
      BY <2>5, <2>8, <2>9
    <3> QED BY <2>3, <3>1, ReplyRead
  <2>11. out = [ret |-> IF okdone(f.u) THEN status ELSE unmarshal_reply_failure, val |-> f.val]
    BY <1>8, <1>10, <2>2
  <2>12. v.type = procs_[p].r /\ v.val = srv.r
    BY <1>6, <2>2 DEF Val
  <2>13. ASSUME out.ret >= 0
         PROVE  out.ret = srv.ret /\ Bytes(<<Val(call.rtype, out.val)>>) = Bytes(<<v>>)
    <3>1. okdone(f.u)
      <4> SUFFICES ASSUME ~okdone(f.u) PROVE FALSE
        OBVIOUS
      <4>1. out.ret = -3
        BY <2>11 DEF unmarshal_reply_failure
      <4> QED BY <2>13, <4>1
    <3>2. out.ret = status /\ out.val = f.val
      BY <2>11, <3>1
    <3> QED BY <2>2, <2>7, <2>10, <3>1, <3>2
  <2>14. ASSUME call.rtype = procs_[p].r PROVE out.ret = srv.ret /\ out.val = srv.r
    <3>1. f.val = v.val /\ okdone(f.u)
      BY <2>7, <2>10, <2>12, <2>14
    <3> QED BY <2>2, <2>11, <2>12, <3>1
  <2> QED BY <2>13, <2>14
<1>13. srv.ran => srv.r = meth(h.proc, srv.args) /\ v = Val(procs_[h.proc].r, srv.r)
  BY <1>5, <1>6, <1>7
<1> QED BY <1>1, <1>5, <1>11, <1>12, <1>13

LEMMA TimedOut ==
    ASSUME CallInv, pc = "returned", ~ca.done PROVE out.ret = timeout_failure
<1>1. timeout_failure < 0
  BY DEF timeout_failure
<1>2. out = [ret |-> timeout_failure, val |-> <<>>]
  BY <1>1 DEF CallInv, AsReturned, Outcome
<1> QED BY <1>2

LEMMA ResultsDo ==
    ASSUME CallInv, MarshalInv, InBuffer PROVE ResultArrives
<1> SUFFICES ASSUME pc = "returned" PROVE ResultArrives
  BY DEF ResultArrives
<1>1. ASSUME out.ret >= 0
      PROVE  /\ srv.ran /\ out.ret = srv.ret
             /\ Bytes(<<Val(call.rtype, out.val)>>) = Bytes(<<Val(procs_[h.proc].r, srv.r)>>)
  <2>1. ca.done
    <3> SUFFICES ASSUME ~ca.done PROVE FALSE
      OBVIOUS
    <3>1. out.ret = -1
      BY TimedOut DEF timeout_failure
    <3> QED BY <1>1, <3>1
  <2>2. srv.ran
    <3> SUFFICES ASSUME ~srv.ran PROVE FALSE
      OBVIOUS
    <3>1. out.ret = -2
      BY <2>1, ResultDoes DEF unmarshal_args_failure
    <3> QED BY <1>1, <3>1
  <2> QED BY <1>1, <2>1, <2>2, ResultDoes
<1>2. ASSUME ca.done, srv.ran, call.rtype = procs_[h.proc].r PROVE out.ret = srv.ret /\ out.val = srv.r
  BY <1>2, ResultDoes
<1> QED BY <1>1, <1>2 DEF ResultArrives, Val

(* A call that returns success has the handler's status, and an r with the *)
(* bytes of the handler's; with the right types it has that r and never    *)
(* fails, under the same hypothesis.                                       *)
THEOREM ResultsArrive == Spec => [](InBuffer => ResultArrives)
<1>1. CallInv /\ MarshalInv => (InBuffer => ResultArrives)
  BY ResultsDo
<1> QED BY <1>1, CallAlways, PTL

-----------------------------------------------------------------------------
(* The asserts of rpctest.                                                 *)

(* A call whose arguments are refused fails.                               *)
LEMMA RefusedFails ==
    ASSUME CallInv, MarshalInv, pc = "returned", ca.done, NEW b, NEW g, NEW status \in Statuses, Seen(b, g, status),
           ~okdone(g.u)
    PROVE  out.ret < 0
<1>1. NotRan(srv)
  BY SeenRan
<1>2. srv.args = <<>> /\ ~srv.ran
  BY <1>1 DEF NotRan
<1>3. InBuffer
  BY <1>2 DEF InBuffer
<1>4. out.ret = -2
  BY <1>2, <1>3, ResultDoes DEF unmarshal_args_failure
<1> QED BY <1>4

(* A call with the handler's types returns what the handler returns for    *)
(* the caller's values.                                                    *)
LEMMA RightTypes ==
    ASSUME CallInv, MarshalInv, pc = "returned", ca.done, TypesOf(call.args) = procs_[h.proc].args,
           call.rtype = procs_[h.proc].r
    PROVE  out.ret = srv.ret /\ out.val = meth(h.proc, ValsOf(call.args))
<1>1. InBuffer
  BY DEF InBuffer
<1>2. srv.seen
  BY <1>1, ResultDoes
<1>3. srv.ran /\ srv.args = ValsOf(call.args)
  BY <1>1, <1>2, ArgsDo DEF ArgumentsArrive
<1> QED BY <1>1, <1>3, ResultDoes

(* What rpctest asserts of the call it made.                               *)
Asserted(t) == IF t.fails THEN out.ret < 0 ELSE out.ret = srv.ret /\ out.val = t.r

LEMMA OneValue ==
    ASSUME NEW v PROVE TypesOf(<<v>>) = <<v.type>> /\ ValsOf(<<v>>) = <<v.val>>
  BY DEF TypesOf, ValsOf

LEMMA TwoValues ==
    ASSUME NEW v, NEW w
    PROVE  TypesOf(<<v, w>>) = <<v.type, w.type>> /\ ValsOf(<<v, w>>) = <<v.val, w.val>>
<1>0. PICK s : s = <<v, w>>
  OBVIOUS
<1>1. DOMAIN s = 1 .. 2 /\ s[1] = v /\ s[2] = w
  BY <1>0
<1>2. 1 .. 2 = {1, 2}
  OBVIOUS
<1>3. TypesOf(s) = <<v.type, w.type>>
  BY <1>1, <1>2 DEF TypesOf
<1>4. ValsOf(s) = <<v.val, w.val>>
  BY <1>1, <1>2 DEF ValsOf
<1> QED BY <1>0, <1>3, <1>4

(* The calls that succeed.                                                 *)
LEMMA Succeeds ==
    ASSUME CallInv, MarshalInv, pc = "returned", ca.done,
           NEW proc, NEW args, NEW r, NEW t, t = Test(proc, args, procs_[proc].r, FALSE, r), t.call = call,
           TypesOf(args) = procs_[proc].args, meth(proc, ValsOf(args)) = r
    PROVE  Asserted(t)
<1>1. /\ t.call.proc = proc /\ t.call.args = args /\ t.call.rtype = procs_[proc].r
      /\ t.fails = FALSE /\ t.r = r
  BY DEF Test
<1>2. call.proc = proc /\ call.args = args /\ call.rtype = procs_[proc].r
  BY <1>1
<1>3. h.proc = call.proc
  BY DEF MarshalInv, Marshalling
<1>4. out.ret = srv.ret /\ out.val = meth(h.proc, ValsOf(call.args))
  <2>1. TypesOf(call.args) = procs_[h.proc].args /\ call.rtype = procs_[h.proc].r
    BY <1>2, <1>3
  <2> QED BY <2>1, RightTypes
<1>5. out.val = t.r
  BY <1>1, <1>2, <1>3, <1>4
<1> QED BY <1>1, <1>4, <1>5 DEF Asserted

(* The calls with a string too few, and with an argument too many.         *)
LEMMA TooFew ==
    ASSUME NEW c \in Calls, NEW b, Asked(c, b), TypesOf(c.args) = <<"string">>,
           NEW g, g = GetArgs(At(b, 24), <<"string", "string">>)
    PROVE  ~okdone(g.u)
<1>1. Len(b) \in Nat /\ Len(b) >= 24 /\ Len(b) < Power[4] /\ b \in Seq(Bytes0)
  BY AskedIs DEF Asked
<1>2. get(At(b, 24), "string").u = At(b, Len(b))
  <2>1. GetArgs(At(b, 24), <<"string">>).u = At(b, Len(b))
    BY ArgsArrive1
  <2> QED BY <2>1, OneArg
<1>3. PICK q \in Nat : q = Len(b)
  BY <1>1
<1>4. PICK f : f = get(At(b, q), "string")
  OBVIOUS
<1>5. g.u = f.u
  BY <1>2, <1>3, <1>4, TwoArgs
<1>6. Reads(b, q, "string", f)
  <2>1. \A i \in q + 1 .. Len(b) : b[i] \in ByteSet
    BY <1>3
  <2>2. "string" \in DOMAIN Width \cup {"string"}
    OBVIOUS
  <2> QED BY <1>1, <1>4, <2>1, <2>2, ReadsValue
<1>7. ~Wrapped(b, q, "string", f)
  <2>1. ~(q + 4 <= Len(b))
    BY <1>3
  <2> QED BY <2>1 DEF Wrapped
<1>8. ~Valid(b, q, "string", f)
  <2> SUFFICES ASSUME Valid(b, q, "string", f) PROVE FALSE
    OBVIOUS
  <2>1. PICK v : v = Val("string", f.val)
    OBVIOUS
  <2>2. IsValue(v) /\ Lies(b, q, Enc(v)) /\ v.type = "string" /\ v.val = f.val
    BY <2>1 DEF Valid, Val
  <2>3. PICK s \in Seq(ByteSet) : s = v.val
    <3>1. "string" \notin DOMAIN Width
      BY DEF Width
    <3> QED BY <2>2, <3>1 DEF IsValue, ByteSet
  <2>4. Len(Enc(v)) = 4 + Len(s) /\ Len(s) \in Nat
    BY <2>2, <2>3, EncString, LenProperties
  <2>5. q + Len(Enc(v)) <= Len(b)
    BY <2>2 DEF Lies
  <2> QED BY <1>3, <2>4, <2>5
<1>9. f.u.ok = FALSE
  BY <1>6, <1>7, <1>8 DEF Reads
<1> QED BY <1>5, <1>9, NotDone

LEMMA IntTakesFour ==
    ASSUME NEW v, IsValue(v), v.type = "int" PROVE Len(Enc(v)) = 4
<1>1. v.type \in DOMAIN Width /\ Width[v.type] = 4 /\ ValuesOf(v.type) = Int32
  BY TypesAreTypes
<1>2. v.val[1] \in Int32
  BY <1>1 DEF IsValue
<1>3. PICK x \in Int : x = v.val[1]
  BY <1>2, IntsReturn
<1>4. Len(Enc(v)) = Width[v.type]
  BY <1>1, <1>3, EncInt
<1> QED BY <1>1, <1>4

LEMMA TooMany ==
    ASSUME NEW c \in Calls, NEW b, Asked(c, b), NEW t, NEW r, TypesOf(c.args) = <<t, r>>,
           Len(Enc(c.args[1])) >= 4, Len(Enc(c.args[2])) >= 1,
           NEW g, g = GetArgs(At(b, 24), <<"int">>)
    PROVE  ~okdone(g.u)
<1>1. Len(b) \in Nat /\ Len(b) >= 24 /\ Len(b) < Power[4] /\ b \in Seq(Bytes0) /\ Clean(b)
  BY AskedIs DEF Asked
<1>2. PICK m, n \in Nat : m = Len(Enc(c.args[1])) /\ n = Len(Enc(c.args[2])) /\ m >= 4 /\ n >= 1
  <2>1. IsValue(c.args[1]) /\ IsValue(c.args[2])
    BY ArgsArrive2
  <2> QED BY <2>1, ValueFits, LenProperties
<1>3. Len(b) = 24 + m + n
  BY <1>2, ArgsArrive2
<1>4. PICK f : f = get(At(b, 24), "int")
  OBVIOUS
<1>5. g.u = f.u
  BY <1>4, OneArg
<1>6. Reads(b, 24, "int", f)
  <2>1. \A i \in 24 + 1 .. Len(b) : b[i] \in ByteSet
    <3>1. 24 + 1 = 25
      OBVIOUS
    <3> QED BY <1>1, <3>1 DEF Clean
  <2> QED BY <1>1, <1>4, <2>1, ReadsValue, TypesAreTypes
<1>7. ~Wrapped(b, 24, "int", f)
  BY DEF Wrapped
<1>8. ASSUME Valid(b, 24, "int", f) PROVE ~okdone(f.u)
  <2>1. PICK v : v = Val("int", f.val)
    OBVIOUS
  <2>2. IsValue(v) /\ f.u = At(b, 24 + Len(Enc(v))) /\ v.type = "int"
    BY <1>8, <2>1 DEF Valid, Val
  <2>3. Len(Enc(v)) = 4
    BY <2>2, IntTakesFour
  <2>4. f.u = At(b, 28)
    <3>1. 24 + 4 = 28
      OBVIOUS
    <3> QED BY <2>2, <2>3, <3>1
  <2>5. 28 # Len(b)
    BY <1>2, <1>3
  <2> QED BY <2>4, <2>5, DoneAt
<1> QED BY <1>5, <1>6, <1>7, <1>8, NotDone DEF Reads

(* The tests one by one: what the handlers make of their arguments.        *)
LEMMA IntPlus ==
    ASSUME NEW c \in Calls, NEW x \in 0 .. 120, NEW y \in 0 .. 2 PROVE AsInt(x + y) = x + y
<1>1. PICK k \in Nat : Int32 = -k .. k - 1 /\ k >= 128
  BY BigEnough
<1>2. PICK z \in Int32 : z = x + y
  BY <1>1
<1>3. AsSigned(z % Power[4], 4) = z
  BY IntsReturn
<1> QED BY <1>2, <1>3, Sizes DEF AsInt

LEMMA Values ==
    ASSUME NEW x
    PROVE  IntVal(x).type = "int" /\ IntVal(x).val = <<x>> /\ StrVal(x).type = "string" /\ StrVal(x).val = x
  BY DEF IntVal, StrVal

LEMMA Procs ==
    /\ procs_[22].args = <<"string", "string">> /\ procs_[22].r = "string"
    /\ procs_[23].args = <<"int">> /\ procs_[23].r = "int"
    /\ procs_[24].args = <<"int">> /\ procs_[24].r = "int"
    /\ procs_[25].args = <<"int">> /\ procs_[25].r = "string"
<1>1. {22, 23, 24, 25} \subseteq DOMAIN procs_
  BY DEF procs_
<1> QED BY <1>1, ProcTypes

(* A test of handler 23, 24 or 25 with one int.                            *)
LEMMA IntTest ==
    ASSUME CallInv, MarshalInv, pc = "returned", ca.done, NEW c \in Calls, NEW x \in 0 .. 120, NEW t, t.call = call,
           \/ t = Test(23, <<IntVal(x)>>, "int", FALSE, <<x + 1>>)
           \/ t = Test(24, <<IntVal(x)>>, "int", FALSE, <<x + 2>>)
           \/ t = Test(25, <<IntVal(x)>>, "string", FALSE, [i \in 1 .. x |-> 1])
    PROVE  Asserted(t)
<1>1. PICK args : args = <<IntVal(x)>>
  OBVIOUS
<1>2. TypesOf(args) = <<"int">> /\ ValsOf(args) = <<<<x>>>>
  BY <1>1, OneValue, Values
<1>3. PICK a : a = <<<<x>>>>
  OBVIOUS
<1>4. a[1][1] = x
  BY <1>3
<1>5. meth(23, a) = <<x + 1>> /\ meth(24, a) = <<x + 2>>
  <2>1. AsInt(x + 1) = x + 1 /\ AsInt(x + 2) = x + 2
    <3>1. 1 \in 0 .. 2 /\ 2 \in 0 .. 2
      OBVIOUS
    <3> QED BY <3>1, IntPlus
  <2> QED BY <1>4, <2>1, Handlers
<1>6. meth(25, a) = [i \in 1 .. x |-> 1]
  BY <1>4 DEF meth
<1>7. CASE t = Test(23, <<IntVal(x)>>, "int", FALSE, <<x + 1>>)
  <2>1. PICK r : r = <<x + 1>>
    OBVIOUS
  <2>2. t = Test(23, args, procs_[23].r, FALSE, r) /\ TypesOf(args) = procs_[23].args /\ meth(23, ValsOf(args)) = r
    BY <1>1, <1>2, <1>3, <1>5, <1>7, <2>1, Procs
  <2> QED BY <2>2, Succeeds
<1>8. CASE t = Test(24, <<IntVal(x)>>, "int", FALSE, <<x + 2>>)
  <2>1. PICK r : r = <<x + 2>>
    OBVIOUS
  <2>2. t = Test(24, args, procs_[24].r, FALSE, r) /\ TypesOf(args) = procs_[24].args /\ meth(24, ValsOf(args)) = r
    BY <1>1, <1>2, <1>3, <1>5, <1>8, <2>1, Procs
  <2> QED BY <2>2, Succeeds
<1>9. CASE t = Test(25, <<IntVal(x)>>, "string", FALSE, [i \in 1 .. x |-> 1])
  <2>1. PICK r : r = [i \in 1 .. x |-> 1]
    OBVIOUS
  <2>2. t = Test(25, args, procs_[25].r, FALSE, r) /\ TypesOf(args) = procs_[25].args /\ meth(25, ValsOf(args)) = r
    BY <1>1, <1>2, <1>3, <1>6, <1>9, <2>1, Procs
  <2> QED BY <2>2, Succeeds
<1> QED BY <1>7, <1>8, <1>9

(* A test of handler 22 with two strings.                                  *)
LEMMA StringTest ==
    ASSUME CallInv, MarshalInv, pc = "returned", ca.done, NEW s, NEW w, NEW r, r = s \o w, NEW t, t.call = call,
           t = Test(22, <<StrVal(s), StrVal(w)>>, "string", FALSE, r)
    PROVE  Asserted(t)
<1>1. PICK args : args = <<StrVal(s), StrVal(w)>>
  OBVIOUS
<1>2. TypesOf(args) = <<"string", "string">> /\ ValsOf(args) = <<s, w>>
  BY <1>1, TwoValues, Values
<1>3. meth(22, <<s, w>>) = r
  <2>1. PICK a : a = <<s, w>>
    OBVIOUS
  <2>2. a[1] = s /\ a[2] = w
    BY <2>1
  <2> QED BY <2>1, <2>2, Handlers
<1>4. t = Test(22, args, procs_[22].r, FALSE, r) /\ TypesOf(args) = procs_[22].args /\ meth(22, ValsOf(args)) = r
  BY <1>1, <1>2, <1>3, Procs
<1> QED BY <1>4, Succeeds

(* The tests that must fail.                                               *)
LEMMA FailTest ==
    ASSUME CallInv, MarshalInv, pc = "returned", ca.done, NEW t, t.call = call, NEW v, NEW w, NEW rtype,
           \/ t = Test(22, <<v>>, rtype, TRUE, <<>>) /\ v.type = "string"
           \/ t = Test(23, <<v, w>>, rtype, TRUE, <<>>) /\ v.type = w.type /\ v.type \in {"int", "string"}
    PROVE  Asserted(t)
<1>1. srv.seen
  BY DEF MarshalInv, Served
<1>2. PICK b, g : \E status \in Statuses : Seen(b, g, status)
  BY <1>1, SeenIs
<1>3. PICK status \in Statuses : Seen(b, g, status)
  BY <1>2
<1>4. PICK c \in Calls : c = call /\ Asked(c, b)
  BY <1>3 DEF Seen
<1>5. t.fails = TRUE
  BY DEF Test
<1>6. PICK p : p = h.proc
  OBVIOUS
<1>7. c.proc = p /\ g = GetArgs(At(b, 24), procs_[p].args)
  BY <1>3, <1>4, <1>6 DEF Seen
<1>8. ~okdone(g.u)
  <2>1. CASE t = Test(22, <<v>>, rtype, TRUE, <<>>) /\ v.type = "string"
    <3>1. c.proc = 22 /\ c.args = <<v>>
      BY <1>4, <2>1 DEF Test
    <3>2. TypesOf(c.args) = <<"string">>
      BY <2>1, <3>1, OneValue
    <3>3. g = GetArgs(At(b, 24), <<"string", "string">>)
      BY <1>7, <3>1, Procs
    <3> QED BY <1>4, <3>2, <3>3, TooFew
  <2>2. CASE t = Test(23, <<v, w>>, rtype, TRUE, <<>>) /\ v.type = w.type /\ v.type \in {"int", "string"}
    <3>1. c.proc = 23 /\ c.args = <<v, w>>
      BY <1>4, <2>2 DEF Test
    <3>2. TypesOf(c.args) = <<v.type, w.type>>
      BY <3>1, TwoValues
    <3>3. g = GetArgs(At(b, 24), <<"int">>)
      BY <1>7, <3>1, Procs
    <3>4. PICK x, y : x = v.type /\ y = w.type
      OBVIOUS
    <3>5. TypesOf(c.args) = <<x, y>>
      BY <3>2, <3>4
    <3>6. ASSUME NEW z, IsValue(z), z.type \in {"int", "string"} PROVE Len(Enc(z)) >= 4
      <4>1. CASE z.type = "int"
        <5>1. Len(Enc(z)) = 4
          BY <3>6, <4>1, IntTakesFour
        <5> QED BY <5>1
      <4>2. CASE z.type = "string"
        <5>1. "string" \notin DOMAIN Width
          BY DEF Width
        <5>2. PICK s \in Seq(ByteSet) : s = z.val
          BY <3>6, <4>2, <5>1 DEF IsValue, ByteSet
        <5>3. Len(Enc(z)) = 4 + Len(s) /\ Len(s) \in Nat
          BY <4>2, <5>2, EncString, LenProperties
        <5> QED BY <5>3
      <4> QED BY <3>6, <4>1, <4>2
    <3>7. IsValue(c.args[1]) /\ c.args[1].type = x /\ IsValue(c.args[2]) /\ c.args[2].type = y
      BY <1>4, <3>5, ArgsArrive2
    <3>8. Len(Enc(c.args[1])) >= 4 /\ Len(Enc(c.args[2])) >= 4
      BY <2>2, <3>4, <3>6, <3>7
    <3>9. Len(Enc(c.args[2])) >= 1
      <4>1. PICK n \in Nat : n = Len(Enc(c.args[2]))
        BY <3>7, ValueFits, LenProperties
      <4> QED BY <3>8, <4>1
    <3> QED BY <1>4, <3>3, <3>5, <3>8, <3>9, TooMany
  <2> QED BY <2>1, <2>2
<1>9. out.ret < 0
  BY <1>3, <1>8, RefusedFails
<1> QED BY <1>5, <1>9 DEF Asserted

LEMMA SimpleTests ==
    ASSUME CallInv, MarshalInv, pc = "returned", ca.done, NEW c \in Calls, NEW t \in simple_tests, t.call = call
    PROVE  Asserted(t)
<1>1. CASE t = Test(22, <<StrVal(<<1, 2>>), StrVal(<<3>>)>>, "string", FALSE, <<1, 2, 3>>)
  <2>1. PICK s, w, r : s = <<1, 2>> /\ w = <<3>> /\ r = <<1, 2, 3>>
    OBVIOUS
  <2>2. r = s \o w
    BY <2>1
  <2> QED BY <1>1, <2>1, <2>2, StringTest
<1>2. CASE t = Test(25, <<IntVal(5)>>, "string", FALSE, <<1, 1, 1, 1, 1>>)
  <2>1. <<1, 1, 1, 1, 1>> = [i \in 1 .. 5 |-> 1]
    OBVIOUS
  <2>2. 5 \in 0 .. 120
    OBVIOUS
  <2>3. PICK r : r = [i \in 1 .. 5 |-> 1]
    OBVIOUS
  <2>4. t = Test(25, <<IntVal(5)>>, "string", FALSE, [i \in 1 .. 5 |-> 1])
    BY <1>2, <2>1
  <2> QED BY <2>2, <2>4, IntTest
<1>3. CASE t = Test(22, <<StrVal(<<1, 2>>)>>, "string", TRUE, <<>>)
  <2>1. PICK v, rtype : v = StrVal(<<1, 2>>) /\ rtype = "string"
    OBVIOUS
  <2>2. t = Test(22, <<v>>, rtype, TRUE, <<>>) /\ v.type = "string"
    BY <1>3, <2>1, Values
  <2> QED BY <2>2, FailTest
<1>4. CASE t = Test(23, <<IntVal(101), IntVal(102)>>, "string", TRUE, <<>>)
  <2>1. PICK v, w, rtype : v = IntVal(101) /\ w = IntVal(102) /\ rtype = "string"
    OBVIOUS
  <2>2. t = Test(23, <<v, w>>, rtype, TRUE, <<>>) /\ v.type = w.type /\ v.type \in {"int", "string"}
    <3>1. v.type = "int" /\ w.type = "int"
      BY <2>1 DEF IntVal
    <3> QED BY <1>4, <2>1, <3>1
  <2> QED BY <2>2, FailTest
<1>5. CASE t = Test(23, <<StrVal(<<1, 2>>), StrVal(<<3>>)>>, "int", TRUE, <<>>)
  <2>1. PICK v, w, rtype : v = StrVal(<<1, 2>>) /\ w = StrVal(<<3>>) /\ rtype = "int"
    OBVIOUS
  <2>2. t = Test(23, <<v, w>>, rtype, TRUE, <<>>) /\ v.type = w.type /\ v.type \in {"int", "string"}
    <3>1. v.type = "string" /\ w.type = "string"
      BY <2>1 DEF StrVal
    <3> QED BY <1>5, <2>1, <3>1
  <2> QED BY <2>2, FailTest
<1>6. CASE t = Test(23, <<IntVal(77)>>, "int", FALSE, <<78>>)
  <2>1. 77 \in 0 .. 120 /\ 77 + 1 = 78
    OBVIOUS
  <2> QED BY <1>6, <2>1, IntTest
<1>7. CASE t = Test(22, <<StrVal(Big), StrVal(<<1>>)>>, "string", FALSE, Big \o <<1>>)
  <2>1. PICK s, w : s = Big /\ w = <<1>>
    OBVIOUS
  <2>2. PICK r : r = s \o w
    OBVIOUS
  <2>3. t = Test(22, <<StrVal(s), StrVal(w)>>, "string", FALSE, r)
    BY <1>7, <2>1, <2>2
  <2> QED BY <2>2, <2>3, StringTest
<1> QED BY <1>1, <1>2, <1>3, <1>4, <1>5, <1>6, <1>7 DEF simple_tests

LEMMA ClientTests ==
    ASSUME CallInv, MarshalInv, pc = "returned", ca.done, NEW c \in Calls, NEW t \in client1 \cup client3, t.call = call
    PROVE  Asserted(t)
<1>1. ASSUME NEW n \in {0, 7}, t = Test(25, <<IntVal(n)>>, "string", FALSE, [i \in 1 .. n |-> 1]) PROVE Asserted(t)
  <2>1. n \in 0 .. 120
    OBVIOUS
  <2> QED BY <1>1, <2>1, IntTest
<1>2. CASE t = Test(23, <<IntVal(3)>>, "int", FALSE, <<4>>)
  <2>1. 3 \in 0 .. 120 /\ 3 + 1 = 4
    OBVIOUS
  <2> QED BY <1>2, <2>1, IntTest
<1>3. ASSUME NEW i \in 0 .. 3, t = Test(24, <<IntVal(i)>>, "int", FALSE, <<i + 2>>) PROVE Asserted(t)
  <2>1. i \in 0 .. 120
    OBVIOUS
  <2> QED BY <1>3, <2>1, IntTest
<1> QED BY <1>1, <1>2, <1>3 DEF client1, client3

LEMMA TestsDoPass ==
    ASSUME CallInv, MarshalInv PROVE RpcTestsPass
<1> SUFFICES ASSUME pc = "returned", out.ret # timeout_failure, NEW t \in rpctest, t.call = call
             PROVE  Asserted(t)
  BY DEF RpcTestsPass, Asserted
<1>1. ca.done
  BY TimedOut
<1>2. PICK c \in Calls : c = call
  BY DEF MarshalInv, Marshalling
<1>3. t \in simple_tests \/ t \in client1 \cup client3
  BY DEF rpctest
<1> QED BY <1>1, <1>3, SimpleTests, ClientTests

(* The asserts of rpctest.cc hold of every such call that does not time    *)
(* out, whatever the width of a byte, the buffer and the other constants.  *)
THEOREM RpcTestsDoPass == Spec => []RpcTestsPass
<1>1. CallInv /\ MarshalInv => RpcTestsPass
  BY TestsDoPass
<1> QED BY <1>1, CallAlways, PTL
=============================================================================
