------------------------- MODULE LockServiceProofs -------------------------
(***************************************************************************)
(* Theorems about LockService for any number of tester threads and rounds, *)
(* any dispatch pool and any assignment of clients to threads: the testers *)
(* are alone with their locks and none of their checks fails.              *)
(***************************************************************************)
EXTENDS LockService, LockServerProofs, SequenceTheorems

Ops == Procs \cup {"check_grant", "check_release"}

Steps == [op : Ops, clt : Clients, lid : LockIds]

(* Behind place i of s, a step `close' on l comes before any step `open'   *)
(* on l: what is open after i steps has still to be closed.                *)
After(s, i, l, open, close) ==
    \E j \in DOMAIN s : /\ j > i /\ s[j].op = close /\ s[j].lid = l
                        /\ \A k \in i + 1 .. j - 1 : s[k].op = open => s[k].lid # l

Owes(s, i, l) == After(s, i, l, "acquire", "release")

Counts(s, i, l) == After(s, i, l, "check_grant", "check_release")

(* Every opening step is closed before the next, every closing step closes *)
(* something.                                                              *)
Paired(s, open, close) ==
    \A i \in DOMAIN s : /\ s[i].op = open => After(s, i, s[i].lid, open, close)
                        /\ s[i].op = close => ~After(s, i, s[i].lid, open, close)

OneClient(s) == \A i, j \in DOMAIN s : s[i].clt = s[j].clt

(* The count is up only while the lock is held: tests 2 to 5, not test 1.  *)
Nested(s) == \A i \in 0 .. Len(s) : \A l \in LockIds : Counts(s, i, l) => Owes(s, i, l)

WellFormed(s) == /\ s \in Seq(Steps)
                 /\ Paired(s, "acquire", "release")
                 /\ Paired(s, "check_grant", "check_release")
                 /\ OneClient(s)

(* The handler of thread u's request has done its work.                    *)
Served(u) == \E t \in Threads : serves[t] = u /\ pc[t] = "returned"

(* Thread u has lock l, as far as the server is concerned.                 *)
Owns(u, l) == Owes(todo[u], IF Served(u) THEN 1 ELSE 0, l)

Counted(u, l) == Counts(todo[u], 0, l)

-----------------------------------------------------------------------------
TestTypes == /\ test \in 1 .. 6
             /\ todo \in [Testers -> Seq(Steps)]
             /\ tpc \in [Testers -> {"run", "call", "failed"}]
             /\ ct \in [LockIds -> Int]
             /\ jobq \in Seq(Testers \X Steps)
             /\ serves \in [Threads -> Testers \cup {NoTester}]

ProgramsAreGood ==
    /\ \A u \in Testers : WellFormed(todo[u])
    /\ test # 1 => \A u \in Testers : Nested(todo[u])
    /\ test = 1 => \A u \in Testers \ {0, Demo} : todo[u] = <<>>
    /\ \A i \in DOMAIN todo[Demo] : todo[Demo][i].op = "stat"

(* A queued request is its caller's current step, and the only one.        *)
QueuedOnce ==
    /\ \A i \in DOMAIN jobq :
          LET u == jobq[i][1]
          IN  tpc[u] = "call" /\ todo[u] # <<>> /\ jobq[i][2] = todo[u][1] /\ todo[u][1].op \in Procs
    /\ \A i, j \in DOMAIN jobq : jobq[i][1] = jobq[j][1] => i = j

(* So is one that is served by t; a handler that has returned has returned *)
(* OK.                                                                     *)
Serving(t, u) ==
    /\ tpc[u] = "call" /\ todo[u] # <<>> /\ todo[u][1].op \in Procs
    /\ pc[t] # "idle" /\ clt[t] = todo[u][1].clt /\ lid[t] = todo[u][1].lid
    /\ pc[t] \in {"waiting", "woken"} => todo[u][1].op = "acquire"
    /\ pc[t] = "returned" => ret[t] = "OK"
    /\ todo[u][1].op = "acquire" => todo[u][1].lid \in locks
    /\ \A i \in DOMAIN jobq : jobq[i][1] # u

ServedOnce ==
    /\ \A t \in Threads : IF serves[t] = NoTester THEN pc[t] = "idle" ELSE Serving(t, serves[t])
    /\ \A s, t \in Threads : serves[s] # NoTester /\ serves[s] = serves[t] => s = t

OwnersHold ==
    \A l \in LockIds :
       /\ \A u \in Testers : Owns(u, l) => /\ l \in locks /\ lh[l].state = "LOCKED"
                                           /\ lh[l].clt = todo[u][1].clt
       /\ \A u, v \in Testers : Owns(u, l) /\ Owns(v, l) => u = v

CountIsRight ==
    \A l \in LockIds : ct[l] = IF \E u \in Testers : Counted(u, l) THEN 1 ELSE 0

TestInv == /\ IInv /\ TestTypes /\ ProgramsAreGood /\ QueuedOnce /\ ServedOnce
           /\ OwnersHold /\ CountIsRight /\ ChecksHold
-----------------------------------------------------------------------------
(* Sequences of steps.                                                     *)

LEMMA SeqFacts ==
    ASSUME NEW s \in Seq(Steps), s # <<>>
    PROVE  /\ Len(s) \in Nat /\ Len(s) >= 1 /\ DOMAIN s = 1 .. Len(s) /\ 1 \in DOMAIN s
           /\ Head(s) = s[1] /\ s[1] \in Steps
           /\ Tail(s) \in Seq(Steps) /\ DOMAIN Tail(s) = 1 .. Len(s) - 1 /\ Len(Tail(s)) = Len(s) - 1
           /\ \A i \in 1 .. Len(s) - 1 : Tail(s)[i] = s[i + 1]
<1>1. Len(s) \in Nat /\ Len(s) >= 1 /\ DOMAIN s = 1 .. Len(s)
  BY LenProperties, EmptySeq
<1>2. /\ Tail(s) \in Seq(Steps) /\ Len(Tail(s)) = Len(s) - 1
      /\ \A i \in 1 .. Len(s) - 1 : Tail(s)[i] = s[i + 1]
  BY <1>1, HeadTailProperties
<1>3. DOMAIN Tail(s) = 1 .. Len(s) - 1
  BY <1>2, LenProperties
<1>4. Head(s) = s[1] /\ 1 \in DOMAIN s
  BY <1>1
<1>5. s[1] \in Steps
  BY <1>1, <1>4, ElementOfSeq
<1> QED BY <1>1, <1>2, <1>3, <1>4, <1>5

LEMMA AfterTail ==
    ASSUME NEW s \in Seq(Steps), s # <<>>, NEW i \in Nat, NEW l, NEW open, NEW close
    PROVE  After(Tail(s), i, l, open, close) <=> After(s, i + 1, l, open, close)
<1> DEFINE T == Tail(s)
           n == Len(s)
<1>1. /\ n \in Nat /\ n >= 1 /\ DOMAIN s = 1 .. n /\ DOMAIN T = 1 .. n - 1
      /\ \A j \in 1 .. n - 1 : T[j] = s[j + 1]
  BY SeqFacts
<1> HIDE DEF T, n
<1>2. ASSUME After(T, i, l, open, close) PROVE After(s, i + 1, l, open, close)
  <2>1. PICK j \in 1 .. n - 1 : /\ j > i /\ T[j].op = close /\ T[j].lid = l
                                /\ \A k \in i + 1 .. j - 1 : T[k].op = open => T[k].lid # l
    BY <1>1, <1>2 DEF After
  <2>2. j + 1 \in DOMAIN s /\ j + 1 > i + 1 /\ s[j + 1].op = close /\ s[j + 1].lid = l
    BY <1>1, <2>1
  <2>3. ASSUME NEW k \in (i + 1) + 1 .. (j + 1) - 1, s[k].op = open PROVE s[k].lid # l
    <3>1. k - 1 \in i + 1 .. j - 1 /\ k - 1 \in 1 .. n - 1 /\ (k - 1) + 1 = k
      BY <1>1, <2>1, <2>3
    <3>2. T[k - 1] = s[k]
      BY <1>1, <3>1
    <3> QED BY <2>1, <2>3, <3>1, <3>2
  <2> QED BY <2>2, <2>3 DEF After
<1>3. ASSUME After(s, i + 1, l, open, close) PROVE After(T, i, l, open, close)
  <2>1. PICK j \in 1 .. n : /\ j > i + 1 /\ s[j].op = close /\ s[j].lid = l
                            /\ \A k \in (i + 1) + 1 .. j - 1 : s[k].op = open => s[k].lid # l
    BY <1>1, <1>3 DEF After
  <2>2. j - 1 \in 1 .. n - 1 /\ (j - 1) + 1 = j /\ j - 1 > i
    BY <1>1, <2>1
  <2>3. T[j - 1] = s[j]
    BY <1>1, <2>2
  <2>4. ASSUME NEW k \in i + 1 .. (j - 1) - 1, T[k].op = open PROVE T[k].lid # l
    <3>1. k \in 1 .. n - 1 /\ k + 1 \in (i + 1) + 1 .. j - 1
      BY <1>1, <2>1, <2>4
    <3>2. T[k] = s[k + 1]
      BY <1>1, <3>1
    <3> QED BY <2>1, <2>4, <3>1, <3>2
  <2> QED BY <1>1, <2>1, <2>2, <2>3, <2>4 DEF After
<1> QED BY <1>2, <1>3 DEF T

(* What a step does to what is open.                                       *)
LEMMA AfterStep ==
    ASSUME NEW s \in Seq(Steps), s # <<>>, NEW l, NEW open, NEW close, open # close
    PROVE  /\ s[1].op = close /\ s[1].lid = l => After(s, 0, l, open, close)
           /\ s[1].op = open /\ s[1].lid = l => ~After(s, 0, l, open, close)
           /\ ~(s[1].op \in {open, close} /\ s[1].lid = l)
              => (After(s, 0, l, open, close) <=> After(s, 1, l, open, close))
<1> DEFINE n == Len(s)
<1>1. n \in Nat /\ n >= 1 /\ DOMAIN s = 1 .. n
  BY SeqFacts
<1> HIDE DEF n
<1>2. ASSUME s[1].op = close, s[1].lid = l PROVE After(s, 0, l, open, close)
  <2>1. 1 \in DOMAIN s /\ 1 > 0 /\ 0 + 1 .. 1 - 1 = {}
    BY <1>1
  <2> QED BY <1>2, <2>1 DEF After
<1>3. ASSUME s[1].op = open, s[1].lid = l, After(s, 0, l, open, close) PROVE FALSE
  <2>1. PICK j \in 1 .. n : /\ j > 0 /\ s[j].op = close
                            /\ \A k \in 0 + 1 .. j - 1 : s[k].op = open => s[k].lid # l
    BY <1>1, <1>3 DEF After
  <2>2. j # 1
    BY <1>3, <2>1
  <2>3. 1 \in 0 + 1 .. j - 1
    BY <1>1, <2>1, <2>2
  <2> QED BY <1>3, <2>1, <2>3
<1>4. ASSUME ~(s[1].op \in {open, close} /\ s[1].lid = l), After(s, 0, l, open, close)
      PROVE  After(s, 1, l, open, close)
  <2>1. PICK j \in 1 .. n : /\ j > 0 /\ s[j].op = close /\ s[j].lid = l
                            /\ \A k \in 0 + 1 .. j - 1 : s[k].op = open => s[k].lid # l
    BY <1>1, <1>4 DEF After
  <2>2. j # 1 /\ j > 1
    BY <1>1, <1>4, <2>1
  <2>3. \A k \in 1 + 1 .. j - 1 : k \in 0 + 1 .. j - 1
    BY <1>1
  <2> QED BY <1>1, <2>1, <2>2, <2>3 DEF After
<1>5. ASSUME ~(s[1].op \in {open, close} /\ s[1].lid = l), After(s, 1, l, open, close)
      PROVE  After(s, 0, l, open, close)
  <2>1. PICK j \in 1 .. n : /\ j > 1 /\ s[j].op = close /\ s[j].lid = l
                            /\ \A k \in 1 + 1 .. j - 1 : s[k].op = open => s[k].lid # l
    BY <1>1, <1>5 DEF After
  <2>2. \A k \in 0 + 1 .. j - 1 : k = 1 \/ k \in 1 + 1 .. j - 1
    BY <1>1
  <2>3. \A k \in 0 + 1 .. j - 1 : s[k].op = open => s[k].lid # l
    BY <1>5, <2>1, <2>2
  <2>4. j > 0
    BY <1>1, <2>1
  <2> QED BY <1>1, <2>1, <2>3, <2>4 DEF After
<1> QED BY <1>2, <1>3, <1>4, <1>5

LEMMA AfterEmpty == ASSUME NEW i, NEW l, NEW open, NEW close PROVE ~After(<<>>, i, l, open, close)
  BY DEF After

LEMMA PairedTail ==
    ASSUME NEW s \in Seq(Steps), s # <<>>, NEW open, NEW close, Paired(s, open, close)
    PROVE  Paired(Tail(s), open, close)
<1> SUFFICES ASSUME NEW i \in DOMAIN Tail(s)
             PROVE  /\ Tail(s)[i].op = open => After(Tail(s), i, Tail(s)[i].lid, open, close)
                    /\ Tail(s)[i].op = close => ~After(Tail(s), i, Tail(s)[i].lid, open, close)
  BY DEF Paired
<1>1. i \in Nat /\ i + 1 \in DOMAIN s /\ Tail(s)[i] = s[i + 1]
  BY SeqFacts
<1>2. \A l : After(Tail(s), i, l, open, close) <=> After(s, i + 1, l, open, close)
  BY <1>1, AfterTail
<1> QED BY <1>1, <1>2 DEF Paired

LEMMA NestedTail ==
    ASSUME NEW s \in Seq(Steps), s # <<>>, Nested(s) PROVE Nested(Tail(s))
<1> SUFFICES ASSUME NEW i \in 0 .. Len(Tail(s)), NEW l \in LockIds, Counts(Tail(s), i, l)
             PROVE  Owes(Tail(s), i, l)
  BY DEF Nested
<1>1. i \in Nat /\ i + 1 \in 0 .. Len(s)
  BY SeqFacts
<1> QED BY <1>1, AfterTail DEF Nested, Counts, Owes

LEMMA WellFormedTail ==
    ASSUME NEW s, s # <<>>, WellFormed(s)
    PROVE  /\ WellFormed(Tail(s))
           /\ Tail(s) # <<>> => Tail(s)[1].clt = s[1].clt
<1>1. s \in Seq(Steps) /\ OneClient(s)
  BY DEF WellFormed
<1>2. Tail(s) \in Seq(Steps) /\ Paired(Tail(s), "acquire", "release")
      /\ Paired(Tail(s), "check_grant", "check_release")
  BY <1>1, SeqFacts, PairedTail DEF WellFormed
<1>3. \A i \in DOMAIN Tail(s) : i + 1 \in DOMAIN s /\ Tail(s)[i] = s[i + 1]
  BY <1>1, SeqFacts
<1>4. OneClient(Tail(s))
  BY <1>1, <1>3 DEF OneClient
<1>5. ASSUME Tail(s) # <<>> PROVE Tail(s)[1].clt = s[1].clt
  <2>1. 1 \in DOMAIN Tail(s) /\ 1 \in DOMAIN s
    BY <1>1, <1>2, <1>5, SeqFacts
  <2> QED BY <1>1, <1>3, <2>1 DEF OneClient
<1> QED BY <1>2, <1>4, <1>5 DEF WellFormed
-----------------------------------------------------------------------------
(* The tester's programs.                                                  *)

(* Nothing is open before the first step.                                  *)
Fresh(s) == \A l \in LockIds : ~Owes(s, 0, l) /\ ~Counts(s, 0, l)

(* How many of the four steps of its round come before step k.             *)
Place(k) == (k - 1) % 4

LEMMA Places ==
    ASSUME NEW n \in Nat, NEW k \in 1 .. n * 4
    PROVE  /\ k \in Nat /\ n * 4 \in Nat /\ Place(k) \in 0 .. 3
           /\ Place(k) # 3 => k + 1 \in 1 .. n * 4 /\ Place(k + 1) = Place(k) + 1
           /\ Place(k) = 3 => Place(k + 1) = 0
<1>1. k \in Nat /\ n * 4 \in Nat /\ k >= 1 /\ k <= n * 4
  OBVIOUS
<1>2. Place(k) \in 0 .. 3
  BY <1>1 DEF Place
<1>3. Place(k) # 3 => Place(k + 1) = Place(k) + 1
  BY <1>1 DEF Place
<1>4. Place(k) = 3 => Place(k + 1) = 0
  BY <1>1 DEF Place
<1>5. Place(k) # 3 => k # n * 4
  BY <1>1 DEF Place
<1> QED BY <1>1, <1>2, <1>3, <1>4, <1>5

(* The steps of thread i's round.                                          *)
LEMMA RoundSteps ==
    ASSUME NEW i \in 0 .. nt
    PROVE  /\ Len(Round(i)) = 4
           /\ \A j \in 1 .. 4 : /\ Round(i)[j] \in Steps
                                /\ Round(i)[j].lid = a /\ Round(i)[j].clt = lc[i]
           /\ Round(i)[1].op = "acquire" /\ Round(i)[2].op = "check_grant"
           /\ Round(i)[3].op = "check_release" /\ Round(i)[4].op = "release"
<1>1. lc[i] \in Clients /\ a \in LockIds
  BY lcAssumption, lockAssumption
<1>2. \A op \in Ops : Step(op, i, a) \in Steps /\ Step(op, i, a).op = op
                      /\ Step(op, i, a).lid = a /\ Step(op, i, a).clt = lc[i]
  BY <1>1 DEF Step, Steps
<1>3. /\ Len(Round(i)) = 4 /\ Round(i)[1] = Step("acquire", i, a)
      /\ Round(i)[2] = Step("check_grant", i, a) /\ Round(i)[3] = Step("check_release", i, a)
      /\ Round(i)[4] = Step("release", i, a)
  BY DEF Round
<1>4. "acquire" \in Ops /\ "check_grant" \in Ops /\ "check_release" \in Ops /\ "release" \in Ops
  BY DEF Ops, Procs
<1>5. \A j \in 1 .. 4 : j = 1 \/ j = 2 \/ j = 3 \/ j = 4
  OBVIOUS
<1> QED BY <1>2, <1>3, <1>4, <1>5

(* A sequence of rounds keeps the tester's discipline.                     *)
LEMMA RoundsAreGood ==
    ASSUME NEW i \in 0 .. nt, NEW n \in Nat, NEW s,
           s = [k \in 1 .. n * 4 |-> Round(i)[Place(k) + 1]]
    PROVE  WellFormed(s) /\ Nested(s) /\ Fresh(s)
<1> DEFINE N == n * 4
<1>1. N \in Nat /\ DOMAIN s = 1 .. N
  OBVIOUS
<1>2. ASSUME NEW k \in 1 .. N
      PROVE  /\ s[k] \in Steps /\ s[k].lid = a /\ s[k].clt = lc[i]
             /\ (s[k].op = "acquire" <=> Place(k) = 0) /\ (s[k].op = "check_grant" <=> Place(k) = 1)
             /\ (s[k].op = "check_release" <=> Place(k) = 2) /\ (s[k].op = "release" <=> Place(k) = 3)
  <2>1. s[k] = Round(i)[Place(k) + 1]
    OBVIOUS
  <2>2. Place(k) \in 0 .. 3
    BY Places
  <2>3. Place(k) = 0 \/ Place(k) = 1 \/ Place(k) = 2 \/ Place(k) = 3
    BY <2>2
  <2> QED BY <2>1, <2>3, RoundSteps
<1>3. s \in Seq(Steps) /\ Len(s) = N
  <2>1. s \in [1 .. N -> Steps]
    BY <1>2
  <2>2. s \in Seq(Steps)
    BY <1>1, <2>1, SeqDef
  <2> QED BY <1>1, <2>2, LenProperties
<1>4. \A k \in 1 .. N : /\ k \in Nat /\ Place(k) \in 0 .. 3
                        /\ Place(k) # 3 => k + 1 \in 1 .. N /\ Place(k + 1) = Place(k) + 1
                        /\ Place(k) = 3 => Place(k + 1) = 0
  BY Places
<1> HIDE DEF N
<1>5. ASSUME NEW k \in 1 .. N, Place(k) # 3 PROVE Owes(s, k, a)
  <2>1. CASE Place(k) = 2
    <3>1. k + 1 \in 1 .. N /\ Place(k + 1) = 3
      BY <1>4, <2>1
    <3>2. k + 1 > k /\ k + 1 .. (k + 1) - 1 = {}
      BY <1>4
    <3> QED BY <1>1, <1>2, <3>1, <3>2 DEF Owes, After
  <2>2. CASE Place(k) = 1
    <3>1. k + 1 \in 1 .. N /\ Place(k + 1) = 2
      BY <1>4, <2>2
    <3>2. (k + 1) + 1 \in 1 .. N /\ Place((k + 1) + 1) = 3
      BY <1>4, <3>1
    <3>3. \A j \in k + 1 .. ((k + 1) + 1) - 1 : s[j].op # "acquire"
      <4>1. \A j \in k + 1 .. ((k + 1) + 1) - 1 : j = k + 1
        BY <1>4
      <4>2. s[k + 1].op # "acquire"
        BY <1>2, <3>1
      <4> QED BY <4>1, <4>2
    <3>4. (k + 1) + 1 > k
      BY <1>4
    <3> QED BY <1>1, <1>2, <3>2, <3>3, <3>4 DEF Owes, After
  <2>3. CASE Place(k) = 0
    <3>1. k + 1 \in 1 .. N /\ Place(k + 1) = 1
      BY <1>4, <2>3
    <3>2. k + 2 \in 1 .. N /\ Place(k + 2) = 2
      <4>1. (k + 1) + 1 = k + 2
        BY <1>4
      <4> QED BY <1>4, <3>1, <4>1
    <3>3. k + 3 \in 1 .. N /\ Place(k + 3) = 3
      <4>1. (k + 2) + 1 = k + 3
        BY <1>4
      <4> QED BY <1>4, <3>2, <4>1
    <3>4. \A j \in k + 1 .. (k + 3) - 1 : j = k + 1 \/ j = k + 2
      BY <1>4
    <3>5. \A j \in k + 1 .. (k + 3) - 1 : s[j].op # "acquire"
      BY <1>2, <3>1, <3>2, <3>4
    <3>6. k + 3 > k
      BY <1>4
    <3> QED BY <1>1, <1>2, <3>3, <3>5, <3>6 DEF Owes, After
  <2> QED BY <1>4, <1>5, <2>1, <2>2, <2>3
<1>6. ASSUME NEW k \in 0 .. N, NEW l, k = 0 \/ Place(k) = 3, Owes(s, k, l) PROVE FALSE
  <2>1. PICK j \in 1 .. N : /\ j > k /\ s[j].op = "release" /\ s[j].lid = l
                            /\ \A m \in k + 1 .. j - 1 : s[m].op = "acquire" => s[m].lid # l
    BY <1>1, <1>6 DEF Owes, After
  <2>2. k + 1 \in 1 .. N
    BY <1>1, <2>1
  <2>3. Place(k + 1) = 0
    <3>1. CASE k = 0
      BY <3>1 DEF Place
    <3>2. CASE k # 0
      BY <1>1, <1>4, <1>6, <3>2
    <3> QED BY <3>1, <3>2
  <2>4. s[k + 1].op = "acquire" /\ s[k + 1].lid = a /\ s[j].lid = a /\ j # k + 1
    BY <1>2, <2>1, <2>2, <2>3
  <2>5. k + 1 \in k + 1 .. j - 1
    BY <1>1, <2>1, <2>4
  <2> QED BY <2>1, <2>4, <2>5
<1>7. ASSUME NEW k \in 1 .. N, Place(k) = 1 PROVE Counts(s, k, a)
  <2>1. k + 1 \in 1 .. N /\ Place(k + 1) = 2
    BY <1>4, <1>7
  <2>2. k + 1 > k /\ k + 1 .. (k + 1) - 1 = {}
    BY <1>4
  <2> QED BY <1>1, <1>2, <2>1, <2>2 DEF Counts, After
<1>8. ASSUME NEW k \in 0 .. N, NEW l, k = 0 \/ Place(k) # 1, Counts(s, k, l) PROVE FALSE
  <2>1. PICK j \in 1 .. N : /\ j > k /\ s[j].op = "check_release" /\ s[j].lid = l
                            /\ \A m \in k + 1 .. j - 1 : s[m].op = "check_grant" => s[m].lid # l
    BY <1>1, <1>8 DEF Counts, After
  <2>2. Place(j) = 2 /\ s[j].lid = a
    BY <1>2, <2>1
  <2>3. j - 1 \in 1 .. N /\ Place(j - 1) = 1
    <3>1. j \in Nat /\ j # 1 /\ j > 0
      BY <1>4, <2>1, <2>2 DEF Place
    <3>2. j - 1 \in 1 .. N /\ (j - 1) + 1 = j
      BY <1>1, <3>1
    <3>3. Place(j - 1) \in 0 .. 3 /\ (Place(j - 1) = 3 => Place(j) = 0)
          /\ (Place(j - 1) # 3 => Place(j) = Place(j - 1) + 1)
      BY <1>4, <3>2
    <3> QED BY <2>2, <3>2, <3>3
  <2>4. k # j - 1
    BY <1>1, <1>8, <2>3
  <2>5. j - 1 \in k + 1 .. j - 1
    BY <1>1, <2>1, <2>4
  <2>6. s[j - 1].op = "check_grant" /\ s[j - 1].lid = a
    BY <1>2, <2>3
  <2> QED BY <2>1, <2>2, <2>5, <2>6
<1>9. \A k \in 1 .. N : k \in 0 .. N
  BY <1>1
<1>10. ASSUME NEW k \in 1 .. N
       PROVE  /\ s[k].op = "acquire" => Owes(s, k, s[k].lid)
              /\ s[k].op = "release" => ~Owes(s, k, s[k].lid)
              /\ s[k].op = "check_grant" => Counts(s, k, s[k].lid)
              /\ s[k].op = "check_release" => ~Counts(s, k, s[k].lid)
  <2>1. s[k].op = "acquire" => Owes(s, k, a)
    BY <1>2, <1>5
  <2>2. s[k].op = "release" => ~Owes(s, k, a)
    BY <1>2, <1>6, <1>9
  <2>3. s[k].op = "check_grant" => Counts(s, k, a)
    BY <1>2, <1>7
  <2>4. s[k].op = "check_release" => ~Counts(s, k, a)
    BY <1>2, <1>8, <1>9
  <2> QED BY <1>2, <2>1, <2>2, <2>3, <2>4
<1>11. Paired(s, "acquire", "release") /\ Paired(s, "check_grant", "check_release")
  BY <1>1, <1>10 DEF Paired, Owes, Counts
<1>12. OneClient(s)
  BY <1>1, <1>2 DEF OneClient
<1>13. Nested(s)
  <2> SUFFICES ASSUME NEW k \in 0 .. N, NEW l \in LockIds, Counts(s, k, l) PROVE Owes(s, k, l)
    BY <1>3 DEF Nested
  <2>1. k # 0 /\ Place(k) = 1
    BY <1>8
  <2>2. k \in 1 .. N
    BY <1>1, <2>1
  <2>3. l = a
    BY <1>1, <1>2 DEF Counts, After
  <2> QED BY <1>5, <2>1, <2>2, <2>3
<1>14. Fresh(s)
  <2>1. 0 \in 0 .. N
    BY <1>1
  <2> QED BY <1>6, <1>8, <2>1 DEF Fresh
<1> QED BY <1>3, <1>11, <1>12, <1>13, <1>14 DEF WellFormed

(* What the sixteen steps of test 1 do, and to which lock.                 *)
LEMMA Test1Steps ==
    /\ test1 \in Seq(Steps) /\ Len(test1) = 16
    /\ \A j \in 1 .. 16 : test1[j].clt = lc[0]
    /\ \A j \in {1, 5, 9} : test1[j].op = "acquire" /\ test1[j].lid = a
    /\ \A j \in {2, 6, 10} : test1[j].op = "check_grant" /\ test1[j].lid = a
    /\ \A j \in {3, 7, 15} : test1[j].op = "release" /\ test1[j].lid = a
    /\ \A j \in {4, 8, 16} : test1[j].op = "check_release" /\ test1[j].lid = a
    /\ test1[11].op = "acquire" /\ test1[12].op = "check_grant"
    /\ test1[13].op = "release" /\ test1[14].op = "check_release"
    /\ \A j \in 11 .. 14 : test1[j].lid = b
<1> DEFINE S(op, l) == Step(op, 0, l)
           take(l) == <<S("acquire", l), S("check_grant", l)>>
           give(l) == <<S("release", l), S("check_release", l)>>
<1>1. \A op \in Ops : \A l \in LockIds : S(op, l) \in Steps /\ S(op, l).op = op
                      /\ S(op, l).lid = l /\ S(op, l).clt = lc[0]
  BY lcAssumption, ntAssumption DEF Step, Steps
<1>2. test1 = take(a) \o give(a) \o take(a) \o give(a) \o take(a) \o take(b) \o give(b) \o give(a)
  BY DEF test1
<1> HIDE DEF S
<1>3. /\ test1[1] = S("acquire", a) /\ test1[2] = S("check_grant", a)
      /\ test1[3] = S("release", a) /\ test1[4] = S("check_release", a)
      /\ test1[5] = S("acquire", a) /\ test1[6] = S("check_grant", a)
      /\ test1[7] = S("release", a) /\ test1[8] = S("check_release", a)
      /\ test1[9] = S("acquire", a) /\ test1[10] = S("check_grant", a)
      /\ test1[11] = S("acquire", b) /\ test1[12] = S("check_grant", b)
      /\ test1[13] = S("release", b) /\ test1[14] = S("check_release", b)
      /\ test1[15] = S("release", a) /\ test1[16] = S("check_release", a)
  BY <1>2
<1>4. Len(test1) = 16
  BY <1>2
<1>5. /\ "acquire" \in Ops /\ "check_grant" \in Ops /\ "check_release" \in Ops /\ "release" \in Ops
      /\ a \in LockIds /\ b \in LockIds
  BY lockAssumption DEF Ops, Procs
<1>6. test1 \in Seq(Steps)
  <2>1. \A l \in LockIds : take(l) \in Seq(Steps) /\ give(l) \in Seq(Steps)
    BY <1>1, <1>5
  <2> HIDE DEF take, give
  <2> QED BY <1>2, <1>5, <2>1, ConcatProperties
<1> QED BY <1>1, <1>3, <1>4, <1>5, <1>6

LEMMA Test1IsGood == WellFormed(test1) /\ Fresh(test1)
<1> DEFINE s == test1
           op(j) == s[j].op
           at(j) == s[j].lid
<1>1. /\ s \in Seq(Steps) /\ DOMAIN s = 1 .. 16 /\ \A j \in 1 .. 16 : s[j].clt = lc[0]
      /\ \A j \in {1, 5, 9} : op(j) = "acquire" /\ at(j) = a
      /\ \A j \in {2, 6, 10} : op(j) = "check_grant" /\ at(j) = a
      /\ \A j \in {3, 7, 15} : op(j) = "release" /\ at(j) = a
      /\ \A j \in {4, 8, 16} : op(j) = "check_release" /\ at(j) = a
      /\ op(11) = "acquire" /\ op(12) = "check_grant"
      /\ op(13) = "release" /\ op(14) = "check_release"
      /\ \A j \in 11 .. 14 : at(j) = b
  BY Test1Steps, LenProperties
<1>2. \A l, open, close : \A i \in 0 .. 16 :
         After(s, i, l, open, close) <=>
            \E j \in 1 .. 16 : /\ j > i /\ op(j) = close /\ at(j) = l
                               /\ \A k \in i + 1 .. j - 1 : op(k) = open => at(k) # l
  BY <1>1 DEF After
<1>3. a # b
  BY lockAssumption
<1> HIDE DEF s, op, at
<1>4. \A j \in 1 .. 16 : /\ (op(j) = "acquire" <=> j \in {1, 5, 9, 11})
                         /\ (op(j) = "release" <=> j \in {3, 7, 13, 15})
                         /\ (op(j) = "check_grant" <=> j \in {2, 6, 10, 12})
                         /\ (op(j) = "check_release" <=> j \in {4, 8, 14, 16})
                         /\ (at(j) = b <=> j \in 11 .. 14)
                         /\ (at(j) = a <=> j \in 1 .. 10 \cup {15, 16})
  <2> SUFFICES ASSUME NEW j \in 1 .. 16
               PROVE  /\ (op(j) = "acquire" <=> j \in {1, 5, 9, 11})
                      /\ (op(j) = "release" <=> j \in {3, 7, 13, 15})
                      /\ (op(j) = "check_grant" <=> j \in {2, 6, 10, 12})
                      /\ (op(j) = "check_release" <=> j \in {4, 8, 14, 16})
                      /\ (at(j) = b <=> j \in 11 .. 14)
                      /\ (at(j) = a <=> j \in 1 .. 10 \cup {15, 16})
    OBVIOUS
  <2>1. CASE j \in {1, 5, 9, 11}
    <3>1. op(j) = "acquire" /\ at(j) = IF j = 11 THEN b ELSE a
      BY <1>1, <2>1
    <3> QED BY <1>3, <2>1, <3>1
  <2>2. CASE j \in {2, 6, 10, 12}
    <3>1. op(j) = "check_grant" /\ at(j) = IF j = 12 THEN b ELSE a
      BY <1>1, <2>2
    <3> QED BY <1>3, <2>2, <3>1
  <2>3. CASE j \in {3, 7, 13, 15}
    <3>1. op(j) = "release" /\ at(j) = IF j = 13 THEN b ELSE a
      BY <1>1, <2>3
    <3> QED BY <1>3, <2>3, <3>1
  <2>4. CASE j \in {4, 8, 14, 16}
    <3>1. op(j) = "check_release" /\ at(j) = IF j = 14 THEN b ELSE a
      BY <1>1, <2>4
    <3> QED BY <1>3, <2>4, <3>1
  <2>5. j \in {1, 5, 9, 11} \/ j \in {2, 6, 10, 12} \/ j \in {3, 7, 13, 15} \/ j \in {4, 8, 14, 16}
    OBVIOUS
  <2> QED BY <2>1, <2>2, <2>3, <2>4, <2>5
<1>5. ASSUME NEW i \in {1, 5, 9, 11}, NEW l, l = at(i) PROVE After(s, i, l, "acquire", "release")
  <2> DEFINE j == IF i = 9 THEN 15 ELSE i + 2
  <2>1. j \in 1 .. 16 /\ i \in 0 .. 16 /\ j > i /\ op(j) = "release" /\ at(j) = l
    BY <1>4, <1>5
  <2>2. \A k \in i + 1 .. j - 1 : op(k) = "acquire" => at(k) # l
    BY <1>3, <1>4, <1>5
  <2> QED BY <1>2, <2>1, <2>2
<1>6. ASSUME NEW i \in {0, 3, 7, 13, 15}, NEW l, l = a \/ (l = b /\ i \in {0, 13}),
             After(s, i, l, "acquire", "release"), i = 0 \/ l = at(i)
      PROVE  FALSE
  <2>1. PICK j \in 1 .. 16 : /\ j > i /\ op(j) = "release" /\ at(j) = l
                             /\ \A k \in i + 1 .. j - 1 : op(k) = "acquire" => at(k) # l
    BY <1>2, <1>6
  <2>2. /\ l = a => j \in {3, 7, 15}
        /\ l = b => j = 13
    BY <1>3, <1>4, <2>1
  <2> DEFINE k == IF l = b THEN 11 ELSE IF j = 15 THEN 9 ELSE j - 2
  <2>3. k \in i + 1 .. j - 1 /\ k \in 1 .. 16 /\ op(k) = "acquire" /\ at(k) = l
    BY <1>3, <1>4, <1>6, <2>1, <2>2
  <2> QED BY <2>1, <2>3
<1>7. ASSUME NEW i \in {2, 6, 10, 12}, NEW l, l = at(i)
      PROVE  After(s, i, l, "check_grant", "check_release")
  <2> DEFINE j == IF i = 10 THEN 16 ELSE i + 2
  <2>1. j \in 1 .. 16 /\ i \in 0 .. 16 /\ j > i /\ op(j) = "check_release" /\ at(j) = l
    BY <1>4, <1>7
  <2>2. \A k \in i + 1 .. j - 1 : op(k) = "check_grant" => at(k) # l
    BY <1>3, <1>4, <1>7
  <2> QED BY <1>2, <2>1, <2>2
<1>8. ASSUME NEW i \in {0, 4, 8, 14, 16}, NEW l, l = a \/ (l = b /\ i \in {0, 14}),
             After(s, i, l, "check_grant", "check_release"), i = 0 \/ l = at(i)
      PROVE  FALSE
  <2>1. PICK j \in 1 .. 16 : /\ j > i /\ op(j) = "check_release" /\ at(j) = l
                             /\ \A k \in i + 1 .. j - 1 : op(k) = "check_grant" => at(k) # l
    BY <1>2, <1>8
  <2>2. /\ l = a => j \in {4, 8, 16}
        /\ l = b => j = 14
    BY <1>3, <1>4, <2>1
  <2> DEFINE k == IF l = b THEN 12 ELSE IF j = 16 THEN 10 ELSE j - 2
  <2>3. k \in i + 1 .. j - 1 /\ k \in 1 .. 16 /\ op(k) = "check_grant" /\ at(k) = l
    BY <1>3, <1>4, <1>8, <2>1, <2>2
  <2> QED BY <2>1, <2>3
<1>9. Paired(s, "acquire", "release")
  <2> SUFFICES ASSUME NEW i \in 1 .. 16
               PROVE  /\ op(i) = "acquire" => After(s, i, at(i), "acquire", "release")
                      /\ op(i) = "release" => ~After(s, i, at(i), "acquire", "release")
    BY <1>1 DEF Paired, op, at
  <2>1. op(i) = "release" => at(i) = a \/ (at(i) = b /\ i = 13)
    BY <1>4
  <2> QED BY <1>4, <1>5, <1>6, <2>1
<1>10. Paired(s, "check_grant", "check_release")
  <2> SUFFICES ASSUME NEW i \in 1 .. 16
               PROVE  /\ op(i) = "check_grant" => After(s, i, at(i), "check_grant", "check_release")
                      /\ op(i) = "check_release" => ~After(s, i, at(i), "check_grant", "check_release")
    BY <1>1 DEF Paired, op, at
  <2>1. op(i) = "check_release" => at(i) = a \/ (at(i) = b /\ i = 14)
    BY <1>4
  <2> QED BY <1>4, <1>7, <1>8, <2>1
<1>11. Fresh(s)
  <2> SUFFICES ASSUME NEW l PROVE ~Owes(s, 0, l) /\ ~Counts(s, 0, l)
    BY DEF Fresh
  <2>1. l = a \/ l = b \/ \A j \in 1 .. 16 : at(j) # l
    BY <1>4
  <2>2. (\A j \in 1 .. 16 : at(j) # l) => ~Owes(s, 0, l) /\ ~Counts(s, 0, l)
    BY <1>1 DEF Owes, Counts, After, at
  <2> QED BY <1>6, <1>8, <2>1, <2>2 DEF Owes, Counts
<1>12. OneClient(s)
  BY <1>1 DEF OneClient
<1> QED BY <1>1, <1>9, <1>10, <1>11, <1>12 DEF WellFormed, s

LEMMA EmptyIsGood == WellFormed(<<>>) /\ Nested(<<>>) /\ Fresh(<<>>)
<1>1. <<>> \in Seq(Steps) /\ DOMAIN <<>> = {}
  OBVIOUS
<1> QED BY <1>1, AfterEmpty DEF WellFormed, Nested, Fresh, Paired, OneClient, Owes, Counts

(* The demo's steps open and close nothing.                                *)
LEMMA StatsAreGood ==
    ASSUME NEW s, \A i \in DOMAIN s : s[i].op = "stat"
    PROVE  /\ Nested(s) /\ Fresh(s)
           /\ Paired(s, "acquire", "release") /\ Paired(s, "check_grant", "check_release")
<1>1. \A i, l : ~Owes(s, i, l) /\ ~Counts(s, i, l)
  BY DEF Owes, Counts, After
<1> QED BY <1>1 DEF Nested, Fresh, Paired

LEMMA DemoIsGood == WellFormed(demo) /\ \A i \in DOMAIN demo : demo[i].op = "stat"
<1>1. Step("stat", Demo, a) \in Steps /\ Step("stat", Demo, a).op = "stat"
  <2>1. Demo \in 0 .. nt
    BY ntAssumption DEF Demo
  <2> QED BY <2>1, lcAssumption, lockAssumption DEF Step, Steps, Ops, Procs
<1>2. DOMAIN demo = {1} /\ demo[1] = Step("stat", Demo, a) /\ demo \in Seq(Steps)
  BY <1>1 DEF demo
<1>3. \A i \in DOMAIN demo : demo[i].op = "stat"
  BY <1>1, <1>2
<1>4. OneClient(demo)
  BY <1>2 DEF OneClient
<1> QED BY <1>2, <1>3, <1>4, StatsAreGood DEF WellFormed

(* Every test keeps the discipline, and test 1 has one thread.             *)
LEMMA ProgramIsGood ==
    ASSUME NEW k \in 1 .. 6, NEW u \in Testers \ {Demo}
    PROVE  /\ WellFormed(Program(k, u)) /\ Fresh(Program(k, u))
           /\ k # 1 => Nested(Program(k, u))
           /\ k = 1 /\ u # 0 => Program(k, u) = <<>>
<1>0. u \in 0 .. nt /\ 0 \in 0 .. nt /\ 1 \in 0 .. nt /\ Rounds \in Nat
  BY ntAssumption DEF Testers
<1>1. ASSUME NEW i \in 0 .. nt PROVE WellFormed(Loop(i)) /\ Nested(Loop(i)) /\ Fresh(Loop(i))
  <2>1. Loop(i) = [m \in 1 .. Rounds * 4 |-> Round(i)[Place(m) + 1]]
    <3>1. Len(Round(i)) = 4
      BY RoundSteps
    <3> QED BY <3>1 DEF Loop, Place
  <2> QED BY <1>0, <2>1, RoundsAreGood
<1>2. WellFormed(Round(u)) /\ Nested(Round(u)) /\ Fresh(Round(u))
  <2>1. Round(u) = [m \in 1 .. 1 * 4 |-> Round(u)[Place(m) + 1]]
    <3>1. /\ 1 * 4 = 4 /\ Place(1) = 0 /\ Place(2) = 1 /\ Place(3) = 2 /\ Place(4) = 3
      BY DEF Place
    <3> DEFINE f == [m \in 1 .. 4 |-> Round(u)[Place(m) + 1]]
    <3>2. f[1] = Round(u)[1] /\ f[2] = Round(u)[2] /\ f[3] = Round(u)[3] /\ f[4] = Round(u)[4]
      BY <3>1
    <3>3. Round(u) \in [1 .. 4 -> Steps]
      BY <1>0, RoundSteps DEF Round
    <3>4. \A m \in 1 .. 4 : m = 1 \/ m = 2 \/ m = 3 \/ m = 4
      OBVIOUS
    <3>5. DOMAIN f = 1 .. 4 /\ DOMAIN Round(u) = 1 .. 4 /\ \A m \in 1 .. 4 : f[m] = Round(u)[m]
      BY <3>2, <3>3, <3>4
    <3>6. Round(u) = [m \in 1 .. 4 |-> Round(u)[m]]
      BY <3>3
    <3>7. f = [m \in 1 .. 4 |-> Round(u)[m]]
      BY <3>5
    <3> QED BY <3>1, <3>6, <3>7
  <2> QED BY <1>0, <2>1, RoundsAreGood
<1>3. CASE k = 1
  BY <1>3, Test1IsGood, EmptyIsGood DEF Program
<1>4. CASE k = 2
  BY <1>2, <1>4 DEF Program, test2
<1>5. CASE k = 3
  BY <1>0, <1>1, <1>5 DEF Program, test3
<1>6. CASE k = 4
  BY <1>0, <1>1, <1>6, EmptyIsGood DEF Program, test4
<1>7. CASE k = 5
  BY <1>0, <1>1, <1>7 DEF Program, test5
<1>8. CASE k = 6
  BY <1>8, EmptyIsGood DEF Program
<1> QED BY <1>3, <1>4, <1>5, <1>6, <1>7, <1>8

(* What one step of a thread does to its locks and counts.                 *)
LEMMA StepEffect ==
    ASSUME NEW s, WellFormed(s), s # <<>>
    PROVE  /\ s[1].op = "acquire" => ~Owes(s, 0, s[1].lid) /\ Owes(s, 1, s[1].lid)
           /\ s[1].op = "release" => Owes(s, 0, s[1].lid) /\ ~Owes(s, 1, s[1].lid)
           /\ \A l : ~(s[1].op \in {"acquire", "release"} /\ s[1].lid = l)
                     => (Owes(s, 0, l) <=> Owes(s, 1, l))
           /\ s[1].op = "check_grant" => ~Counts(s, 0, s[1].lid) /\ Counts(s, 1, s[1].lid)
           /\ s[1].op = "check_release" => Counts(s, 0, s[1].lid) /\ ~Counts(s, 1, s[1].lid)
           /\ \A l : ~(s[1].op \in {"check_grant", "check_release"} /\ s[1].lid = l)
                     => (Counts(s, 0, l) <=> Counts(s, 1, l))
           /\ \A l : (Owes(Tail(s), 0, l) <=> Owes(s, 1, l)) /\ (Counts(Tail(s), 0, l) <=> Counts(s, 1, l))
<1>1. s \in Seq(Steps) /\ 1 \in DOMAIN s
  BY SeqFacts DEF WellFormed
<1>2. Paired(s, "acquire", "release") /\ Paired(s, "check_grant", "check_release")
  BY DEF WellFormed
<1>3. \A l : (Owes(Tail(s), 0, l) <=> Owes(s, 1, l)) /\ (Counts(Tail(s), 0, l) <=> Counts(s, 1, l))
  <2>1. 0 \in Nat /\ 0 + 1 = 1
    OBVIOUS
  <2> QED BY <1>1, <2>1, AfterTail DEF Owes, Counts
<1>4. \A l : /\ s[1].op = "release" /\ s[1].lid = l => Owes(s, 0, l)
             /\ s[1].op = "acquire" /\ s[1].lid = l => ~Owes(s, 0, l)
             /\ ~(s[1].op \in {"acquire", "release"} /\ s[1].lid = l) => (Owes(s, 0, l) <=> Owes(s, 1, l))
  BY <1>1, AfterStep DEF Owes
<1>5. \A l : /\ s[1].op = "check_release" /\ s[1].lid = l => Counts(s, 0, l)
             /\ s[1].op = "check_grant" /\ s[1].lid = l => ~Counts(s, 0, l)
             /\ ~(s[1].op \in {"check_grant", "check_release"} /\ s[1].lid = l)
                => (Counts(s, 0, l) <=> Counts(s, 1, l))
  BY <1>1, AfterStep DEF Counts
<1>6. /\ s[1].op = "acquire" => Owes(s, 1, s[1].lid)
      /\ s[1].op = "release" => ~Owes(s, 1, s[1].lid)
  BY <1>1, <1>2 DEF Paired, Owes
<1>7. /\ s[1].op = "check_grant" => Counts(s, 1, s[1].lid)
      /\ s[1].op = "check_release" => ~Counts(s, 1, s[1].lid)
  BY <1>1, <1>2 DEF Paired, Counts
<1> QED BY <1>3, <1>4, <1>5, <1>6, <1>7
-----------------------------------------------------------------------------
(* The state between the steps.                                            *)

(* The request at the front of the queue.                                  *)
LEMMA FrontJob ==
    ASSUME TestInv, jobq # <<>>
    PROVE  LET u == Head(jobq)[1]
           IN  /\ u \in Testers /\ Head(jobq)[2] = todo[u][1] /\ tpc[u] = "call" /\ todo[u] # <<>>
               /\ todo[u][1] \in Steps /\ todo[u][1].op \in Procs /\ WellFormed(todo[u])
               /\ \A t \in Threads : serves[t] # u
               /\ \A i \in DOMAIN Tail(jobq) : /\ i + 1 \in DOMAIN jobq /\ Tail(jobq)[i] = jobq[i + 1]
                                               /\ Tail(jobq)[i][1] # u
               /\ Tail(jobq) \in Seq(Testers \X Steps)
<1> DEFINE u == Head(jobq)[1]
<1>0. jobq \in Seq(Testers \X Steps) /\ QueuedOnce /\ ServedOnce /\ ProgramsAreGood
  BY DEF TestInv, TestTypes
<1>1. /\ Len(jobq) \in Nat /\ Len(jobq) >= 1 /\ DOMAIN jobq = 1 .. Len(jobq)
  BY <1>0, LenProperties, EmptySeq
<1>2. Head(jobq) = jobq[1] /\ 1 \in DOMAIN jobq /\ jobq[1] \in Testers \X Steps
  BY <1>0, <1>1, ElementOfSeq
<1>3. /\ Tail(jobq) \in Seq(Testers \X Steps) /\ Len(Tail(jobq)) = Len(jobq) - 1
      /\ \A i \in 1 .. Len(jobq) - 1 : Tail(jobq)[i] = jobq[i + 1]
  BY <1>0, <1>1, HeadTailProperties
<1>4. DOMAIN Tail(jobq) = 1 .. Len(jobq) - 1
  BY <1>3, LenProperties
<1>5. u \in Testers /\ tpc[u] = "call" /\ todo[u] # <<>> /\ jobq[1][2] = todo[u][1] /\ todo[u][1].op \in Procs
  BY <1>0, <1>2 DEF QueuedOnce
<1>6. WellFormed(todo[u]) /\ todo[u][1] \in Steps
  BY <1>0, <1>5, SeqFacts DEF ProgramsAreGood, WellFormed
<1>7. \A t \in Threads : serves[t] # u
  <2>1. u # NoTester
    BY <1>5, NoTesterAssumption DEF Testers
  <2> QED BY <1>0, <1>2, <2>1 DEF ServedOnce, Serving
<1>8. \A i \in DOMAIN Tail(jobq) : /\ i + 1 \in DOMAIN jobq /\ Tail(jobq)[i] = jobq[i + 1]
                                   /\ Tail(jobq)[i][1] # u
  <2> SUFFICES ASSUME NEW i \in 1 .. Len(jobq) - 1
               PROVE  /\ i + 1 \in DOMAIN jobq /\ Tail(jobq)[i] = jobq[i + 1]
                      /\ Tail(jobq)[i][1] # u
    BY <1>4
  <2>1. i + 1 \in DOMAIN jobq /\ i + 1 # 1
    BY <1>1
  <2>2. jobq[i + 1][1] # jobq[1][1]
    BY <1>0, <1>2, <2>1 DEF QueuedOnce
  <2> QED BY <1>2, <1>3, <2>1, <2>2
<1> QED BY <1>2, <1>3, <1>5, <1>6, <1>7, <1>8

(* Every step is one of the lock server's, or leaves it alone.             *)
LEMMA ServerStep == ASSUME TestInv, [TestNext]_allvars PROVE [Next]_vars
<1>1. ASSUME NEW t \in Threads, serve(t) PROVE Next
  <2> DEFINE s == Head(jobq)[2]
  <2>1. jobq # <<>>
    BY <1>1 DEF serve
  <2>2. s \in Steps
    BY <2>1, FrontJob
  <2>3. s.clt \in Clients /\ s.lid \in LockIds
    BY <2>2 DEF Steps
  <2>4. acquire(t, s.clt, s.lid) \/ release(t, s.clt, s.lid) \/ stat(t, s.clt, s.lid)
    BY <1>1 DEF serve
  <2> HIDE DEF s
  <2> QED BY <2>3, <2>4 DEF Next, Call
<1>2. ASSUME NEW t \in Threads, reply(t) PROVE Next
  BY <1>2 DEF reply, Next
<1>3. ASSUME NEW t \in Threads, acquire_resume(t) \/ spurious_wakeup(t) PROVE Next
  BY <1>3 DEF Next
<1> QED BY <1>1, <1>2, <1>3 DEF TestNext, allvars

(* Thread u has taken a step.                                              *)
LEMMA StepTaken ==
    ASSUME TestInv, NEW u \in Testers, todo[u] # <<>>, todo' = [todo EXCEPT ![u] = Tail(@)], test' = test
    PROVE  /\ ProgramsAreGood' /\ todo' \in [Testers -> Seq(Steps)]
           /\ todo'[u] = Tail(todo[u]) /\ \A v \in Testers : v # u => todo'[v] = todo[v]
           /\ todo'[u] # <<>> => todo'[u][1].clt = todo[u][1].clt
<1>0. ProgramsAreGood /\ todo \in [Testers -> Seq(Steps)]
  BY DEF TestInv, TestTypes
<1>1. todo'[u] = Tail(todo[u]) /\ \A v \in Testers : v # u => todo'[v] = todo[v]
  BY <1>0
<1>2. WellFormed(todo[u]) /\ todo[u] \in Seq(Steps)
  BY <1>0 DEF ProgramsAreGood, WellFormed
<1>3. WellFormed(Tail(todo[u])) /\ (Tail(todo[u]) # <<>> => Tail(todo[u])[1].clt = todo[u][1].clt)
  BY <1>2, WellFormedTail
<1>4. Tail(todo[u]) \in Seq(Steps)
  BY <1>2, SeqFacts
<1>5. test # 1 => Nested(Tail(todo[u]))
  BY <1>0, <1>2, NestedTail DEF ProgramsAreGood
<1>6. ASSUME test = 1 PROVE u \in {0, Demo}
  BY <1>0, <1>6 DEF ProgramsAreGood
<1>7. ASSUME u = Demo PROVE \A i \in DOMAIN Tail(todo[u]) : Tail(todo[u])[i].op = "stat"
  <2>1. \A i \in DOMAIN Tail(todo[u]) : i + 1 \in DOMAIN todo[u] /\ Tail(todo[u])[i] = todo[u][i + 1]
    BY <1>2, SeqFacts
  <2> QED BY <1>0, <1>7, <2>1 DEF ProgramsAreGood
<1>8. Demo \in Testers
  BY ntAssumption DEF Demo, Testers
<1>9. ProgramsAreGood'
  <2>1. \A v \in Testers : WellFormed(todo'[v])
    BY <1>0, <1>1, <1>3 DEF ProgramsAreGood
  <2>2. test # 1 => \A v \in Testers : Nested(todo'[v])
    BY <1>0, <1>1, <1>5 DEF ProgramsAreGood
  <2>3. test = 1 => \A v \in Testers \ {0, Demo} : todo'[v] = <<>>
    BY <1>0, <1>1, <1>6 DEF ProgramsAreGood
  <2>4. \A i \in DOMAIN todo'[Demo] : todo'[Demo][i].op = "stat"
    <3>1. CASE u = Demo
      BY <1>1, <1>7, <3>1
    <3>2. CASE u # Demo
      BY <1>0, <1>1, <1>8, <3>2 DEF ProgramsAreGood
    <3> QED BY <3>1, <3>2
  <2> QED BY <2>1, <2>2, <2>3, <2>4 DEF ProgramsAreGood
<1>10. todo' \in [Testers -> Seq(Steps)]
  BY <1>0, <1>4
<1> QED BY <1>1, <1>3, <1>9, <1>10

(* A thread that has no call has no handler.                               *)
LEMMA RunningIsUnserved ==
    ASSUME TestInv, NEW u \in Testers, tpc[u] = "run"
    PROVE  /\ ~Served(u) /\ \A t \in Threads : serves[t] # u
           /\ \A i \in DOMAIN jobq : jobq[i][1] # u
<1>1. u # NoTester
  BY NoTesterAssumption DEF Testers
<1> QED BY <1>1 DEF TestInv, ServedOnce, Serving, QueuedOnce, Served

(* Who is counted in test 2 and later has the lock.                        *)
LEMMA CountedOwns ==
    ASSUME TestInv, test # 1, NEW u \in Testers, NEW l \in LockIds, Counted(u, l)
    PROVE  Owns(u, l)
<1>0. ProgramsAreGood /\ ServedOnce
  BY DEF TestInv
<1>1. todo[u] # <<>>
  BY AfterEmpty DEF Counted, Counts
<1>2. WellFormed(todo[u]) /\ Nested(todo[u]) /\ todo[u] \in Seq(Steps)
  BY <1>0 DEF ProgramsAreGood, WellFormed
<1>3. 0 \in 0 .. Len(todo[u]) /\ 1 \in 0 .. Len(todo[u])
  BY <1>1, <1>2, SeqFacts
<1>4. CASE Served(u)
  <2>1. todo[u][1].op \in Procs
    <3>1. u # NoTester
      BY NoTesterAssumption DEF Testers
    <3> QED BY <1>0, <1>4, <3>1 DEF Served, ServedOnce, Serving
  <2>2. todo[u][1].op # "check_grant" /\ todo[u][1].op # "check_release"
    BY <2>1 DEF Procs
  <2>3. Counts(todo[u], 1, l)
    BY <1>1, <1>2, <2>2, StepEffect DEF Counted
  <2> QED BY <1>2, <1>3, <1>4, <2>3 DEF Nested, Owns
<1>5. CASE ~Served(u)
  BY <1>2, <1>3, <1>5 DEF Nested, Owns, Counted
<1> QED BY <1>4, <1>5

(* Two threads are never both counted.                                     *)
LEMMA CountedAlone ==
    ASSUME TestInv, NEW u \in Testers, NEW v \in Testers, NEW l \in LockIds, Counted(u, l), Counted(v, l)
    PROVE  u = v
<1>0. ProgramsAreGood /\ OwnersHold
  BY DEF TestInv
<1>1. CASE test = 1
  <2>1. todo[u] # <<>> /\ todo[v] # <<>>
    BY AfterEmpty DEF Counted, Counts
  <2>2. ~Counted(Demo, l)
    BY <1>0, StatsAreGood DEF ProgramsAreGood, Fresh, Counted
  <2> QED BY <1>0, <1>1, <2>1, <2>2 DEF ProgramsAreGood
<1>2. CASE test # 1
  BY <1>0, <1>2, CountedOwns DEF OwnersHold
<1> QED BY <1>1, <1>2
-----------------------------------------------------------------------------
(* The steps of the testers.                                               *)

(* No one gets a lock, and the lock server's records stay.                 *)
LEMMA OwnersStay ==
    ASSUME OwnersHold, lh' = lh, locks \subseteq locks',
           \A u \in Testers : \A l \in LockIds :
              Owns(u, l)' => Owns(u, l) /\ todo'[u][1].clt = todo[u][1].clt
    PROVE  OwnersHold'
  BY DEF OwnersHold

(* A request that is being served goes on being served.                    *)
LEMMA ServingStays ==
    ASSUME NEW k, NEW v, Serving(k, v), tpc'[v] = tpc[v], todo'[v] = todo[v],
           pc'[k] = pc[k] \/ (pc[k] = "waiting" /\ pc'[k] = "woken"),
           clt'[k] = clt[k], lid'[k] = lid[k], ret'[k] = ret[k], locks \subseteq locks',
           \A i \in DOMAIN jobq' : jobq'[i][1] # v
    PROVE  Serving(k, v)'
  BY DEF Serving

LEMMA CallKeeps ==
    ASSUME TestInv, IInv', NEW u \in Testers, call(u), UNCHANGED vars PROVE TestInv'
<1>0. /\ TestTypes /\ ProgramsAreGood /\ QueuedOnce /\ ServedOnce /\ OwnersHold
      /\ CountIsRight /\ ChecksHold
  BY DEF TestInv
<1>1. /\ tpc[u] = "run" /\ todo[u] # <<>> /\ Head(todo[u]).op \in Procs
      /\ tpc' = [tpc EXCEPT ![u] = "call"] /\ jobq' = Append(jobq, <<u, Head(todo[u])>>)
      /\ UNCHANGED <<test, todo, ct, serves, locks, lh, pc, clt, lid, ret>>
  BY DEF call, AtStep, vars
<1>2. Head(todo[u]) = todo[u][1] /\ todo[u][1] \in Steps
  BY <1>0, <1>1, SeqFacts DEF TestTypes
<1>3. jobq \in Seq(Testers \X Steps) /\ <<u, todo[u][1]>> \in Testers \X Steps
  BY <1>0, <1>2 DEF TestTypes
<1>4. /\ jobq' \in Seq(Testers \X Steps) /\ Len(jobq') = Len(jobq) + 1 /\ Len(jobq) \in Nat
      /\ DOMAIN jobq = 1 .. Len(jobq) /\ DOMAIN jobq' = 1 .. Len(jobq) + 1
      /\ \A i \in 1 .. Len(jobq) : jobq'[i] = jobq[i]
      /\ jobq'[Len(jobq) + 1] = <<u, todo[u][1]>>
  <2>1. jobq' = Append(jobq, <<u, todo[u][1]>>)
    BY <1>1, <1>2
  <2>2. jobq' \in Seq(Testers \X Steps) /\ Len(jobq') = Len(jobq) + 1
    BY <1>3, <2>1, AppendProperties
  <2>3. /\ \A i \in 1 .. Len(jobq) : jobq'[i] = jobq[i]
        /\ jobq'[Len(jobq) + 1] = <<u, todo[u][1]>>
    BY <1>3, <2>1, AppendProperties
  <2>4. Len(jobq) \in Nat /\ DOMAIN jobq = 1 .. Len(jobq) /\ DOMAIN jobq' = 1 .. Len(jobq')
    BY <1>3, <2>2, LenProperties
  <2> QED BY <2>2, <2>3, <2>4
<1>5. \A i \in DOMAIN jobq' : \/ i \in DOMAIN jobq /\ jobq'[i] = jobq[i]
                              \/ i = Len(jobq) + 1 /\ jobq'[i] = <<u, todo[u][1]>>
  BY <1>4
<1>6. tpc'[u] = "call" /\ \A v \in Testers : v # u => tpc'[v] = tpc[v]
  BY <1>0, <1>1 DEF TestTypes
<1>7. (\A i \in DOMAIN jobq : jobq[i][1] # u /\ jobq[i][1] \in Testers) /\ \A t \in Threads : serves[t] # u
  BY <1>0, <1>1, <1>3, RunningIsUnserved, ElementOfSeq, <1>4
<1>8. TestTypes'
  BY <1>0, <1>1, <1>4 DEF TestTypes
<1>9. ProgramsAreGood' /\ CountIsRight'
  BY <1>0, <1>1 DEF ProgramsAreGood, CountIsRight, Counted
<1>10. QueuedOnce'
  <2>1. ASSUME NEW i \in DOMAIN jobq'
        PROVE  LET v == jobq'[i][1]
               IN  tpc'[v] = "call" /\ todo[v] # <<>> /\ jobq'[i][2] = todo[v][1] /\ todo[v][1].op \in Procs
    <3>1. CASE i \in DOMAIN jobq /\ jobq'[i] = jobq[i]
      BY <1>0, <1>6, <1>7, <3>1 DEF QueuedOnce
    <3>2. CASE jobq'[i] = <<u, todo[u][1]>>
      BY <1>1, <1>2, <1>6, <3>2
    <3> QED BY <1>5, <3>1, <3>2
  <2>2. \A i, j \in DOMAIN jobq' : jobq'[i][1] = jobq'[j][1] => i = j
    BY <1>0, <1>5, <1>7 DEF QueuedOnce
  <2> QED BY <1>1, <2>1, <2>2 DEF QueuedOnce
<1>11. ServedOnce'
  <2>1. ASSUME NEW t \in Threads, serves[t] # NoTester
        PROVE  tpc'[serves[t]] = "call" /\ \A i \in DOMAIN jobq' : jobq'[i][1] # serves[t]
    <3>1. serves[t] \in Testers
      BY <1>0, <2>1 DEF TestTypes
    <3> QED BY <1>0, <1>5, <1>6, <1>7, <2>1, <3>1 DEF ServedOnce, Serving
  <2> QED BY <1>0, <1>1, <2>1 DEF ServedOnce, Serving
<1>12. OwnersHold'
  BY <1>0, <1>1, OwnersStay DEF Owns, Served
<1>13. ChecksHold'
  BY <1>0, <1>6 DEF ChecksHold
<1> QED BY <1>8, <1>9, <1>10, <1>11, <1>12, <1>13 DEF TestInv

(* A thread passes its check: the count was what it expects.               *)
LEMMA CheckPasses ==
    ASSUME TestInv, IInv', NEW u \in Testers, tpc[u] = "run", todo[u] # <<>>,
           todo[u][1].op \in {"check_grant", "check_release"},
           todo' = [todo EXCEPT ![u] = Tail(@)], CountIsRight', ct' \in [LockIds -> Int],
           UNCHANGED <<vars, tpc, test, jobq, serves>>
    PROVE  TestInv'
<1>0. /\ TestTypes /\ ProgramsAreGood /\ QueuedOnce /\ ServedOnce /\ OwnersHold /\ ChecksHold
  BY DEF TestInv
<1>1. UNCHANGED <<locks, lh, pc, clt, lid, ret>>
  BY DEF vars
<1>2. /\ ProgramsAreGood' /\ todo' \in [Testers -> Seq(Steps)]
      /\ todo'[u] = Tail(todo[u]) /\ \A v \in Testers : v # u => todo'[v] = todo[v]
      /\ todo'[u] # <<>> => todo'[u][1].clt = todo[u][1].clt
  BY StepTaken
<1>3. /\ ~Served(u) /\ \A t \in Threads : serves[t] # u
      /\ \A i \in DOMAIN jobq : jobq[i][1] # u
  BY RunningIsUnserved
<1>4. \A i \in DOMAIN jobq : jobq[i][1] \in Testers
  BY <1>0, ElementOfSeq, LenProperties DEF TestTypes
<1>5. QueuedOnce'
  BY <1>0, <1>2, <1>3, <1>4 DEF QueuedOnce
<1>6. ServedOnce'
  <2>1. \A t \in Threads : serves[t] # NoTester => serves[t] \in Testers /\ todo'[serves[t]] = todo[serves[t]]
    BY <1>0, <1>2, <1>3 DEF TestTypes
  <2> QED BY <1>0, <1>1, <2>1 DEF ServedOnce, Serving
<1>7. OwnersHold'
  <2>1. \A v \in Testers : Served(v)' <=> Served(v)
    BY <1>1 DEF Served
  <2>2. ASSUME NEW v \in Testers, NEW l \in LockIds, Owns(v, l)'
        PROVE  Owns(v, l) /\ todo'[v][1].clt = todo[v][1].clt
    <3>1. CASE v # u
      BY <1>2, <2>1, <2>2, <3>1 DEF Owns
    <3>2. CASE v = u
      <4>1. Owes(Tail(todo[u]), 0, l)
        BY <1>2, <1>3, <2>1, <2>2, <3>2 DEF Owns
      <4>2. WellFormed(todo[u]) /\ todo[u][1].op \notin {"acquire", "release"}
        BY <1>0 DEF ProgramsAreGood
      <4>3. Owes(todo[u], 0, l)
        BY <4>1, <4>2, StepEffect
      <4>4. Tail(todo[u]) # <<>>
        BY <4>1, AfterEmpty DEF Owes
      <4> QED BY <1>2, <1>3, <3>2, <4>3, <4>4 DEF Owns
    <3> QED BY <3>1, <3>2
  <2> QED BY <1>0, <1>1, <2>2, OwnersStay
<1>8. TestTypes' /\ ChecksHold'
  BY <1>0, <1>2 DEF TestTypes, ChecksHold
<1> QED BY <1>2, <1>5, <1>6, <1>7, <1>8 DEF TestInv

LEMMA CheckGrantKeeps ==
    ASSUME TestInv, IInv', NEW u \in Testers, check_grant(u), UNCHANGED vars PROVE TestInv'
<1> DEFINE s == todo[u]
           z == s[1].lid
<1>0. /\ TestTypes /\ ProgramsAreGood /\ OwnersHold /\ CountIsRight
  BY DEF TestInv
<1>1. tpc[u] = "run" /\ s # <<>> /\ Head(s).op = "check_grant" /\ Check(u, 0, 1)
  BY DEF check_grant, AtStep
<1>2. WellFormed(s) /\ Head(s) = s[1] /\ s[1] \in Steps /\ z \in LockIds /\ s \in Seq(Steps)
  <2>1. WellFormed(s) /\ s \in Seq(Steps)
    BY <1>0 DEF ProgramsAreGood, WellFormed
  <2>2. Head(s) = s[1] /\ s[1] \in Steps
    BY <1>1, <2>1, SeqFacts
  <2> QED BY <2>1, <2>2 DEF Steps
<1>3. /\ ~Counts(s, 0, z) /\ Counts(s, 1, z)
      /\ \A l : l # z => (Counts(s, 0, l) <=> Counts(s, 1, l))
      /\ \A l : Counts(Tail(s), 0, l) <=> Counts(s, 1, l)
      /\ \A l : Owes(s, 0, l) <=> Owes(s, 1, l)
  BY <1>1, <1>2, StepEffect
<1>4. ~Served(u)
  BY <1>1, RunningIsUnserved
<1>5. ASSUME NEW v \in Testers, Counted(v, z) PROVE FALSE
  <2>1. v # u
    BY <1>3, <1>5 DEF Counted
  <2>2. CASE test = 1
    <3>1. todo[v] # <<>>
      BY <1>5, AfterEmpty DEF Counted, Counts
    <3>2. ~Counted(Demo, z) /\ ~Counts(todo[Demo], 1, z)
      BY <1>0 DEF ProgramsAreGood, Counted, Counts, After
    <3> QED BY <1>0, <1>1, <1>3, <1>5, <2>1, <2>2, <3>1, <3>2 DEF ProgramsAreGood
  <2>3. CASE test # 1
    <3>1. Owns(v, z)
      BY <1>2, <1>5, <2>3, CountedOwns
    <3>2. 1 \in 0 .. Len(s)
      BY <1>1, <1>2, SeqFacts
    <3>3. Owes(s, 1, z)
      BY <1>0, <1>2, <1>3, <2>3, <3>2 DEF ProgramsAreGood, Nested
    <3>4. Owns(u, z)
      BY <1>3, <1>4, <3>3 DEF Owns
    <3> QED BY <1>0, <1>2, <2>1, <3>1, <3>4 DEF OwnersHold
  <2> QED BY <2>2, <2>3
<1>6. ct[z] = 0
  BY <1>0, <1>2, <1>5 DEF CountIsRight
<1>7. /\ ct' = [ct EXCEPT ![z] = @ + 1] /\ todo' = [todo EXCEPT ![u] = Tail(@)]
      /\ UNCHANGED <<tpc, test, jobq, serves>>
  BY <1>1, <1>2, <1>6 DEF Check
<1>8. ct'[z] = 1 /\ \A l \in LockIds : l # z => ct'[l] = ct[l]
  BY <1>0, <1>2, <1>6, <1>7 DEF TestTypes
<1>9. todo'[u] = Tail(s) /\ \A v \in Testers : v # u => todo'[v] = todo[v]
  BY <1>1, <1>7, StepTaken
<1> HIDE DEF s, z
<1>10. CountIsRight'
  <2>1. ASSUME NEW l \in LockIds PROVE ct'[l] = IF \E v \in Testers : Counted(v, l)' THEN 1 ELSE 0
    <3>1. CASE l = z
      <4>1. Counted(u, l)'
        BY <1>3, <1>9, <3>1 DEF Counted, s
      <4> QED BY <1>8, <3>1, <4>1
    <3>2. CASE l # z
      <4>1. \A v \in Testers : Counted(v, l)' <=> Counted(v, l)
        BY <1>3, <1>9, <3>2 DEF Counted, s
      <4> QED BY <1>0, <1>8, <3>2, <4>1 DEF CountIsRight
    <3> QED BY <3>1, <3>2
  <2> QED BY <2>1 DEF CountIsRight
<1>11. ct' \in [LockIds -> Int]
  BY <1>0, <1>2, <1>6, <1>7 DEF TestTypes
<1> QED BY <1>1, <1>2, <1>7, <1>10, <1>11, CheckPasses DEF s

LEMMA CheckReleaseKeeps ==
    ASSUME TestInv, IInv', NEW u \in Testers, check_release(u), UNCHANGED vars PROVE TestInv'
<1> DEFINE s == todo[u]
           z == s[1].lid
<1>0. /\ TestTypes /\ ProgramsAreGood /\ CountIsRight
  BY DEF TestInv
<1>1. tpc[u] = "run" /\ s # <<>> /\ Head(s).op = "check_release" /\ Check(u, 1, -1)
  BY DEF check_release, AtStep
<1>2. WellFormed(s) /\ Head(s) = s[1] /\ s[1] \in Steps /\ z \in LockIds
  <2>1. WellFormed(s) /\ s \in Seq(Steps)
    BY <1>0 DEF ProgramsAreGood, WellFormed
  <2>2. Head(s) = s[1] /\ s[1] \in Steps
    BY <1>1, <2>1, SeqFacts
  <2> QED BY <2>1, <2>2 DEF Steps
<1>3. /\ Counts(s, 0, z) /\ ~Counts(s, 1, z)
      /\ \A l : l # z => (Counts(s, 0, l) <=> Counts(s, 1, l))
      /\ \A l : Counts(Tail(s), 0, l) <=> Counts(s, 1, l)
  BY <1>1, <1>2, StepEffect
<1>4. Counted(u, z) /\ \A v \in Testers : Counted(v, z) => v = u
  BY <1>2, <1>3, CountedAlone DEF Counted
<1>5. ct[z] = 1
  BY <1>0, <1>2, <1>4 DEF CountIsRight
<1>6. /\ ct' = [ct EXCEPT ![z] = @ + -1] /\ todo' = [todo EXCEPT ![u] = Tail(@)]
      /\ UNCHANGED <<tpc, test, jobq, serves>>
  BY <1>1, <1>2, <1>5 DEF Check
<1>7. ct'[z] = 0 /\ \A l \in LockIds : l # z => ct'[l] = ct[l]
  BY <1>0, <1>2, <1>5, <1>6 DEF TestTypes
<1>8. todo'[u] = Tail(s) /\ \A v \in Testers : v # u => todo'[v] = todo[v]
  BY <1>1, <1>6, StepTaken
<1> HIDE DEF s, z
<1>9. CountIsRight'
  <2>1. ASSUME NEW l \in LockIds PROVE ct'[l] = IF \E v \in Testers : Counted(v, l)' THEN 1 ELSE 0
    <3>1. CASE l = z
      <4>1. \A v \in Testers : ~Counted(v, l)'
        BY <1>3, <1>4, <1>8, <3>1 DEF Counted, s
      <4> QED BY <1>7, <3>1, <4>1
    <3>2. CASE l # z
      <4>1. \A v \in Testers : Counted(v, l)' <=> Counted(v, l)
        BY <1>3, <1>8, <3>2 DEF Counted, s
      <4> QED BY <1>0, <1>7, <3>2, <4>1 DEF CountIsRight
    <3> QED BY <3>1, <3>2
  <2> QED BY <2>1 DEF CountIsRight
<1>10. ct' \in [LockIds -> Int]
  BY <1>0, <1>2, <1>5, <1>6 DEF TestTypes
<1> QED BY <1>1, <1>2, <1>6, <1>9, <1>10, CheckPasses DEF s

(* The threads of the last test have been joined: nobody is in the middle  *)
(* of anything but the demo's thread.                                      *)
LEMMA NextTestKeeps ==
    ASSUME TestInv, IInv', next_test, UNCHANGED vars PROVE TestInv'
<1>0. /\ TestTypes /\ ProgramsAreGood /\ QueuedOnce /\ ServedOnce /\ OwnersHold
      /\ CountIsRight /\ ChecksHold
  BY DEF TestInv
<1>1. /\ test < 6 /\ (\A u \in Testers \ {Demo} : todo[u] = <<>>) /\ test' = test + 1
      /\ todo' = Programs(test + 1, todo[Demo])
      /\ UNCHANGED <<tpc, ct, jobq, serves, locks, lh, pc, clt, lid, ret>>
  BY DEF next_test, vars
<1>2. test + 1 \in 1 .. 6 /\ test + 1 # 1
  BY <1>0, <1>1 DEF TestTypes
<1>3. Demo \in Testers /\ NoTester \notin Testers
  BY ntAssumption, NoTesterAssumption DEF Demo, Testers
<1>4. todo'[Demo] = todo[Demo] /\ \A u \in Testers \ {Demo} : todo'[u] = Program(test + 1, u)
  BY <1>1, <1>3 DEF Programs
<1>5. \A u \in Testers \ {Demo} : WellFormed(todo'[u]) /\ Fresh(todo'[u]) /\ Nested(todo'[u])
  BY <1>2, <1>4, ProgramIsGood
<1>6. /\ WellFormed(todo[Demo]) /\ Nested(todo[Demo]) /\ Fresh(todo[Demo])
      /\ \A i \in DOMAIN todo[Demo] : todo[Demo][i].op = "stat"
  BY <1>0, <1>3, StatsAreGood DEF ProgramsAreGood
<1>7. \A u \in Testers : WellFormed(todo'[u]) /\ Nested(todo'[u]) /\ Fresh(todo'[u])
  BY <1>4, <1>5, <1>6
<1>8. ProgramsAreGood'
  BY <1>1, <1>2, <1>4, <1>6, <1>7 DEF ProgramsAreGood
<1>9. TestTypes'
  <2>1. todo' \in [Testers -> Seq(Steps)]
    <3>1. \A u \in Testers : todo'[u] \in Seq(Steps)
      BY <1>7 DEF WellFormed
    <3> QED BY <1>1, <3>1 DEF Programs
  <2> QED BY <1>0, <1>1, <1>2, <2>1 DEF TestTypes
<1>10. QueuedOnce'
  <2>1. \A i \in DOMAIN jobq : jobq[i][1] \in Testers
    BY <1>0, ElementOfSeq, LenProperties DEF TestTypes
  <2>2. \A i \in DOMAIN jobq : jobq[i][1] = Demo
    BY <1>0, <1>1, <2>1 DEF QueuedOnce
  <2> QED BY <1>0, <1>1, <1>4, <2>2 DEF QueuedOnce
<1>11. \A t \in Threads : serves[t] # NoTester => serves[t] = Demo
  BY <1>0, <1>1 DEF ServedOnce, Serving, TestTypes
<1>12. ServedOnce'
  BY <1>0, <1>1, <1>4, <1>11 DEF ServedOnce, Serving
<1>13. \A u \in Testers \ {Demo} : ~Served(u)'
  BY <1>1, <1>3, <1>11 DEF Served
<1>14. ASSUME NEW u \in Testers, NEW l \in LockIds PROVE ~Owns(u, l)'
  <2>1. CASE u = Demo
    BY <1>4, <1>6, <2>1 DEF Owns, Owes, After
  <2>2. CASE u # Demo
    BY <1>7, <1>13, <2>2 DEF Owns, Fresh
  <2> QED BY <2>1, <2>2
<1>15. OwnersHold'
  BY <1>14 DEF OwnersHold
<1>16. CountIsRight'
  <2>1. \A l \in LockIds : \A u \in Testers : ~Counted(u, l)'
    BY <1>7 DEF Fresh, Counted
  <2>2. \A l \in LockIds : \A u \in Testers : ~Counted(u, l)
    <3>1. \A l \in LockIds : ~Counted(Demo, l)
      BY <1>6 DEF Fresh, Counted
    <3>2. \A u \in Testers \ {Demo} : \A l \in LockIds : ~Counted(u, l)
      BY <1>1, AfterEmpty DEF Counted, Counts
    <3> QED BY <3>1, <3>2
  <2> QED BY <1>0, <1>1, <2>1, <2>2 DEF CountIsRight
<1>17. ChecksHold'
  BY <1>0, <1>1 DEF ChecksHold
<1> QED BY <1>8, <1>9, <1>10, <1>12, <1>15, <1>16, <1>17 DEF TestInv
-----------------------------------------------------------------------------
(* The steps of the dispatch threads.                                      *)

(* The thread gets its reply: it stays the owner of what it owned when the *)
(* handler returned.                                                       *)
LEMMA ReplyKeeps ==
    ASSUME TestInv, IInv', NEW t \in Threads, reply(t) PROVE TestInv'
<1>0. /\ TestTypes /\ ProgramsAreGood /\ QueuedOnce /\ ServedOnce /\ OwnersHold
      /\ CountIsRight /\ ChecksHold /\ TypeOK
  BY DEF TestInv, IInv
<1>1. PICK u \in Testers : serves[t] = u
  BY <1>0 DEF reply, TestTypes
<1>2. NoTester \notin Testers
  BY NoTesterAssumption DEF Testers
<1>3. /\ pc[t] = "returned" /\ pc' = [pc EXCEPT ![t] = "idle"]
      /\ clt' = [clt EXCEPT ![t] = NoClt] /\ lid' = [lid EXCEPT ![t] = NoLid]
      /\ ret' = [ret EXCEPT ![t] = "none"] /\ UNCHANGED <<locks, lh>>
      /\ tpc' = [tpc EXCEPT ![u] = IF ret[t] = "OK" THEN "run" ELSE "failed"]
      /\ todo' = [todo EXCEPT ![u] = Tail(@)] /\ serves' = [serves EXCEPT ![t] = NoTester]
      /\ UNCHANGED <<test, ct, jobq>>
  BY <1>1 DEF reply, finish
<1>4. /\ tpc[u] = "call" /\ todo[u] # <<>> /\ todo[u][1].op \in Procs /\ ret[t] = "OK"
      /\ \A i \in DOMAIN jobq : jobq[i][1] # u
      /\ \A k \in Threads : serves[k] = u => k = t
  BY <1>0, <1>1, <1>2, <1>3 DEF ServedOnce, Serving
<1>5. /\ ProgramsAreGood' /\ todo' \in [Testers -> Seq(Steps)]
      /\ todo'[u] = Tail(todo[u]) /\ \A v \in Testers : v # u => todo'[v] = todo[v]
      /\ todo'[u] # <<>> => todo'[u][1].clt = todo[u][1].clt
  BY <1>3, <1>4, StepTaken
<1>6. tpc'[u] = "run" /\ \A v \in Testers : v # u => tpc'[v] = tpc[v]
  BY <1>0, <1>3, <1>4 DEF TestTypes
<1>7. /\ serves'[t] = NoTester /\ pc'[t] = "idle"
      /\ \A k \in Threads : k # t => /\ serves'[k] = serves[k] /\ pc'[k] = pc[k] /\ clt'[k] = clt[k]
                                     /\ lid'[k] = lid[k] /\ ret'[k] = ret[k]
  BY <1>0, <1>3 DEF TestTypes, TypeOK
<1>8. TestTypes'
  BY <1>0, <1>3, <1>5 DEF TestTypes
<1>9. QueuedOnce'
  <2>1. \A i \in DOMAIN jobq : jobq[i][1] \in Testers
    BY <1>0, ElementOfSeq, LenProperties DEF TestTypes
  <2> QED BY <1>0, <1>3, <1>4, <1>5, <1>6, <2>1 DEF QueuedOnce
<1>10. ServedOnce'
  <2>1. \A k \in Threads : k # t /\ serves[k] # NoTester
           => /\ serves[k] \in Testers /\ tpc'[serves[k]] = tpc[serves[k]]
              /\ todo'[serves[k]] = todo[serves[k]]
    BY <1>0, <1>4, <1>5, <1>6 DEF TestTypes
  <2>2. ASSUME NEW k \in Threads, serves'[k] = NoTester PROVE pc'[k] = "idle"
    BY <1>0, <1>7, <2>2 DEF ServedOnce, Serving
  <2>3. ASSUME NEW k \in Threads, serves'[k] # NoTester
        PROVE  k # t /\ serves'[k] = serves[k]
    BY <1>7, <2>3
  <2>4. \A j, k \in Threads : serves'[j] # NoTester /\ serves'[j] = serves'[k] => j = k
    BY <1>0, <2>3 DEF ServedOnce, Serving
  <2>5. ASSUME NEW k \in Threads, serves'[k] # NoTester
        PROVE  Serving(k, serves[k])' /\ serves'[k] # NoTester
    <3>1. k # t /\ serves'[k] = serves[k] /\ serves[k] # NoTester
      BY <2>3, <2>5
    <3>2. PICK v \in Testers : v = serves[k]
      BY <2>1, <3>1
    <3>3. Serving(k, v)
      BY <1>0, <3>1, <3>2 DEF ServedOnce
    <3>4. \A i \in DOMAIN jobq' : jobq'[i][1] # v
      BY <1>3, <3>3 DEF Serving
    <3>5. Serving(k, v)'
      BY <1>3, <1>7, <2>1, <3>1, <3>2, <3>3, <3>4, ServingStays
    <3> QED BY <2>5, <3>1, <3>2, <3>5
  <2> QED BY <2>2, <2>4, <2>5 DEF ServedOnce
<1>11. Served(u) /\ ~Served(u)' /\ \A v \in Testers : v # u => (Served(v)' <=> Served(v))
  BY <1>1, <1>2, <1>3, <1>4, <1>7 DEF Served
<1>12. WellFormed(todo[u])
  BY <1>0 DEF ProgramsAreGood
<1>13. OwnersHold'
  <2>1. ASSUME NEW v \in Testers, NEW l \in LockIds, Owns(v, l)'
        PROVE  Owns(v, l) /\ todo'[v][1].clt = todo[v][1].clt
    <3>1. CASE v # u
      BY <1>5, <1>11, <2>1, <3>1 DEF Owns
    <3>2. CASE v = u
      <4>1. Owes(Tail(todo[u]), 0, l)
        BY <1>5, <1>11, <2>1, <3>2 DEF Owns
      <4>2. Owes(todo[u], 1, l)
        BY <1>4, <1>12, <4>1, StepEffect
      <4>3. Tail(todo[u]) # <<>>
        BY <4>1, AfterEmpty DEF Owes
      <4> QED BY <1>5, <1>11, <3>2, <4>2, <4>3 DEF Owns
    <3> QED BY <3>1, <3>2
  <2> QED BY <1>0, <1>3, <2>1, OwnersStay
<1>14. CountIsRight'
  <2>1. todo[u][1].op \notin {"check_grant", "check_release"}
    BY <1>4 DEF Procs
  <2>2. \A l \in LockIds : Counts(Tail(todo[u]), 0, l) <=> Counts(todo[u], 0, l)
    BY <1>4, <1>12, <2>1, StepEffect
  <2>3. \A v \in Testers : \A l \in LockIds : Counted(v, l)' <=> Counted(v, l)
    BY <1>5, <2>2 DEF Counted
  <2> QED BY <1>0, <1>3, <2>3 DEF CountIsRight
<1>15. ChecksHold'
  BY <1>0, <1>6 DEF ChecksHold
<1> QED BY <1>5, <1>8, <1>9, <1>10, <1>13, <1>14, <1>15 DEF TestInv

(* Dispatch thread t takes thread u's request and enters its handler.      *)
Takes(t, u) ==
    /\ u = Head(jobq)[1] /\ jobq # <<>> /\ serves[t] = NoTester
    /\ serves' = [serves EXCEPT ![t] = u] /\ jobq' = Tail(jobq) /\ UNCHANGED <<test, todo, tpc, ct>>
    /\ locks \subseteq locks' /\ clt'[t] = todo[u][1].clt /\ lid'[t] = todo[u][1].lid
    /\ pc'[t] \in {"waiting", "returned"} /\ (pc'[t] = "waiting" => todo[u][1].op = "acquire")
    /\ pc'[t] = "returned" => ret'[t] = "OK"
    /\ todo[u][1].op = "acquire" => todo[u][1].lid \in locks'
    /\ \A k \in Threads : k # t => /\ pc'[k] = pc[k] \/ (pc[k] = "waiting" /\ pc'[k] = "woken")
                                   /\ clt'[k] = clt[k] /\ lid'[k] = lid[k] /\ ret'[k] = ret[k]

(* That keeps everything but, perhaps, the ownership of the locks.         *)
LEMMA RequestTaken ==
    ASSUME TestInv, NEW t \in Threads, NEW u, Takes(t, u)
    PROVE  /\ TestTypes' /\ ProgramsAreGood' /\ QueuedOnce' /\ ServedOnce' /\ CountIsRight' /\ ChecksHold'
           /\ u \in Testers /\ WellFormed(todo[u]) /\ todo[u] # <<>> /\ todo[u][1] \in Steps
           /\ ~Served(u) /\ (pc'[t] = "returned" => Served(u)') /\ (pc'[t] = "waiting" => ~Served(u)')
           /\ \A v \in Testers : v # u => (Served(v)' <=> Served(v))
<1> USE DEF Takes
<1>0. /\ TestTypes /\ ProgramsAreGood /\ QueuedOnce /\ ServedOnce /\ CountIsRight /\ ChecksHold
  BY DEF TestInv
<1>1. /\ u \in Testers /\ tpc[u] = "call" /\ todo[u] # <<>>
      /\ todo[u][1] \in Steps /\ todo[u][1].op \in Procs /\ WellFormed(todo[u])
      /\ \A k \in Threads : serves[k] # u
      /\ \A i \in DOMAIN jobq' : /\ i + 1 \in DOMAIN jobq /\ jobq'[i] = jobq[i + 1] /\ jobq'[i][1] # u
      /\ jobq' \in Seq(Testers \X Steps)
  BY FrontJob
<1>2. NoTester \notin Testers
  BY NoTesterAssumption DEF Testers
<1>3. serves'[t] = u /\ \A k \in Threads : k # t => serves'[k] = serves[k]
  BY <1>0 DEF TestTypes
<1>4. TestTypes' /\ ProgramsAreGood' /\ ChecksHold'
  <2>1. serves' \in [Threads -> Testers \cup {NoTester}]
    BY <1>0, <1>1 DEF TestTypes
  <2> QED BY <1>0, <1>1, <2>1 DEF TestTypes, ProgramsAreGood, ChecksHold
<1>5. CountIsRight'
  BY <1>0 DEF CountIsRight, Counted
<1>6. QueuedOnce'
  <2>1. \A i \in DOMAIN jobq' : i \in Nat
    <3>1. DOMAIN jobq' = 1 .. Len(jobq') /\ Len(jobq') \in Nat
      BY <1>1, LenProperties
    <3> QED BY <3>1
  <2>2. ASSUME NEW i \in DOMAIN jobq', NEW j \in DOMAIN jobq', jobq'[i][1] = jobq'[j][1] PROVE i = j
    <3>1. i + 1 = j + 1
      BY <1>0, <1>1, <2>2 DEF QueuedOnce
    <3> QED BY <2>1, <3>1
  <2>3. ASSUME NEW i \in DOMAIN jobq'
        PROVE  LET v == jobq'[i][1]
               IN  tpc[v] = "call" /\ todo[v] # <<>> /\ jobq'[i][2] = todo[v][1] /\ todo[v][1].op \in Procs
    BY <1>0, <1>1 DEF QueuedOnce
  <2> QED BY <2>2, <2>3 DEF QueuedOnce
<1>7. Serving(t, u)'
  BY <1>1 DEF Serving
<1>8. ASSUME NEW k \in Threads, k # t, serves[k] # NoTester PROVE Serving(k, serves[k])'
  <2>1. PICK v \in Testers : v = serves[k]
    BY <1>0, <1>8 DEF TestTypes
  <2>2. Serving(k, v)
    BY <1>0, <1>8, <2>1 DEF ServedOnce
  <2>3. \A i \in DOMAIN jobq' : jobq'[i][1] # v
    BY <1>1, <2>2 DEF Serving
  <2>4. Serving(k, v)'
    BY <1>8, <2>2, <2>3, ServingStays
  <2> QED BY <1>3, <1>8, <2>1, <2>4
<1>9. ServedOnce'
  <2>1. ASSUME NEW k \in Threads, serves'[k] = NoTester PROVE pc'[k] = "idle"
    <3>1. k # t /\ serves[k] = NoTester
      BY <1>1, <1>2, <1>3, <2>1
    <3> QED BY <1>0, <3>1 DEF ServedOnce
  <2>2. ASSUME NEW k \in Threads, serves'[k] # NoTester PROVE Serving(k, serves[k])'
    <3>1. CASE k = t
      BY <1>3, <1>7, <3>1
    <3>2. CASE k # t
      BY <1>3, <1>8, <2>2, <3>2
    <3> QED BY <3>1, <3>2
  <2>3. \A j, k \in Threads : serves'[j] # NoTester /\ serves'[j] = serves'[k] => j = k
    BY <1>0, <1>1, <1>3 DEF ServedOnce
  <2> QED BY <2>1, <2>2, <2>3 DEF ServedOnce
<1>10. /\ ~Served(u) /\ (pc'[t] = "returned" => Served(u)') /\ (pc'[t] = "waiting" => ~Served(u)')
       /\ \A v \in Testers : v # u => (Served(v)' <=> Served(v))
  <2>1. \A k \in Threads : serves'[k] = u => k = t
    BY <1>1, <1>3
  <2>2. ~Served(u) /\ (pc'[t] = "returned" => Served(u)') /\ (pc'[t] = "waiting" => ~Served(u)')
    BY <1>1, <1>3, <2>1 DEF Served
  <2>3. ASSUME NEW v \in Testers, v # u PROVE Served(v)' <=> Served(v)
    <3>1. serves[t] # v /\ serves'[t] # v
      BY <1>2, <1>3, <2>3
    <3> QED BY <1>3, <3>1 DEF Served
  <2> QED BY <2>2, <2>3
<1> QED BY <1>1, <1>4, <1>5, <1>6, <1>9, <1>10

(* A free lock has no owner, so who takes it is alone with it.             *)
LEMMA GrantKeepsOwners ==
    ASSUME TestInv, NEW u \in Testers, NEW z \in LockIds, lh[z].state = "FREE", z \in locks',
           locks \subseteq locks', lh' = [lh EXCEPT ![z] = [state |-> "LOCKED", clt |-> todo[u][1].clt]],
           todo' = todo, \A v \in Testers : v # u => (Served(v)' <=> Served(v)),
           \A l \in LockIds : Owns(u, l)' => l = z \/ Owns(u, l)
    PROVE  OwnersHold'
<1>0. OwnersHold /\ lh \in [LockIds -> [state : {"FREE", "LOCKED"}, clt : Clients \cup {NoClt}]]
  BY DEF TestInv, IInv, TypeOK
<1>1. \A v \in Testers : ~Owns(v, z)
  BY <1>0 DEF OwnersHold
<1>2. lh'[z].state = "LOCKED" /\ lh'[z].clt = todo[u][1].clt /\ \A l \in LockIds : l # z => lh'[l] = lh[l]
  BY <1>0
<1>3. \A v \in Testers : \A l \in LockIds : v # u /\ Owns(v, l)' => Owns(v, l)
  BY DEF Owns
<1>4. \A v \in Testers : \A l \in LockIds : Owns(v, l)' => (v = u /\ l = z) \/ (l # z /\ Owns(v, l))
  BY <1>1, <1>3
<1>5. ASSUME NEW l \in LockIds, NEW v \in Testers, Owns(v, l)'
      PROVE  l \in locks' /\ lh'[l].state = "LOCKED" /\ lh'[l].clt = todo'[v][1].clt
  <2>1. CASE v = u /\ l = z
    BY <1>2, <2>1
  <2>2. CASE l # z /\ Owns(v, l)
    BY <1>0, <1>2, <2>2 DEF OwnersHold
  <2> QED BY <1>4, <1>5, <2>1, <2>2
<1>6. ASSUME NEW l \in LockIds, NEW v \in Testers, NEW w \in Testers, Owns(v, l)', Owns(w, l)' PROVE v = w
  BY <1>0, <1>4, <1>6 DEF OwnersHold
<1> QED BY <1>5, <1>6 DEF OwnersHold

LEMMA ServeKeeps ==
    ASSUME TestInv, IInv', NEW t \in Threads, serve(t) PROVE TestInv'
<1>0. /\ OwnersHold /\ IInv /\ TypeOK
  BY DEF TestInv, IInv
<1>1. PICK u : u = Head(jobq)[1]
  OBVIOUS
<1>2. PICK s : s = todo[u][1]
  OBVIOUS
<1>3. /\ serves[t] = NoTester /\ jobq # <<>> /\ serves' = [serves EXCEPT ![t] = u]
      /\ jobq' = Tail(jobq) /\ UNCHANGED <<test, todo, tpc, ct>>
  BY <1>1 DEF serve
<1>4. Head(jobq)[2] = s /\ u \in Testers /\ s \in Steps /\ WellFormed(todo[u]) /\ todo[u] # <<>>
  BY <1>1, <1>2, <1>3, FrontJob
<1>5. s.lid \in LockIds
  BY <1>4 DEF Steps
<1>6. ASSUME pc' \in [Threads -> PCs], clt' = [clt EXCEPT ![t] = s.clt], lid' = [lid EXCEPT ![t] = s.lid],
             pc'[t] \in {"waiting", "returned"}, pc'[t] = "waiting" => s.op = "acquire",
             pc'[t] = "returned" => ret'[t] = "OK", locks \subseteq locks',
             s.op = "acquire" => s.lid \in locks',
             \A k \in Threads : k # t => /\ pc'[k] = pc[k] \/ (pc[k] = "waiting" /\ pc'[k] = "woken")
                                         /\ ret'[k] = ret[k]
      PROVE  /\ TestTypes' /\ ProgramsAreGood' /\ QueuedOnce' /\ ServedOnce' /\ CountIsRight' /\ ChecksHold'
             /\ ~Served(u) /\ (pc'[t] = "returned" => Served(u)') /\ (pc'[t] = "waiting" => ~Served(u)')
             /\ \A v \in Testers : v # u => (Served(v)' <=> Served(v))
  <2>1. clt'[t] = s.clt /\ lid'[t] = s.lid /\ \A k \in Threads : k # t => clt'[k] = clt[k] /\ lid'[k] = lid[k]
    BY <1>0, <1>6 DEF TypeOK
  <2>2. /\ pc'[t] = "waiting" => todo[u][1].op = "acquire"
        /\ todo[u][1].op = "acquire" => todo[u][1].lid \in locks'
        /\ clt'[t] = todo[u][1].clt /\ lid'[t] = todo[u][1].lid
    BY <1>2, <1>6, <2>1
  <2>3. \A k \in Threads : k # t => /\ pc'[k] = pc[k] \/ (pc[k] = "waiting" /\ pc'[k] = "woken")
                                    /\ clt'[k] = clt[k] /\ lid'[k] = lid[k] /\ ret'[k] = ret[k]
    BY <1>6, <2>1
  <2>4. Takes(t, u)
    BY <1>1, <1>3, <1>6, <2>2, <2>3 DEF Takes
  <2> QED BY <2>4, RequestTaken
<1>7. ASSUME s.op = "acquire", acquire(t, s.clt, s.lid) PROVE TestInv'
  <2>1. /\ clt' = [clt EXCEPT ![t] = s.clt] /\ lid' = [lid EXCEPT ![t] = s.lid]
        /\ locks' = locks \cup {s.lid} /\ WaitLoop(t, s.clt, s.lid)
    BY <1>7 DEF acquire, Called
  <2>2. CASE lh[s.lid].state = "FREE"
    <3>1. /\ lh' = [lh EXCEPT ![s.lid] = [state |-> "LOCKED", clt |-> s.clt]]
          /\ pc' = [pc EXCEPT ![t] = "returned"] /\ ret' = [ret EXCEPT ![t] = "OK"]
      BY <2>1, <2>2 DEF WaitLoop, TakeLock, Returns
    <3>2. /\ TestTypes' /\ ProgramsAreGood' /\ QueuedOnce' /\ ServedOnce' /\ CountIsRight' /\ ChecksHold'
          /\ ~Served(u) /\ Served(u)' /\ \A v \in Testers : v # u => (Served(v)' <=> Served(v))
      BY <1>0, <1>6, <1>7, <2>1, <3>1 DEF TypeOK, PCs
    <3>3. \A l \in LockIds : Owns(u, l)' => l = s.lid \/ Owns(u, l)
      BY <1>2, <1>3, <1>4, <3>2, StepEffect DEF Owns
    <3>4. OwnersHold'
      BY <1>2, <1>3, <1>4, <1>5, <2>1, <2>2, <3>1, <3>2, <3>3, GrantKeepsOwners
    <3> QED BY <3>2, <3>4 DEF TestInv
  <2>3. CASE lh[s.lid].state # "FREE"
    <3>1. pc' = [pc EXCEPT ![t] = "waiting"] /\ UNCHANGED <<lh, ret>>
      BY <2>1, <2>3 DEF WaitLoop
    <3>2. /\ TestTypes' /\ ProgramsAreGood' /\ QueuedOnce' /\ ServedOnce' /\ CountIsRight' /\ ChecksHold'
          /\ ~Served(u) /\ ~Served(u)' /\ \A v \in Testers : v # u => (Served(v)' <=> Served(v))
      BY <1>0, <1>6, <1>7, <2>1, <3>1 DEF TypeOK, PCs
    <3>3. \A v \in Testers : \A l \in LockIds : Owns(v, l)' => Owns(v, l)
      BY <1>3, <3>2 DEF Owns
    <3>4. OwnersHold'
      BY <1>0, <1>3, <2>1, <3>1, <3>3, OwnersStay
    <3> QED BY <3>2, <3>4 DEF TestInv
  <2> QED BY <2>2, <2>3
<1>8. ASSUME s.op = "stat", stat(t, s.clt, s.lid) PROVE TestInv'
  <2>1. /\ clt' = [clt EXCEPT ![t] = s.clt] /\ lid' = [lid EXCEPT ![t] = s.lid]
        /\ pc' = [pc EXCEPT ![t] = "returned"] /\ ret' = [ret EXCEPT ![t] = "OK"]
        /\ UNCHANGED <<locks, lh>>
    BY <1>8 DEF stat, Called, Returns
  <2>2. /\ TestTypes' /\ ProgramsAreGood' /\ QueuedOnce' /\ ServedOnce' /\ CountIsRight' /\ ChecksHold'
        /\ ~Served(u) /\ Served(u)' /\ \A v \in Testers : v # u => (Served(v)' <=> Served(v))
    BY <1>0, <1>6, <1>8, <2>1 DEF TypeOK, PCs
  <2>3. ASSUME NEW v \in Testers, NEW l \in LockIds, Owns(v, l)' PROVE Owns(v, l)
    <3>1. Owes(todo[u], 0, l) <=> Owes(todo[u], 1, l)
      BY <1>2, <1>4, <1>8, StepEffect
    <3> QED BY <1>3, <2>2, <2>3, <3>1 DEF Owns
  <2>4. OwnersHold'
    BY <1>0, <1>3, <2>1, <2>3, OwnersStay
  <2> QED BY <2>2, <2>4 DEF TestInv
<1>9. ASSUME s.op = "release", release(t, s.clt, s.lid) PROVE TestInv'
  <2> DEFINE z == s.lid
  <2>1. Owes(todo[u], 0, z) /\ ~Owes(todo[u], 1, z) /\ \A l : l # z => (Owes(todo[u], 0, l) <=> Owes(todo[u], 1, l))
    BY <1>2, <1>4, <1>9, StepEffect
  <2>2. ~Served(u)
    BY <1>1, <1>3, FrontJob DEF Served
  <2>3. Owns(u, z)
    BY <2>1, <2>2 DEF Owns
  <2>4. MayRelease(s.clt, z) /\ \A v \in Testers : Owns(v, z) => v = u
    BY <1>0, <1>2, <1>4, <1>5, <2>3 DEF OwnersHold, MayRelease
  <2>5. /\ clt' = [clt EXCEPT ![t] = s.clt] /\ lid' = [lid EXCEPT ![t] = s.lid] /\ locks' = locks
        /\ lh' = [lh EXCEPT ![z] = lock_handle] /\ ret' = [ret EXCEPT ![t] = "OK"]
        /\ \E q \in Signal(z) : pc' = [q EXCEPT ![t] = "returned"]
    BY <1>9, <2>4 DEF release, Called, Returns
  <2>6. PICK q \in Signal(z) : pc' = [q EXCEPT ![t] = "returned"]
    BY <2>5
  <2>7. q \in [Threads -> PCs] /\ \A k \in Threads : q[k] = pc[k] \/ (pc[k] = "waiting" /\ q[k] = "woken")
    BY <1>0, <2>6 DEF Signal, Waiters, TypeOK, PCs
  <2>8. /\ pc' \in [Threads -> PCs] /\ pc'[t] = "returned"
        /\ \A k \in Threads : k # t => pc'[k] = pc[k] \/ (pc[k] = "waiting" /\ pc'[k] = "woken")
    BY <2>6, <2>7 DEF PCs
  <2>9. ret'[t] = "OK" /\ \A k \in Threads : k # t => ret'[k] = ret[k]
    BY <1>0, <2>5 DEF TypeOK
  <2>10. /\ TestTypes' /\ ProgramsAreGood' /\ QueuedOnce' /\ ServedOnce' /\ CountIsRight' /\ ChecksHold'
         /\ Served(u)' /\ \A v \in Testers : v # u => (Served(v)' <=> Served(v))
    BY <1>6, <1>9, <2>5, <2>8, <2>9
  <2>11. \A l \in LockIds : l # z => lh'[l] = lh[l]
    BY <1>0, <2>5 DEF TypeOK
  <2>12. ASSUME NEW v \in Testers, NEW l \in LockIds, Owns(v, l)' PROVE l # z /\ Owns(v, l)
    <3>1. CASE v = u
      BY <1>3, <2>1, <2>2, <2>10, <2>12, <3>1 DEF Owns
    <3>2. CASE v # u
      BY <1>3, <2>4, <2>10, <2>12, <3>2 DEF Owns
    <3> QED BY <3>1, <3>2
  <2>13. OwnersHold'
    BY <1>0, <1>3, <2>5, <2>11, <2>12 DEF OwnersHold
  <2> QED BY <2>10, <2>13 DEF TestInv
<1> QED BY <1>4, <1>7, <1>8, <1>9 DEF serve

(* Dispatch thread t is in acquire for thread u and moves to x.            *)
Moves(t, u, x) ==
    /\ u = serves[t] /\ pc[t] \in {"waiting", "woken"} /\ x \in {"waiting", "woken", "returned"}
    /\ pc' = [pc EXCEPT ![t] = x] /\ (x = "returned" => ret'[t] = "OK")
    /\ \A k \in Threads : k # t => ret'[k] = ret[k]
    /\ UNCHANGED <<testvars, locks, clt, lid>>

LEMMA HandlerMoves ==
    ASSUME TestInv, NEW t \in Threads, NEW u, NEW x, Moves(t, u, x)
    PROVE  /\ TestTypes' /\ ProgramsAreGood' /\ QueuedOnce' /\ ServedOnce' /\ CountIsRight' /\ ChecksHold'
           /\ u \in Testers /\ Serving(t, u) /\ todo' = todo
           /\ ~Served(u) /\ (x = "returned" => Served(u)') /\ (x # "returned" => ~Served(u)')
           /\ \A v \in Testers : v # u => (Served(v)' <=> Served(v))
<1>0. /\ TestTypes /\ ProgramsAreGood /\ QueuedOnce /\ ServedOnce /\ CountIsRight /\ ChecksHold /\ TypeOK
  BY DEF TestInv, IInv
<1>1. /\ u = serves[t] /\ pc[t] \in {"waiting", "woken"} /\ x \in {"waiting", "woken", "returned"}
      /\ pc' = [pc EXCEPT ![t] = x] /\ (x = "returned" => ret'[t] = "OK")
      /\ \A k \in Threads : k # t => ret'[k] = ret[k]
      /\ UNCHANGED <<test, todo, tpc, ct, jobq, serves, locks, clt, lid>>
  BY DEF Moves, testvars
<1>2. u # NoTester
  BY <1>0, <1>1 DEF ServedOnce
<1>3. u \in Testers /\ Serving(t, u) /\ \A k \in Threads : serves[k] = u => k = t
  BY <1>0, <1>1, <1>2 DEF TestTypes, ServedOnce
<1>4. pc'[t] = x /\ \A k \in Threads : k # t => pc'[k] = pc[k]
  BY <1>0, <1>1 DEF TypeOK
<1>5. TestTypes' /\ ProgramsAreGood' /\ QueuedOnce' /\ CountIsRight' /\ ChecksHold'
  BY <1>0, <1>1 DEF TestTypes, ProgramsAreGood, QueuedOnce, CountIsRight, Counted, ChecksHold
<1>6. Serving(t, u)'
  BY <1>1, <1>3, <1>4 DEF Serving
<1>7. ASSUME NEW k \in Threads, k # t, serves[k] # NoTester PROVE Serving(k, serves[k])'
  <2>1. PICK v \in Testers : v = serves[k]
    BY <1>0, <1>7 DEF TestTypes
  <2>2. Serving(k, v)
    BY <1>0, <1>7, <2>1 DEF ServedOnce
  <2>3. \A i \in DOMAIN jobq' : jobq'[i][1] # v
    BY <1>1, <2>2 DEF Serving
  <2>4. Serving(k, v)'
    BY <1>1, <1>4, <1>7, <2>2, <2>3, ServingStays
  <2> QED BY <1>1, <1>7, <2>1, <2>4
<1>8. ServedOnce'
  <2>1. ASSUME NEW k \in Threads, serves'[k] = NoTester PROVE pc'[k] = "idle"
    BY <1>0, <1>1, <1>2, <1>4, <2>1 DEF ServedOnce
  <2>2. ASSUME NEW k \in Threads, serves'[k] # NoTester PROVE Serving(k, serves[k])'
    <3>1. CASE k = t
      BY <1>1, <1>6, <3>1
    <3>2. CASE k # t
      BY <1>1, <1>7, <2>2, <3>2
    <3> QED BY <3>1, <3>2
  <2>3. \A j, k \in Threads : serves'[j] # NoTester /\ serves'[j] = serves'[k] => j = k
    BY <1>0, <1>1 DEF ServedOnce
  <2> QED BY <2>1, <2>2, <2>3 DEF ServedOnce
<1>9. ~Served(u) /\ (x = "returned" => Served(u)') /\ (x # "returned" => ~Served(u)')
  BY <1>1, <1>3, <1>4 DEF Served
<1>10. ASSUME NEW v \in Testers, v # u PROVE Served(v)' <=> Served(v)
  BY <1>1, <1>4, <1>10 DEF Served
<1> QED BY <1>1, <1>3, <1>5, <1>8, <1>9, <1>10

(* A handler that goes on without having returned gives nobody a lock.     *)
LEMMA WaitKeeps ==
    ASSUME TestInv, IInv', NEW t \in Threads, NEW u, NEW x, Moves(t, u, x), x # "returned", lh' = lh
    PROVE  TestInv'
<1>1. /\ TestTypes' /\ ProgramsAreGood' /\ QueuedOnce' /\ ServedOnce' /\ CountIsRight' /\ ChecksHold'
      /\ todo' = todo /\ ~Served(u) /\ ~Served(u)' /\ \A v \in Testers : v # u => (Served(v)' <=> Served(v))
  BY HandlerMoves
<1>2. \A v \in Testers : \A l \in LockIds : Owns(v, l)' => Owns(v, l)
  BY <1>1 DEF Owns
<1>3. OwnersHold /\ locks' = locks
  BY DEF TestInv, Moves
<1>4. OwnersHold'
  BY <1>1, <1>2, <1>3, OwnersStay
<1> QED BY <1>1, <1>4 DEF TestInv

LEMMA SpuriousKeeps ==
    ASSUME TestInv, IInv', NEW t \in Threads, spurious_wakeup(t), UNCHANGED testvars PROVE TestInv'
<1>1. Moves(t, serves[t], "woken") /\ lh' = lh
  BY DEF Moves, spurious_wakeup
<1> QED BY <1>1, WaitKeeps

LEMMA ResumeKeeps ==
    ASSUME TestInv, IInv', NEW t \in Threads, acquire_resume(t), UNCHANGED testvars PROVE TestInv'
<1>0. TypeOK /\ ProgramsAreGood
  BY DEF TestInv, IInv
<1>1. pc[t] = "woken" /\ WaitLoop(t, clt[t], lid[t]) /\ UNCHANGED <<locks, clt, lid>>
  BY DEF acquire_resume
<1>2. PICK u, z : u = serves[t] /\ z = lid[t]
  OBVIOUS
<1>3. CASE lh[z].state # "FREE"
  <2>1. Moves(t, u, "waiting") /\ lh' = lh
    BY <1>1, <1>2, <1>3 DEF Moves, WaitLoop
  <2> QED BY <2>1, WaitKeeps
<1>4. CASE lh[z].state = "FREE"
  <2>1. /\ lh' = [lh EXCEPT ![z] = [state |-> "LOCKED", clt |-> clt[t]]]
        /\ pc' = [pc EXCEPT ![t] = "returned"] /\ ret' = [ret EXCEPT ![t] = "OK"]
    BY <1>1, <1>2, <1>4 DEF WaitLoop, TakeLock, Returns
  <2>2. ret'[t] = "OK" /\ \A k \in Threads : k # t => ret'[k] = ret[k]
    BY <1>0, <2>1 DEF TypeOK
  <2>3. Moves(t, u, "returned")
    BY <1>1, <1>2, <2>1, <2>2 DEF Moves
  <2>4. /\ TestTypes' /\ ProgramsAreGood' /\ QueuedOnce' /\ ServedOnce' /\ CountIsRight' /\ ChecksHold'
        /\ u \in Testers /\ Serving(t, u) /\ todo' = todo /\ ~Served(u) /\ Served(u)'
        /\ \A v \in Testers : v # u => (Served(v)' <=> Served(v))
    BY <2>3, HandlerMoves
  <2>5. /\ todo[u][1].op = "acquire" /\ todo[u][1].lid = z /\ todo[u][1].clt = clt[t] /\ z \in locks
        /\ todo[u] # <<>> /\ WellFormed(todo[u])
    BY <1>0, <1>1, <1>2, <2>4 DEF Serving, ProgramsAreGood
  <2>6. z \in LockIds
    BY <1>0, <2>5 DEF TypeOK
  <2>7. \A l \in LockIds : Owns(u, l)' => l = z \/ Owns(u, l)
    BY <2>4, <2>5, StepEffect DEF Owns
  <2>8. OwnersHold'
    BY <1>1, <1>4, <2>1, <2>4, <2>5, <2>6, <2>7, GrantKeepsOwners
  <2> QED BY <2>4, <2>8 DEF TestInv
<1> QED BY <1>3, <1>4
-----------------------------------------------------------------------------
LEMMA InitTest == Init /\ TestInit => TestInv
<1> SUFFICES ASSUME Init, TestInit PROVE TestInv
  OBVIOUS
<1>1. IInv /\ pc = [t \in Threads |-> "idle"]
  BY InitIInv DEF Init
<1>2. /\ test = 1 /\ todo = Programs(1, demo) /\ tpc = [u \in Testers |-> "run"]
      /\ ct = [l \in LockIds |-> 0] /\ jobq = <<>> /\ serves = [t \in Threads |-> NoTester]
  BY DEF TestInit
<1>3. Demo \in Testers
  BY ntAssumption DEF Demo, Testers
<1>4. todo[Demo] = demo /\ \A u \in Testers \ {Demo} : todo[u] = Program(1, u)
  BY <1>2, <1>3 DEF Programs
<1>5. 1 \in 1 .. 6
  OBVIOUS
<1>6. /\ \A u \in Testers \ {Demo} : WellFormed(todo[u]) /\ Fresh(todo[u]) /\ (u # 0 => todo[u] = <<>>)
      /\ WellFormed(todo[Demo]) /\ Fresh(todo[Demo]) /\ \A i \in DOMAIN todo[Demo] : todo[Demo][i].op = "stat"
  BY <1>4, <1>5, ProgramIsGood, DemoIsGood, StatsAreGood
<1>7. \A u \in Testers : WellFormed(todo[u]) /\ Fresh(todo[u])
  BY <1>6
<1>8. ProgramsAreGood
  BY <1>2, <1>6, <1>7 DEF ProgramsAreGood
<1>9. TestTypes
  <2>1. todo \in [Testers -> Seq(Steps)]
    <3>1. \A u \in Testers : todo[u] \in Seq(Steps)
      BY <1>7 DEF WellFormed
    <3> QED BY <1>2, <3>1 DEF Programs
  <2>2. /\ test \in 1 .. 6 /\ tpc \in [Testers -> {"run", "call", "failed"}] /\ ct \in [LockIds -> Int]
        /\ jobq \in Seq(Testers \X Steps) /\ serves \in [Threads -> Testers \cup {NoTester}]
    BY <1>2, <1>5
  <2> QED BY <2>1, <2>2 DEF TestTypes
<1>10. QueuedOnce /\ ServedOnce /\ ChecksHold
  BY <1>1, <1>2 DEF QueuedOnce, ServedOnce, ChecksHold
<1>11. \A u \in Testers : ~Served(u)
  BY <1>1 DEF Served
<1>12. OwnersHold /\ CountIsRight
  BY <1>2, <1>7, <1>11 DEF OwnersHold, CountIsRight, Owns, Counted, Fresh
<1> QED BY <1>1, <1>8, <1>9, <1>10, <1>12 DEF TestInv

LEMMA TestNextKeeps == TestInv /\ [TestNext]_allvars => TestInv'
<1> SUFFICES ASSUME TestInv, [TestNext]_allvars PROVE TestInv'
  OBVIOUS
<1>0. IInv'
  BY ServerStep, NextIInv DEF TestInv
<1>1. CASE next_test /\ UNCHANGED vars
  BY <1>0, <1>1, NextTestKeeps
<1>2. ASSUME NEW u \in Testers, call(u) \/ check_grant(u) \/ check_release(u), UNCHANGED vars PROVE TestInv'
  BY <1>0, <1>2, CallKeeps, CheckGrantKeeps, CheckReleaseKeeps
<1>3. ASSUME NEW t \in Threads, serve(t) PROVE TestInv'
  BY <1>0, <1>3, ServeKeeps
<1>4. ASSUME NEW t \in Threads, reply(t) PROVE TestInv'
  BY <1>0, <1>4, ReplyKeeps
<1>5. ASSUME NEW t \in Threads, acquire_resume(t) \/ spurious_wakeup(t), UNCHANGED testvars PROVE TestInv'
  BY <1>0, <1>5, ResumeKeeps, SpuriousKeeps
<1>6. CASE UNCHANGED allvars
  <2>1. UNCHANGED <<locks, lh, pc, clt, lid, ret, test, todo, tpc, ct, jobq, serves>>
    BY <1>6 DEF allvars, vars, testvars
  <2>2. TestTypes' /\ ProgramsAreGood' /\ QueuedOnce' /\ CountIsRight' /\ ChecksHold'
    BY <2>1 DEF TestInv, TestTypes, ProgramsAreGood, QueuedOnce, CountIsRight, Counted, ChecksHold
  <2>3. ServedOnce' /\ OwnersHold'
    BY <2>1 DEF TestInv, ServedOnce, Serving, OwnersHold, Owns, Served
  <2> QED BY <1>0, <2>2, <2>3 DEF TestInv
<1> QED BY <1>1, <1>2, <1>3, <1>4, <1>5, <1>6 DEF TestNext

(* The invariant that the theorems rest on.                                *)
LEMMA TestInvHolds == TestSpec => []TestInv
  BY InitTest, TestNextKeeps, PTL DEF TestSpec

(* The tester and the demo use the lock server as LockServer says it may   *)
(* be used, so what is proved there of the handlers, its refinement of the *)
(* abstract lock included, holds in the service.                           *)
THEOREM ServiceUsesServer == TestSpec => Spec
<1>1. TestInv /\ [TestNext]_allvars => [Next]_vars
  BY ServerStep
<1> QED BY <1>1, TestInvHolds, PTL DEF TestSpec, Spec

(* No check of lock_tester.cc and no assert on a result of lock_client     *)
(* ever fails, however many threads share a client and however many        *)
(* dispatch threads serve them.                                            *)
THEOREM NoCheckFails == TestSpec => []ChecksHold
<1>1. TestInv => ChecksHold
  BY DEF TestInv
<1> QED BY <1>1, TestInvHolds, PTL

(* Between the reply to its acquire and the sending of its release no      *)
(* other thread is between the two with the same lock.                     *)
THEOREM TestersAreAlone == TestSpec => []MutualExclusion
<1>1. ASSUME TestInv, NEW u \in Testers, NEW l \in LockIds, InCS(u, l) PROVE Owns(u, l)
  <2>0. /\ ServedOnce /\ todo[u] \in Seq(Steps) /\ DOMAIN todo[u] = 1 .. Len(todo[u]) /\ Len(todo[u]) \in Nat
    <3>1. ServedOnce /\ todo[u] \in Seq(Steps)
      BY <1>1 DEF TestInv, TestTypes
    <3> QED BY <3>1, LenProperties
  <2>1. PICK i \in DOMAIN todo[u] :
           /\ todo[u][i].op = "release" /\ todo[u][i].lid = l
           /\ \A j \in 1 .. i - 1 : todo[u][j].op = "acquire" => todo[u][j].lid # l
           /\ i = 1 => tpc[u] = "run"
    BY <1>1 DEF InCS
  <2>2. Served(u) => i # 1
    BY <1>1, <2>1, RunningIsUnserved
  <2>3. i > 0 /\ (i # 1 => i > 1) /\ (\A j \in 0 + 1 .. i - 1 : j \in 1 .. i - 1)
        /\ (\A j \in 1 + 1 .. i - 1 : j \in 1 .. i - 1)
    BY <2>0
  <2>4. Owes(todo[u], 0, l) /\ (i # 1 => Owes(todo[u], 1, l))
    BY <2>1, <2>3 DEF Owes, After
  <2> QED BY <2>2, <2>4 DEF Owns
<1>2. TestInv => MutualExclusion
  BY <1>1 DEF TestInv, OwnersHold, MutualExclusion
<1> QED BY <1>2, TestInvHolds, PTL
=============================================================================
