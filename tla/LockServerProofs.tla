-------------------------- MODULE LockServerProofs --------------------------
(***************************************************************************)
(* Theorems about LockServer for any sets of threads, clients and locks.   *)
(* The inductive invariant adds to the type invariant that a lock is held  *)
(* exactly when it has an owner, and that a blocked thread keeps the       *)
(* arguments of its acquire.                                               *)
(***************************************************************************)
EXTENDS LockServer, FiniteSetTheorems, TLAPS

(* A lock is LOCKED exactly when its handle names a client.                *)
LockedIffOwned == \A l \in LockIds : lh[l].state = "LOCKED" <=> lh[l].clt # NoClt

(* A thread blocked in acquire knows for whom and on which lock.           *)
BlockedHasArgs == \A t \in Threads :
                     pc[t] \in {"waiting", "woken"} => clt[t] \in Clients /\ lid[t] \in LockIds

IInv == TypeOK /\ LockedIffOwned /\ BlockedHasArgs

(* The step relation split into one disjunct per handler entry point.      *)
LEMMA NextCases ==
    ASSUME [Next]_vars
    PROVE  \/ \E t \in Threads, c \in Clients, l \in LockIds :
                 acquire(t, c, l) \/ release(t, c, l) \/ stat(t, c, l)
           \/ \E t \in Threads : acquire_resume(t) \/ spurious_wakeup(t) \/ finish(t)
           \/ UNCHANGED vars
  BY DEF Next, Call

-----------------------------------------------------------------------------
(* The inductive invariant holds initially.                                *)
LEMMA InitIInv == Init => IInv
  BY DEF Init, IInv, TypeOK, LockedIffOwned, BlockedHasArgs, lock_handle, PCs, Statuses

(* Every handler step preserves the inductive invariant.                   *)
LEMMA NextIInv == IInv /\ [Next]_vars => IInv'
<1> SUFFICES ASSUME IInv, [Next]_vars PROVE IInv'
  OBVIOUS
<1> USE NoCltAssumption, NoLidAssumption
<1>1. ASSUME NEW t \in Threads, NEW c \in Clients, NEW l \in LockIds, acquire(t, c, l)
      PROVE  IInv'
  <2>1. CASE lh[l].state = "FREE"
    <3> USE <1>1, <2>1 DEF acquire, Called, WaitLoop, TakeLock, Returns, IInv, TypeOK
    <3>1. TypeOK'
      BY DEF PCs, Statuses
    <3>2. LockedIffOwned'
      BY DEF LockedIffOwned
    <3>3. BlockedHasArgs'
      BY DEF BlockedHasArgs
    <3> QED BY <3>1, <3>2, <3>3
  <2>2. CASE lh[l].state # "FREE"
    BY <1>1, <2>2 DEF acquire, Called, WaitLoop, IInv, TypeOK,
                      LockedIffOwned, BlockedHasArgs, PCs, Statuses
  <2> QED BY <2>1, <2>2
<1>2. ASSUME NEW t \in Threads, NEW c \in Clients, NEW l \in LockIds, release(t, c, l)
      PROVE  IInv'
  <2>1. CASE MayRelease(c, l)
    <3>1. PICK q \in Signal(l) : Returns(t, "OK", q)
      BY <1>2, <2>1 DEF release
    <3>2. q \in [Threads -> PCs]
      BY DEF Signal, Waiters, IInv, TypeOK, PCs
    <3>3. \A u \in Threads : q[u] \in {"waiting", "woken"} => pc[u] \in {"waiting", "woken"}
      BY DEF Signal, Waiters, IInv, TypeOK, PCs
    <3> QED
      BY <1>2, <2>1, <3>1, <3>2, <3>3
         DEF release, Called, Returns, MayRelease, lock_handle, IInv, TypeOK,
             LockedIffOwned, BlockedHasArgs, PCs, Statuses
  <2>2. CASE ~MayRelease(c, l)
    BY <1>2, <2>2 DEF release, Called, Returns, IInv, TypeOK,
                      LockedIffOwned, BlockedHasArgs, PCs, Statuses
  <2> QED BY <2>1, <2>2
<1>3. ASSUME NEW t \in Threads, NEW c \in Clients, NEW l \in LockIds, stat(t, c, l)
      PROVE  IInv'
  BY <1>3 DEF stat, Called, Returns, IInv, TypeOK, LockedIffOwned, BlockedHasArgs,
              PCs, Statuses
<1>4. ASSUME NEW t \in Threads, acquire_resume(t)
      PROVE  IInv'
  BY <1>4 DEF acquire_resume, WaitLoop, TakeLock, Returns, IInv, TypeOK,
              LockedIffOwned, BlockedHasArgs, PCs, Statuses
<1>5. ASSUME NEW t \in Threads, spurious_wakeup(t)
      PROVE  IInv'
  BY <1>5 DEF spurious_wakeup, IInv, TypeOK, LockedIffOwned, BlockedHasArgs, PCs, Statuses
<1>6. ASSUME NEW t \in Threads, finish(t)
      PROVE  IInv'
  BY <1>6 DEF finish, IInv, TypeOK, LockedIffOwned, BlockedHasArgs, PCs, Statuses
<1>7. CASE UNCHANGED vars
  BY <1>7 DEF vars, IInv, TypeOK, LockedIffOwned, BlockedHasArgs
<1> QED
  BY <1>1, <1>2, <1>3, <1>4, <1>5, <1>6, <1>7, NextCases

(* The lock server's variables keep their types.                           *)
THEOREM TypeCorrect == Spec => []TypeOK
<1>1. IInv => TypeOK
  BY DEF IInv
<1> QED
  BY <1>1, InitIInv, NextIInv, PTL DEF Spec

-----------------------------------------------------------------------------
(* No handler step loses a wakeup.                                         *)
LEMMA NextNoLostWakeup == IInv /\ NoLostWakeup /\ [Next]_vars => NoLostWakeup'
<1> SUFFICES ASSUME IInv, NoLostWakeup, [Next]_vars,
                    NEW k \in LockIds,
                    lh'[k].state = "FREE", NEW w \in Waiters(k)'
             PROVE  Woken(k)' # {}
  BY DEF NoLostWakeup
<1> USE DEF IInv, TypeOK
<1>1. ASSUME NEW t \in Threads, NEW c \in Clients, NEW l \in LockIds, acquire(t, c, l)
      PROVE  Woken(k)' # {}
  <2>1. lh[k].state = "FREE" /\ w \in Waiters(k)
    BY <1>1 DEF acquire, Called, WaitLoop, TakeLock, Returns, Waiters
  <2>2. PICK u \in Threads : u \in Woken(k)
    BY <2>1 DEF NoLostWakeup, Woken
  <2>3. u \in Woken(k)'
    BY <1>1, <2>2 DEF acquire, Called, WaitLoop, Returns, Woken
  <2> QED BY <2>3
<1>2. ASSUME NEW t \in Threads, NEW c \in Clients, NEW l \in LockIds, release(t, c, l)
      PROVE  Woken(k)' # {}
  <2>1. CASE MayRelease(c, l)
    <3>1. PICK q \in Signal(l) : Returns(t, "OK", q)
      BY <1>2, <2>1 DEF release
    <3>2. w # t /\ w \in Waiters(k)
      BY <1>2, <3>1 DEF release, Called, Returns, Waiters, Signal
    <3>3. CASE k = l
      <4>1. Waiters(l) # {}
        BY <3>2, <3>3
      <4>2. PICK v \in Waiters(l) : q = [pc EXCEPT ![v] = "woken"]
        BY <3>1, <4>1 DEF Signal
      <4>3. v # t
        BY <1>2 DEF release, Called, Waiters
      <4>4. v \in Woken(l)'
        BY <1>2, <3>1, <4>2, <4>3 DEF release, Called, Returns, Waiters, Woken
      <4> QED BY <3>3, <4>4
    <3>4. CASE k # l
      <4>1. lh[k].state = "FREE"
        BY <1>2, <2>1, <3>4 DEF release
      <4>2. PICK u \in Threads : u \in Woken(k)
        BY <3>2, <4>1 DEF NoLostWakeup, Woken
      <4>3. u # t
        BY <1>2, <4>2 DEF release, Called, Woken
      <4>4. q[u] = "woken"
        BY <4>2 DEF Signal, Waiters, Woken
      <4>5. u \in Woken(k)'
        BY <1>2, <3>1, <4>2, <4>3, <4>4 DEF release, Called, Returns, Woken, Signal
      <4> QED BY <4>5
    <3> QED BY <3>3, <3>4
  <2>2. CASE ~MayRelease(c, l)
    <3>1. lh[k].state = "FREE" /\ w \in Waiters(k)
      BY <1>2, <2>2 DEF release, Called, Returns, Waiters
    <3>2. PICK u \in Threads : u \in Woken(k)
      BY <3>1 DEF NoLostWakeup, Woken
    <3>3. u \in Woken(k)'
      BY <1>2, <2>2, <3>2 DEF release, Called, Returns, Woken
    <3> QED BY <3>3
  <2> QED BY <2>1, <2>2
<1>3. ASSUME NEW t \in Threads, NEW c \in Clients, NEW l \in LockIds, stat(t, c, l)
      PROVE  Woken(k)' # {}
  <2>1. lh[k].state = "FREE" /\ w \in Waiters(k)
    BY <1>3 DEF stat, Called, Returns, Waiters
  <2>2. PICK u \in Threads : u \in Woken(k)
    BY <2>1 DEF NoLostWakeup, Woken
  <2>3. u \in Woken(k)'
    BY <1>3, <2>2 DEF stat, Called, Returns, Woken
  <2> QED BY <2>3
<1>4. ASSUME NEW t \in Threads, acquire_resume(t)
      PROVE  Woken(k)' # {}
  <2>1. lh[k].state = "FREE"
    BY <1>4 DEF acquire_resume, WaitLoop, TakeLock, BlockedHasArgs
  <2>2. lid[t] # k
    BY <1>4, <2>1 DEF acquire_resume, WaitLoop, TakeLock
  <2>3. w \in Waiters(k)
    BY <1>4, <2>2 DEF acquire_resume, WaitLoop, Returns, Waiters
  <2>4. PICK u \in Threads : u \in Woken(k)
    BY <2>1, <2>3 DEF NoLostWakeup, Woken
  <2>5. u \in Woken(k)'
    BY <1>4, <2>2, <2>4 DEF acquire_resume, WaitLoop, Returns, Woken
  <2> QED BY <2>5
<1>5. ASSUME NEW t \in Threads, spurious_wakeup(t)
      PROVE  Woken(k)' # {}
  <2>1. lh[k].state = "FREE" /\ w \in Waiters(k)
    BY <1>5 DEF spurious_wakeup, Waiters
  <2>2. PICK u \in Threads : u \in Woken(k)
    BY <2>1 DEF NoLostWakeup, Woken
  <2>3. u \in Woken(k)'
    BY <1>5, <2>2 DEF spurious_wakeup, Woken
  <2> QED BY <2>3
<1>6. ASSUME NEW t \in Threads, finish(t)
      PROVE  Woken(k)' # {}
  <2>1. lh[k].state = "FREE" /\ w \in Waiters(k)
    BY <1>6 DEF finish, Waiters
  <2>2. PICK u \in Threads : u \in Woken(k)
    BY <2>1 DEF NoLostWakeup, Woken
  <2>3. u \in Woken(k)'
    BY <1>6, <2>2 DEF finish, Woken
  <2> QED BY <2>3
<1>7. CASE UNCHANGED vars
  BY <1>7 DEF vars, NoLostWakeup, Waiters, Woken
<1> QED
  BY <1>1, <1>2, <1>3, <1>4, <1>5, <1>6, <1>7, NextCases

(* Signalling one waiter per release is enough, for any number of threads, *)
(* clients and locks, newcomers and spurious wakeups included.             *)
THEOREM WakeupNotLost == Spec => []NoLostWakeup
<1>1. Init => NoLostWakeup
  BY DEF Init, NoLostWakeup, Waiters
<1> QED
  BY <1>1, InitIInv, NextIInv, NextNoLostWakeup, PTL DEF Spec
-----------------------------------------------------------------------------
(* Locking a free lock adds one held lock.                                 *)
LEMMA LockAddsOne ==
    ASSUME TypeOK, TypeOK', NEW l \in LockIds,
           lh[l].state = "FREE", lh'[l].state = "LOCKED",
           \A k \in LockIds \ {l} : lh'[k] = lh[k]
    PROVE  Cardinality(Held') = Cardinality(Held) + 1
<1>1. Held' = Held \cup {l} /\ l \notin Held
  BY DEF Held, TypeOK
<1>2. IsFiniteSet(Held)
  BY FiniteLocks, FS_Subset DEF Held
<1> QED
  BY <1>1, <1>2, FS_AddElement

(* Freeing a held lock removes one.                                        *)
LEMMA FreeRemovesOne ==
    ASSUME TypeOK, TypeOK', NEW l \in LockIds,
           lh[l].state = "LOCKED", lh'[l].state = "FREE",
           \A k \in LockIds \ {l} : lh'[k] = lh[k]
    PROVE  Cardinality(Held') = Cardinality(Held) - 1
<1>1. Held' = Held \ {l} /\ l \in Held
  BY DEF Held, TypeOK
<1>2. IsFiniteSet(Held)
  BY FiniteLocks, FS_Subset DEF Held
<1> QED
  BY <1>1, <1>2, FS_RemoveElement

(* The counter and the number of held locks move together.                 *)
LEMMA NextNacquire == IInv /\ NacquireCountsHeld /\ [Next]_vars => NacquireCountsHeld'
<1> SUFFICES ASSUME IInv, NacquireCountsHeld, [Next]_vars PROVE NacquireCountsHeld'
  OBVIOUS
<1>0. TypeOK /\ TypeOK'
  BY NextIInv DEF IInv
<1>1. ASSUME NEW l \in LockIds, NEW c \in Clients, lh[l].state = "FREE", TakeLock(c, l)
      PROVE  NacquireCountsHeld'
  <2>1. lh'[l].state = "LOCKED" /\ \A k \in LockIds \ {l} : lh'[k] = lh[k]
    BY <1>0, <1>1 DEF TakeLock, TypeOK
  <2> QED
    BY <1>0, <1>1, <2>1, LockAddsOne DEF TakeLock, NacquireCountsHeld
<1>2. ASSUME lh' = lh, nacquire' = nacquire
      PROVE  NacquireCountsHeld'
  BY <1>2 DEF NacquireCountsHeld, Held
<1>3. ASSUME NEW t \in Threads, NEW c \in Clients, NEW l \in LockIds, acquire(t, c, l)
      PROVE  NacquireCountsHeld'
  BY <1>1, <1>2, <1>3 DEF acquire, WaitLoop
<1>4. ASSUME NEW t \in Threads, NEW c \in Clients, NEW l \in LockIds, release(t, c, l)
      PROVE  NacquireCountsHeld'
  <2>1. CASE MayRelease(c, l)
    <3>1. lh[l].state = "LOCKED"
      BY <2>1, NoCltAssumption DEF MayRelease, IInv, LockedIffOwned
    <3>2. lh'[l].state = "FREE" /\ \A k \in LockIds \ {l} : lh'[k] = lh[k]
      BY <1>0, <1>4, <2>1 DEF release, lock_handle, TypeOK
    <3> QED
      BY <1>0, <1>4, <2>1, <3>1, <3>2, FreeRemovesOne DEF release, NacquireCountsHeld
  <2>2. CASE ~MayRelease(c, l)
    BY <1>2, <1>4, <2>2 DEF release
  <2> QED BY <2>1, <2>2
<1>5. ASSUME NEW t \in Threads, NEW c \in Clients, NEW l \in LockIds, stat(t, c, l)
      PROVE  NacquireCountsHeld'
  BY <1>2, <1>5 DEF stat
<1>6. ASSUME NEW t \in Threads, acquire_resume(t)
      PROVE  NacquireCountsHeld'
  BY <1>1, <1>2, <1>6 DEF acquire_resume, WaitLoop, IInv, BlockedHasArgs
<1>7. ASSUME NEW t \in Threads, spurious_wakeup(t) \/ finish(t)
      PROVE  NacquireCountsHeld'
  BY <1>2, <1>7 DEF spurious_wakeup, finish
<1>8. CASE UNCHANGED vars
  BY <1>2, <1>8 DEF vars
<1> QED
  BY <1>3, <1>4, <1>5, <1>6, <1>7, <1>8, NextCases

(* stat returns the number of locks held when it runs.                     *)
THEOREM NacquireIsHeldCount == Spec => []NacquireCountsHeld
<1>1. Init => NacquireCountsHeld
  <2> SUFFICES ASSUME Init PROVE NacquireCountsHeld
    OBVIOUS
  <2>1. Held = {}
    BY DEF Init, Held, lock_handle
  <2> QED
    BY <2>1, FS_EmptySet DEF Init, NacquireCountsHeld
<1> QED
  BY <1>1, InitIInv, NextIInv, NextNacquire, PTL DEF Spec

-----------------------------------------------------------------------------
(* Only release clears an owner, and it does so for its caller alone.      *)
LEMMA NextFreed ==
  ASSUME IInv, [Next]_vars, NEW k \in LockIds, lh[k].clt # NoClt, lh'[k].clt = NoClt
  PROVE  \E t \in Threads : pc[t] = "idle" /\ clt'[t] = lh[k].clt /\ lid'[t] = k
<1>0. TypeOK
  BY DEF IInv
<1>1. ASSUME NEW t \in Threads, NEW c \in Clients, NEW l \in LockIds, acquire(t, c, l)
      PROVE  FALSE
  BY <1>0, <1>1, NoCltAssumption DEF acquire, WaitLoop, TakeLock, TypeOK
<1>2. ASSUME NEW t \in Threads, NEW c \in Clients, NEW l \in LockIds, release(t, c, l)
      PROVE  pc[t] = "idle" /\ clt'[t] = lh[k].clt /\ lid'[t] = k
  <2>1. MayRelease(c, l)
    BY <1>2 DEF release
  <2>2. k = l
    BY <1>0, <1>2, <2>1 DEF release, TypeOK
  <2> QED BY <1>0, <1>2, <2>1, <2>2 DEF release, Called, MayRelease, TypeOK
<1>3. ASSUME NEW t \in Threads, acquire_resume(t)
      PROVE  FALSE
  <2>1. clt[t] \in Clients /\ lid[t] \in LockIds
    BY <1>3 DEF acquire_resume, IInv, BlockedHasArgs
  <2> QED BY <1>0, <1>3, <2>1, NoCltAssumption DEF acquire_resume, WaitLoop, TakeLock, TypeOK
<1>4. ASSUME lh' = lh PROVE FALSE
  BY <1>4
<1> QED
  BY <1>1, <1>2, <1>3, <1>4, NextCases DEF stat, spurious_wakeup, finish, vars

(* No step of any thread frees a lock behind its holder's back.            *)
THEOREM FreedOnlyByOwner == Spec => FreedByItsOwner
<1>1. IInv /\ [Next]_vars
      => [\A l \in LockIds : lh[l].clt # NoClt /\ lh'[l].clt = NoClt
            => \E t \in Threads : pc[t] = "idle" /\ clt'[t] = lh[l].clt /\ lid'[t] = l]_vars
  BY NextFreed
<1> QED
  BY <1>1, InitIInv, NextIInv, PTL DEF Spec, FreedByItsOwner

-----------------------------------------------------------------------------
(* What happens to the abstract wait sets when thread t's program counter, *)
(* and its arguments, are all that a step changes.                         *)
LEMMA WantElsewhere ==
  ASSUME TypeOK, TypeOK', NEW t \in Threads, NEW W,
         \A u \in Threads \ {t} :
            /\ pc'[u] \in {"waiting", "woken"} <=> pc[u] \in {"waiting", "woken"}
            /\ clt'[u] = clt[u] /\ lid'[u] = lid[u],
         W = IF pc'[t] \in {"waiting", "woken"} THEN {<<clt'[t], lid'[t]>>} ELSE {}
  PROVE  wantBar' = [wantBar EXCEPT ![t] = W]
<1>1. ASSUME NEW u \in Threads \ {t} PROVE wantBar'[u] = wantBar[u]
  <2>1. pc'[u] \in {"waiting", "woken"} <=> pc[u] \in {"waiting", "woken"}
    OBVIOUS
  <2>2. clt'[u] = clt[u] /\ lid'[u] = lid[u]
    OBVIOUS
  <2> QED BY <2>1, <2>2, Zenon DEF wantBar
<1>2. wantBar'[t] = W
  BY DEF wantBar
<1>3. wantBar' = [u \in Threads |-> wantBar'[u]]
  BY Zenon DEF wantBar
<1>4. wantBar = [u \in Threads |-> wantBar[u]]
  BY Zenon DEF wantBar
<1> DEFINE G == [wantBar EXCEPT ![t] = W]
<1>5. G = [u \in Threads |-> IF u = t THEN W ELSE wantBar[u]]
  BY <1>4, Zenon
<1>6. \A u \in Threads : wantBar'[u] = IF u = t THEN W ELSE wantBar[u]
  BY <1>1, <1>2
<1> HIDE DEF G
<1>7. wantBar' = G
  BY <1>3, <1>5, <1>6
<1> QED BY <1>7 DEF G

(* The same when thread t waits neither before nor after the step, or      *)
(* goes on waiting with the same arguments.                                *)
LEMMA WantUnchanged ==
  ASSUME TypeOK, TypeOK',
         \A u \in Threads :
            /\ pc'[u] \in {"waiting", "woken"} <=> pc[u] \in {"waiting", "woken"}
            /\ pc[u] \in {"waiting", "woken"} => clt'[u] = clt[u] /\ lid'[u] = lid[u]
  PROVE  wantBar' = wantBar
<1>1. ASSUME NEW u \in Threads PROVE wantBar'[u] = wantBar[u]
  <2>1. CASE pc[u] \in {"waiting", "woken"}
    <3>1. clt'[u] = clt[u] /\ lid'[u] = lid[u] /\ pc'[u] \in {"waiting", "woken"}
      BY <2>1
    <3> QED BY <2>1, <3>1, Zenon DEF wantBar
  <2>2. CASE pc[u] \notin {"waiting", "woken"}
    <3>1. pc'[u] \notin {"waiting", "woken"}
      BY <2>2
    <3> QED BY <2>2, <3>1, Zenon DEF wantBar
  <2> QED BY <2>1, <2>2
<1>2. wantBar' = [u \in Threads |-> wantBar'[u]] /\ wantBar = [u \in Threads |-> wantBar[u]]
  BY Zenon DEF wantBar
<1> QED BY <1>1, <1>2

(* What writing one lock_handle does to the abstract owners.               *)
LEMMA OwnerElsewhere ==
  ASSUME TypeOK, NEW l \in LockIds, NEW s, NEW c,
         lh' = [lh EXCEPT ![l] = [state |-> s, clt |-> c]]
  PROVE  ownerBar' = [ownerBar EXCEPT ![l] = c]
<1>1. \A k \in LockIds : ownerBar'[k] = lh'[k].clt /\ ownerBar[k] = lh[k].clt
  BY DEF ownerBar
<1>2. \A k \in LockIds : lh'[k].clt = IF k = l THEN c ELSE lh[k].clt
  BY DEF TypeOK
<1>3. ownerBar' = [k \in LockIds |-> ownerBar'[k]]
  BY DEF ownerBar
<1>4. ownerBar = [k \in LockIds |-> ownerBar[k]]
  BY Zenon DEF ownerBar
<1> DEFINE G == [ownerBar EXCEPT ![l] = c]
<1>5. G = [k \in LockIds |-> IF k = l THEN c ELSE ownerBar[k]]
  BY <1>4, Zenon
<1> HIDE DEF G
<1>6. \A k \in LockIds : ownerBar'[k] = IF k = l THEN c ELSE ownerBar[k]
  BY <1>1, <1>2, Zenon
<1>7. ownerBar' = G
  BY <1>3, <1>5, <1>6
<1> QED BY <1>7 DEF G

(* The handlers' steps are steps of the abstract lock or leave it alone.   *)
LEMMA NextRefines == IInv /\ IInv' /\ [Next]_vars => [Abs!ANext]_(Abs!avars)
<1> SUFFICES ASSUME IInv, IInv', [Next]_vars PROVE [Abs!ANext]_(Abs!avars)
  OBVIOUS
<1>0. TypeOK /\ TypeOK'
  BY DEF IInv
<1>a. ASSUME ownerBar' = ownerBar, wantBar' = wantBar PROVE [Abs!ANext]_(Abs!avars)
  BY <1>a DEF Abs!avars
<1>1. ASSUME NEW t \in Threads, NEW c \in Clients, NEW l \in LockIds, acquire(t, c, l)
      PROVE  [Abs!ANext]_(Abs!avars)
  <2>1. CASE lh[l].state = "FREE"
    <3>1. lh[l].clt = NoClt
      BY <2>1 DEF IInv, LockedIffOwned
    <3>2. ownerBar' = [ownerBar EXCEPT ![l] = c]
      <4>1. lh' = [lh EXCEPT ![l] = [state |-> "LOCKED", clt |-> c]]
        BY <1>1, <2>1 DEF acquire, WaitLoop, TakeLock
      <4> QED BY <1>0, <4>1, OwnerElsewhere
    <3>3. wantBar' = wantBar
      BY <1>0, <1>1, <2>1, WantUnchanged DEF acquire, Called, WaitLoop, Returns, TypeOK
    <3>4. Abs!Take(c, l)
      BY <3>1, <3>2, <3>3 DEF Abs!Take, ownerBar
    <3> QED BY <3>4 DEF Abs!ANext
  <2>2. CASE lh[l].state # "FREE"
    <3>1. lh[l].clt # NoClt
      BY <1>0, <2>2, NoCltAssumption DEF IInv, LockedIffOwned, TypeOK
    <3>2. ownerBar' = ownerBar
      BY <1>1, <2>2 DEF acquire, WaitLoop, ownerBar
    <3>3. wantBar[t] = {}
      BY <1>1 DEF acquire, Called, wantBar
    <3>4. wantBar' = [wantBar EXCEPT ![t] = {<<c, l>>}]
      <4>1. pc'[t] = "waiting" /\ clt'[t] = c /\ lid'[t] = l
        BY <1>0, <1>1, <2>2 DEF acquire, Called, WaitLoop, TypeOK
      <4>2. \A u \in Threads \ {t} : pc'[u] = pc[u] /\ clt'[u] = clt[u] /\ lid'[u] = lid[u]
        BY <1>0, <1>1, <2>2 DEF acquire, Called, WaitLoop, TypeOK
      <4> QED BY <1>0, <4>1, <4>2, WantElsewhere
    <3>5. Abs!Block(t, c, l)
      BY <3>1, <3>2, <3>3, <3>4 DEF Abs!Block, ownerBar
    <3> QED BY <3>5 DEF Abs!ANext
  <2> QED BY <2>1, <2>2
<1>2. ASSUME NEW t \in Threads, NEW c \in Clients, NEW l \in LockIds, release(t, c, l)
      PROVE  [Abs!ANext]_(Abs!avars)
  <2>1. CASE MayRelease(c, l)
    <3>1. PICK q \in Signal(l) : Returns(t, "OK", q)
      BY <1>2, <2>1 DEF release
    <3>2. q \in [Threads -> PCs]
      BY <1>0 DEF Signal, Waiters, TypeOK, PCs
    <3>3. \A u \in Threads : q[u] \in {"waiting", "woken"} <=> pc[u] \in {"waiting", "woken"}
      BY <1>0 DEF Signal, Waiters, TypeOK
    <3>4. wantBar' = wantBar
      <4>1. \A u \in Threads : pc'[u] = IF u = t THEN "returned" ELSE q[u]
        BY <3>1, <3>2 DEF Returns
      <4>2. \A u \in Threads \ {t} : clt'[u] = clt[u] /\ lid'[u] = lid[u]
        BY <1>0, <1>2 DEF release, Called, TypeOK
      <4>3. pc[t] = "idle"
        BY <1>2 DEF release, Called
      <4> QED BY <1>0, <3>3, <4>1, <4>2, <4>3, WantUnchanged
    <3>5. ownerBar' = [ownerBar EXCEPT ![l] = NoClt]
      <4>1. lh' = [lh EXCEPT ![l] = [state |-> "FREE", clt |-> NoClt]]
        BY <1>2, <2>1 DEF release, lock_handle
      <4> QED BY <1>0, <4>1, OwnerElsewhere
    <3>6. Abs!Free(c, l)
      BY <2>1, <3>4, <3>5 DEF Abs!Free, MayRelease, ownerBar
    <3> QED BY <3>6 DEF Abs!ANext
  <2>2. CASE ~MayRelease(c, l)
    <3>1. ownerBar' = ownerBar
      BY <1>2, <2>2 DEF release, ownerBar
    <3>2. wantBar' = wantBar
      BY <1>0, <1>2, <2>2, WantUnchanged DEF release, Called, Returns, TypeOK
    <3> QED BY <1>a, <3>1, <3>2
  <2> QED BY <2>1, <2>2
<1>3. ASSUME NEW t \in Threads, NEW c \in Clients, NEW l \in LockIds, stat(t, c, l)
      PROVE  [Abs!ANext]_(Abs!avars)
  <2>1. ownerBar' = ownerBar
    BY <1>3 DEF stat, ownerBar
  <2>2. wantBar' = wantBar
    BY <1>0, <1>3, WantUnchanged DEF stat, Called, Returns, TypeOK
  <2> QED BY <1>a, <2>1, <2>2
<1>4. ASSUME NEW t \in Threads, acquire_resume(t)
      PROVE  [Abs!ANext]_(Abs!avars)
  <2>0. clt[t] \in Clients /\ lid[t] \in LockIds
    BY <1>4 DEF acquire_resume, IInv, BlockedHasArgs
  <2>1. CASE lh[lid[t]].state = "FREE"
    <3>1. lh[lid[t]].clt = NoClt
      BY <2>0, <2>1 DEF IInv, LockedIffOwned
    <3>2. ownerBar' = [ownerBar EXCEPT ![lid[t]] = clt[t]]
      <4>1. lh' = [lh EXCEPT ![lid[t]] = [state |-> "LOCKED", clt |-> clt[t]]]
        BY <1>4, <2>1 DEF acquire_resume, WaitLoop, TakeLock
      <4> QED BY <1>0, <2>0, <4>1, OwnerElsewhere
    <3>3. wantBar[t] = {<<clt[t], lid[t]>>}
      BY <1>4 DEF acquire_resume, wantBar
    <3>4. wantBar' = [wantBar EXCEPT ![t] = {}]
      <4>1. pc'[t] = "returned"
        BY <1>0, <1>4, <2>1 DEF acquire_resume, WaitLoop, Returns, TypeOK
      <4>2. \A u \in Threads \ {t} : pc'[u] = pc[u] /\ clt'[u] = clt[u] /\ lid'[u] = lid[u]
        BY <1>0, <1>4, <2>1 DEF acquire_resume, WaitLoop, Returns, TypeOK
      <4> QED BY <1>0, <4>1, <4>2, WantElsewhere
    <3>5. Abs!Grant(t, clt[t], lid[t])
      BY <2>0, <3>1, <3>2, <3>3, <3>4 DEF Abs!Grant, ownerBar
    <3> QED BY <2>0, <3>5 DEF Abs!ANext
  <2>2. CASE lh[lid[t]].state # "FREE"
    <3>1. ownerBar' = ownerBar
      BY <1>4, <2>2 DEF acquire_resume, WaitLoop, ownerBar
    <3>2. wantBar' = wantBar
      BY <1>0, <1>4, <2>2, WantUnchanged DEF acquire_resume, WaitLoop, TypeOK
    <3> QED BY <1>a, <3>1, <3>2
  <2> QED BY <2>1, <2>2
<1>5. ASSUME NEW t \in Threads, spurious_wakeup(t) \/ finish(t)
      PROVE  [Abs!ANext]_(Abs!avars)
  <2>1. ownerBar' = ownerBar
    BY <1>5 DEF spurious_wakeup, finish, ownerBar
  <2>2. wantBar' = wantBar
    BY <1>0, <1>5, WantUnchanged DEF spurious_wakeup, finish, TypeOK
  <2> QED BY <1>a, <2>1, <2>2
<1>6. CASE UNCHANGED vars
  <2>1. ownerBar' = ownerBar /\ wantBar' = wantBar
    BY <1>6 DEF vars, ownerBar, wantBar
  <2> QED BY <1>a, <2>1
<1> QED
  BY <1>1, <1>2, <1>3, <1>4, <1>5, <1>6, NextCases

(* The lock server implements the abstract lock: a lock has at most one    *)
(* owner, never changes hands without being freed by its owner, and every  *)
(* grant answers an acquire that is being served.                          *)
THEOREM Refinement == Spec => ImplementsAbstractLock
<1>1. Init => Abs!AInit
  BY DEF Init, Abs!AInit, ownerBar, wantBar, lock_handle
<1>2. Spec => []IInv
  BY InitIInv, NextIInv, PTL DEF Spec
<1>3. Spec => Abs!AInit /\ [][Abs!ANext]_(Abs!avars)
  BY <1>1, <1>2, NextRefines, PTL DEF Spec
<1> QED
  BY <1>3 DEF ImplementsAbstractLock, Abs!ASpec
=============================================================================
