----------------------------- MODULE LockServer -----------------------------
(***************************************************************************)
(* lock_server.cc: the handlers acquire, release and stat, run by the      *)
(* dispatch threads of rpcs.  Each handler holds the mutex m from its      *)
(* first line to its return, except inside pthread_cond_wait, so a step of *)
(* this module is one stretch of code between two points where m is free.  *)
(*                                                                         *)
(* The clients are not modelled here: any handler may be called with any   *)
(* client and any lock, in any order, as the RPC layer may deliver them.   *)
(***************************************************************************)
EXTENDS Integers, FiniteSets

CONSTANTS Threads,  \* dispatch threads that run handlers
          Clients,  \* client identities: rpcc::id(), a random() nonce
          LockIds,  \* lock_protocol::lockid_t
          NoClt,    \* -1, the clt of a lock nobody holds
          NoLid     \* no lock: the lid of a thread that runs no handler

(* A nonce is the result of random(), never negative, so never -1.         *)
ASSUME NoCltAssumption == NoClt \notin Clients

ASSUME NoLidAssumption == NoLid \notin LockIds

(* A 64-bit lockid_t: finitely many names.                                 *)
ASSUME FiniteLocks == IsFiniteSet(LockIds)

VARIABLES locks,    \* the keys of the map locks
          lh,       \* lh[l]: the state and clt of lock l's lock_handle
          nacquire, \* the counter stat returns
          pc,       \* where thread t is in its handler
          clt, lid, \* the arguments of the handler thread t runs
          ret, r    \* what thread t's handler returned

vars == <<locks, lh, nacquire, pc, clt, lid, ret, r>>

(* Mutant: the constructor leaves clt unset.                               *)
lock_handleUnset == [state |-> "FREE", clt |-> NoLid]

lock_handle == [state |-> "FREE", clt |-> NoClt]

(* "idle": runs no handler.  "waiting": in pthread_cond_wait on lh.cond.   *)
(* "woken": signalled, about to re-take m and test lh.state again.         *)
(* "returned": the handler has returned; dispatch has its result.          *)
PCs == {"idle", "waiting", "woken", "returned"}

Statuses == {"none", "OK", "RPCERR"}

Init == /\ locks = {}
        /\ lh = [l \in LockIds |-> lock_handle]
        /\ nacquire = 0
        /\ pc = [t \in Threads |-> "idle"]
        /\ clt = [t \in Threads |-> NoClt]
        /\ lid = [t \in Threads |-> NoLid]
        /\ ret = [t \in Threads |-> "none"]
        /\ r = [t \in Threads |-> 0]

(* The threads blocked on lock l's condition variable.                     *)
Waiters(l) == {t \in Threads : pc[t] = "waiting" /\ lid[t] = l}

Woken(l) == {t \in Threads : pc[t] = "woken" /\ lid[t] = l}

(* Thread t's handler starts with arguments c and l.                       *)
Called(t, c, l) == /\ pc[t] = "idle"
                   /\ clt' = [clt EXCEPT ![t] = c]
                   /\ lid' = [lid EXCEPT ![t] = l]

(* Thread t's handler returns status s, the other threads being as in q.   *)
Returns(t, s, q) == /\ pc' = [q EXCEPT ![t] = "returned"]
                    /\ ret' = [ret EXCEPT ![t] = s]

-----------------------------------------------------------------------------
(* Mutant: the grant is recorded without marking the lock as held.         *)
TakeLockUnmarked(c, l) == /\ lh' = [lh EXCEPT ![l] = [state |-> "FREE", clt |-> c]]
                          /\ nacquire' = nacquire + 1

(* "we have the lock now": the assignments after acquire's wait loop.      *)
TakeLock(c, l) == /\ lh' = [lh EXCEPT ![l] = [state |-> "LOCKED", clt |-> c]]
                  /\ nacquire' = nacquire + 1

(* acquire's loop test, at entry and after each wait: take a free lock and *)
(* return OK, or block on the lock's condition variable.                   *)
WaitLoop(t, c, l) ==
    \/ /\ lh[l].state = "FREE"
       /\ TakeLock(c, l)
       /\ Returns(t, "OK", pc)
    \/ /\ lh[l].state # "FREE"
       /\ pc' = [pc EXCEPT ![t] = "waiting"]
       /\ UNCHANGED <<lh, nacquire, ret>>

(* lock_server::acquire from its first line.                               *)
acquire(t, c, l) == /\ Called(t, c, l)
                    /\ locks' = locks \cup {l}
                    /\ WaitLoop(t, c, l)
                    /\ UNCHANGED r

(* Mutant: the lock is not tested again after the wait (if for while).     *)
acquire_resumeUntested(t) == /\ pc[t] = "woken"
                             /\ TakeLock(clt[t], lid[t])
                             /\ Returns(t, "OK", pc)
                             /\ UNCHANGED <<locks, clt, lid, r>>

(* lock_server::acquire after pthread_cond_wait has re-taken m.            *)
acquire_resume(t) == /\ pc[t] = "woken"
                     /\ WaitLoop(t, clt[t], lid[t])
                     /\ UNCHANGED <<locks, clt, lid, r>>

(* Mutant: release signals nobody.                                         *)
SignalDropped(l) == {pc}

(* pthread_cond_signal(&lh.cond): the thread states it may leave behind.   *)
Signal(l) == IF Waiters(l) = {} THEN {pc}
             ELSE {[pc EXCEPT ![w] = "woken"] : w \in Waiters(l)}

(* Mutant: release does not compare lh.clt with its caller.                *)
MayReleaseAnyone(c, l) == l \in locks

(* The two tests at the top of release.                                    *)
MayRelease(c, l) == l \in locks /\ lh[l].clt = c

(* lock_server::release.                                                   *)
release(t, c, l) ==
    /\ Called(t, c, l)
    /\ \/ /\ MayRelease(c, l)
          /\ lh' = [lh EXCEPT ![l] = lock_handle]
          /\ nacquire' = nacquire - 1
          /\ \E q \in Signal(l) : Returns(t, "OK", q)
       \/ /\ ~MayRelease(c, l)
          /\ Returns(t, "RPCERR", pc)
          /\ UNCHANGED <<lh, nacquire>>
    /\ UNCHANGED <<locks, r>>

(* lock_server::stat.                                                      *)
stat(t, c, l) == /\ Called(t, c, l)
                 /\ r' = [r EXCEPT ![t] = nacquire]
                 /\ Returns(t, "OK", pc)
                 /\ UNCHANGED <<locks, lh, nacquire>>

(* POSIX lets pthread_cond_wait return without a signal.                   *)
spurious_wakeup(t) == /\ pc[t] = "waiting"
                      /\ pc' = [pc EXCEPT ![t] = "woken"]
                      /\ UNCHANGED <<locks, lh, nacquire, clt, lid, ret, r>>

(* dispatch has taken the handler's result: the thread is free again.      *)
finish(t) == /\ pc[t] = "returned"
             /\ pc' = [pc EXCEPT ![t] = "idle"]
             /\ clt' = [clt EXCEPT ![t] = NoClt]
             /\ lid' = [lid EXCEPT ![t] = NoLid]
             /\ ret' = [ret EXCEPT ![t] = "none"]
             /\ r' = [r EXCEPT ![t] = 0]
             /\ UNCHANGED <<locks, lh, nacquire>>

Call(t) == \E c \in Clients, l \in LockIds :
              acquire(t, c, l) \/ release(t, c, l) \/ stat(t, c, l)

Next == \E t \in Threads :
           Call(t) \/ acquire_resume(t) \/ spurious_wakeup(t) \/ finish(t)

Spec == Init /\ [][Next]_vars

(* A thread whose wait has ended is scheduled and gets the mutex, which no *)
(* handler keeps across a blocking call.                                   *)
FairSpec == Spec /\ \A t \in Threads : WF_vars(acquire_resume(t))
-----------------------------------------------------------------------------
(* The variables have the types lock_server.h gives them.                  *)
TypeOK == /\ locks \subseteq LockIds
          /\ lh \in [LockIds -> [state : {"FREE", "LOCKED"}, clt : Clients \cup {NoClt}]]
          /\ nacquire \in Int
          /\ pc \in [Threads -> PCs]
          /\ clt \in [Threads -> Clients \cup {NoClt}]
          /\ lid \in [Threads -> LockIds \cup {NoLid}]
          /\ ret \in [Threads -> Statuses]
          /\ r \in [Threads -> Int]

Held == {l \in LockIds : lh[l].state = "LOCKED"}

(* stat reports how many locks are held: acquire's ++ and release's --     *)
(* balance over every interleaving of handlers and every refused release,  *)
(* so the counter is never negative and never drifts.                      *)
NacquireCountsHeld == nacquire = Cardinality(Held)

(* release signals one waiter only, and the lock it frees may be taken by  *)
(* a newcomer before that waiter runs.  Still no wakeup is lost: when a    *)
(* lock is free and a thread waits for it, some thread has been woken and  *)
(* will test it.                                                           *)
NoLostWakeup == \A l \in LockIds :
                   lh[l].state = "FREE" /\ Waiters(l) # {} => Woken(l) # {}

(* A lock that is free while acquires are blocked on it gets an owner.     *)
FreeLockIsTaken == \A l \in LockIds :
    (lh[l].state = "FREE" /\ Waiters(l) \cup Woken(l) # {}) ~> (lh[l].state = "LOCKED")

(* A lock that is held is freed only by a call of release its holder made. *)
FreedByItsOwner == [][\A l \in LockIds :
    lh[l].clt # NoClt /\ lh'[l].clt = NoClt
    => \E t \in Threads : pc[t] = "idle" /\ clt'[t] = lh[l].clt /\ lid'[t] = l]_vars

-----------------------------------------------------------------------------
(* The lock server implements the abstract lock: at most one owner, no     *)
(* owner displaced by another, every grant to an acquire being served.     *)
ownerBar == [l \in LockIds |-> lh[l].clt]

wantBar == [t \in Threads |-> IF pc[t] \in {"waiting", "woken"}
                              THEN {<<clt[t], lid[t]>>} ELSE {}]

Abs == INSTANCE AbstractLock WITH owner <- ownerBar, want <- wantBar

ImplementsAbstractLock == Abs!ASpec
=============================================================================
