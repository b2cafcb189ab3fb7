---------------------------- MODULE AbstractLock ----------------------------
(***************************************************************************)
(* What the lock server promises, without its mutex, its condition         *)
(* variables or its bookkeeping: every lock has at most one owner, an      *)
(* owner is never replaced without the lock being freed first, and every   *)
(* grant answers one acquire that is being served.                         *)
(***************************************************************************)
CONSTANTS Threads,  \* the server threads that run handlers
          Clients,  \* client identities
          LockIds,  \* lock names
          NoClt     \* the owner of a lock nobody holds

VARIABLES owner,    \* owner[l]: the client that holds lock l, or NoClt
          want      \* want[t]: the acquire thread t is blocked on, {} or {<<c, l>>}

avars == <<owner, want>>

AInit == /\ owner = [l \in LockIds |-> NoClt]
         /\ want = [t \in Threads |-> {}]

(* An acquire that finds the lock free.                                    *)
Take(c, l) == /\ owner[l] = NoClt
              /\ owner' = [owner EXCEPT ![l] = c]
              /\ UNCHANGED want

(* An acquire that finds the lock held: thread t blocks.                   *)
Block(t, c, l) == /\ owner[l] # NoClt
                  /\ want[t] = {}
                  /\ want' = [want EXCEPT ![t] = {<<c, l>>}]
                  /\ UNCHANGED owner

(* A blocked acquire gets the lock once it is free.                        *)
Grant(t, c, l) == /\ want[t] = {<<c, l>>}
                  /\ owner[l] = NoClt
                  /\ owner' = [owner EXCEPT ![l] = c]
                  /\ want' = [want EXCEPT ![t] = {}]

(* The owner gives the lock up.                                            *)
Free(c, l) == /\ owner[l] = c
              /\ owner' = [owner EXCEPT ![l] = NoClt]
              /\ UNCHANGED want

ANext == \E c \in Clients, l \in LockIds :
            \/ Take(c, l)
            \/ Free(c, l)
            \/ \E t \in Threads : Block(t, c, l) \/ Grant(t, c, l)

ASpec == AInit /\ [][ANext]_avars
=============================================================================
