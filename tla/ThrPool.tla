------------------------------ MODULE ThrPool ------------------------------
(***************************************************************************)
(* ThrPool (thr_pool.cc) over its job queue fifo (fifo.h): threads that    *)
(* add jobs, worker threads that run them, and the destructor, which puts  *)
(* one poison pill per worker in the queue and joins the workers.          *)
(*                                                                         *)
(* enq and deq hold the queue's mutex except inside pthread_cond_wait, so  *)
(* a step is one stretch of code between two points where it is free.      *)
(* pthread_cond_signal wakes one waiter; a waiter may also wake unasked.   *)
(***************************************************************************)
EXTENDS Integers, Sequences, FiniteSets

CONSTANTS Workers,   \* th_
          Adders,    \* the threads that call addObjJob
          Dtor,      \* the thread that runs ~ThrPool
          Jobs,      \* each is added at most once
          Pill,      \* a job_t whose f is NULL
          max_       \* the queue's capacity: 100 * sz; 0 is unbounded

ASSUME MaxAssumption == max_ \in Nat

ASSUME PillAssumption == Pill \notin Jobs

ASSUME DtorAssumption == Dtor \notin Adders

(* The threads of a process.                                               *)
ASSUME FiniteThreads == IsFiniteSet(Workers) /\ IsFiniteSet(Adders)

VARIABLES blockadd_, \* addJob blocks when the queue is full; fixed when the pool is made
          q_,      \* the queue
          apc,     \* where each adder, and the destructor, is
          e,       \* the element it wants to put in the queue
          wpc, j,  \* where each worker is, and the job it runs
          todo,    \* jobs not added yet
          refused, \* jobs for which addJob returned false
          ran,     \* history: the jobs that have been run to the end, in order
          pills    \* how many pills the destructor has still to enqueue

vars == <<blockadd_, q_, apc, e, wpc, j, todo, refused, ran, pills>>

(* A thread in enq or deq is "waiting" in pthread_cond_wait or "woken" and *)
(* about to re-take the mutex.  A worker is "ready" to call takeJob,       *)
(* "running" a job, or has "exited".  The destructor goes from "idle" to   *)
(* "pilling", "joining" and "deleted".                                     *)
AdderPCs == {"idle", "waiting", "woken", "pilling", "joining", "deleted"}

WorkerPCs == {"ready", "waiting", "woken", "running", "exited"}

Init == /\ blockadd_ \in BOOLEAN
        /\ q_ = <<>>
        /\ apc = [a \in Adders \cup {Dtor} |-> "idle"]
        /\ e = [a \in Adders \cup {Dtor} |-> Pill]
        /\ wpc = [w \in Workers |-> "ready"]
        /\ j = [w \in Workers |-> Pill]
        /\ todo = Jobs
        /\ refused = {}
        /\ ran = <<>>
        /\ pills = Cardinality(Workers)

(* The states a condition variable's waiters may be in after a signal.     *)
Signal(pcs) == LET W == {t \in DOMAIN pcs : pcs[t] = "waiting"}
               IN  IF W = {} THEN {pcs} ELSE {[pcs EXCEPT ![t] = "woken"] : t \in W}

(* Mutant: one element too many.                                           *)
HasSpaceOneMore == max_ = 0 \/ Len(q_) <= max_

HasSpace == max_ = 0 \/ Len(q_) < max_

-----------------------------------------------------------------------------
(* Mutant: enq signals only when the queue was empty.                      *)
JobSignalIfEmpty == IF q_ = <<>> THEN Signal(wpc) ELSE {wpc}

(* What enq leaves behind when it signals non_empty_c_.                    *)
JobSignal == Signal(wpc)

(* One round of enq's loop by thread a with element x: next is where the   *)
(* thread goes on when enq has put x in the queue.                         *)
EnqPut(a, x, next) == /\ HasSpace
                      /\ q_' = Append(q_, x)
                      /\ wpc' \in JobSignal
                      /\ apc' = [apc EXCEPT ![a] = next]
                      /\ e' = [e EXCEPT ![a] = Pill]

EnqWait(a, x) == /\ ~HasSpace
                 /\ apc' = [apc EXCEPT ![a] = "waiting"]
                 /\ e' = [e EXCEPT ![a] = x]
                 /\ UNCHANGED <<q_, wpc>>

EnqRefuse(a) == /\ ~HasSpace
                /\ apc' = [apc EXCEPT ![a] = "idle"]
                /\ UNCHANGED <<q_, wpc, e>>

(* addJob: the caller must have stopped adding before ~ThrPool runs.       *)
addJob(a, x) == /\ apc[a] = "idle"
                /\ apc[Dtor] = "idle"
                /\ x \in todo
                /\ todo' = todo \ {x}
                /\ \/ EnqPut(a, x, "idle") /\ UNCHANGED refused
                   \/ blockadd_ /\ EnqWait(a, x) /\ UNCHANGED refused
                   \/ ~blockadd_ /\ EnqRefuse(a) /\ refused' = refused \cup {x}
                /\ UNCHANGED <<blockadd_, j, ran, pills>>

(* enq after pthread_cond_wait has re-taken the mutex.                     *)
addJob_resume(a) == /\ apc[a] = "woken"
                    /\ EnqPut(a, e[a], "idle") \/ EnqWait(a, e[a])
                    /\ UNCHANGED <<blockadd_, j, todo, refused, ran, pills>>

(* ~ThrPool may start when no adder is in addJob.                          *)
dtor_start == /\ apc = [a \in Adders \cup {Dtor} |-> "idle"]
              /\ apc' = [apc EXCEPT ![Dtor] = IF pills = 0 THEN "joining" ELSE "pilling"]
              /\ UNCHANGED <<blockadd_, q_, e, wpc, j, todo, refused, ran, pills>>

(* Mutant: one pill too few.                                               *)
dtor_pillOneShort ==
    /\ apc[Dtor] \in {"pilling", "woken"}
    /\ \/ /\ EnqPut(Dtor, Pill, IF pills <= 2 THEN "joining" ELSE "pilling")
          /\ pills' = pills - 1
       \/ EnqWait(Dtor, Pill) /\ UNCHANGED pills
    /\ UNCHANGED <<blockadd_, j, todo, refused, ran>>

(* The next of its enq(pill), which blocks whatever blockadd_ is.          *)
dtor_pill == /\ apc[Dtor] \in {"pilling", "woken"}
             /\ \/ /\ EnqPut(Dtor, Pill, IF pills = 1 THEN "joining" ELSE "pilling")
                   /\ pills' = pills - 1
                \/ EnqWait(Dtor, Pill) /\ UNCHANGED pills
             /\ UNCHANGED <<blockadd_, j, todo, refused, ran>>

(* pthread_join of every worker.                                           *)
dtor_join == /\ apc[Dtor] = "joining"
             /\ \A w \in Workers : wpc[w] = "exited"
             /\ apc' = [apc EXCEPT ![Dtor] = "deleted"]
             /\ UNCHANGED <<blockadd_, q_, e, wpc, j, todo, refused, ran, pills>>

-----------------------------------------------------------------------------
(* Mutant: deq does not signal has_space_c_.                               *)
SpaceSignalDropped == {apc}

(* What deq leaves behind when it signals has_space_c_.                    *)
SpaceSignal == IF max_ # 0 /\ Len(q_) - 1 < max_ THEN Signal(apc) ELSE {apc}

(* Mutant: the newest element is taken first.                              *)
DeqTakeLast(w) == /\ q_ # <<>>
                  /\ j' = [j EXCEPT ![w] = q_[Len(q_)]]
                  /\ q_' = SubSeq(q_, 1, Len(q_) - 1)
                  /\ apc' \in SpaceSignal
                  /\ wpc' = [wpc EXCEPT ![w] = IF q_[Len(q_)] = Pill THEN "exited" ELSE "running"]

(* Mutant: the element is read but not removed.                            *)
DeqTakeKept(w) == /\ q_ # <<>>
                  /\ j' = [j EXCEPT ![w] = Head(q_)]
                  /\ apc' \in SpaceSignal
                  /\ wpc' = [wpc EXCEPT ![w] = IF Head(q_) = Pill THEN "exited" ELSE "running"]
                  /\ UNCHANGED q_

(* One round of deq's loop: take the front and, in do_worker, run it or    *)
(* exit if it is a pill.                                                   *)
DeqTake(w) == /\ q_ # <<>>
              /\ j' = [j EXCEPT ![w] = Head(q_)]
              /\ q_' = Tail(q_)
              /\ apc' \in SpaceSignal
              /\ wpc' = [wpc EXCEPT ![w] = IF Head(q_) = Pill THEN "exited" ELSE "running"]

DeqWait(w) == /\ q_ = <<>>
              /\ wpc' = [wpc EXCEPT ![w] = "waiting"]
              /\ UNCHANGED <<q_, j, apc>>

takeJob(w) == /\ wpc[w] \in {"ready", "woken"}
              /\ DeqTake(w) \/ DeqWait(w)
              /\ UNCHANGED <<blockadd_, e, todo, refused, ran, pills>>

(* The job returns.                                                        *)
do_worker(w) == /\ wpc[w] = "running"
                /\ ran' = Append(ran, j[w])
                /\ wpc' = [wpc EXCEPT ![w] = "ready"]
                /\ j' = [j EXCEPT ![w] = Pill]
                /\ UNCHANGED <<blockadd_, q_, apc, e, todo, refused, pills>>

(* POSIX lets pthread_cond_wait return without a signal.                   *)
spurious_wakeup == /\ \/ \E w \in Workers : wpc[w] = "waiting" /\ wpc' = [wpc EXCEPT ![w] = "woken"]
                            /\ UNCHANGED apc
                      \/ \E a \in Adders \cup {Dtor} :
                            apc[a] = "waiting" /\ apc' = [apc EXCEPT ![a] = "woken"]
                            /\ UNCHANGED wpc
                   /\ UNCHANGED <<blockadd_, q_, e, j, todo, refused, ran, pills>>

Next == \/ \E a \in Adders : addJob_resume(a) \/ \E x \in Jobs : addJob(a, x)
        \/ dtor_start \/ dtor_pill \/ dtor_join
        \/ \E w \in Workers : takeJob(w) \/ do_worker(w)
        \/ spurious_wakeup

Spec == Init /\ [][Next]_vars

(* Threads are scheduled, get the mutex, and every job returns.            *)
FairSpec == /\ Spec
            /\ \A w \in Workers : WF_vars(takeJob(w)) /\ WF_vars(do_worker(w))
            /\ \A a \in Adders : WF_vars(addJob_resume(a))
            /\ WF_vars(dtor_pill)
            /\ WF_vars(dtor_join)
-----------------------------------------------------------------------------
(* The variables have the types of thr_pool.h and fifo.h.                  *)
TypeOK == /\ blockadd_ \in BOOLEAN
          /\ q_ \in Seq(Jobs \cup {Pill})
          /\ max_ # 0 => Len(q_) <= max_
          /\ apc \in [Adders \cup {Dtor} -> AdderPCs]
          /\ e \in [Adders \cup {Dtor} -> Jobs \cup {Pill}]
          /\ wpc \in [Workers -> WorkerPCs]
          /\ j \in [Workers -> Jobs \cup {Pill}]
          /\ todo \in SUBSET Jobs
          /\ refused \in SUBSET Jobs
          /\ ran \in Seq(Jobs)
          /\ pills \in 0 .. Cardinality(Workers)

(* How often job x is in the pool's hands or has left them.                *)
Places(x) == Cardinality({i \in DOMAIN q_ : q_[i] = x})
             + Cardinality({a \in Adders : apc[a] \in {"waiting", "woken"} /\ e[a] = x})
             + Cardinality({w \in Workers : wpc[w] = "running" /\ j[w] = x})
             + Cardinality({i \in DOMAIN ran : ran[i] = x})

(* A job that addJob accepted is queued, running or run, once; one that it *)
(* refused never runs.                                                     *)
JobsConserved == \A x \in Jobs : Places(x) = IF x \in todo \cup refused THEN 0 ELSE 1

(* The pills go last: a worker that exits leaves no job behind.            *)
NoJobBehindPill ==
    /\ \A i, k \in DOMAIN q_ : i < k /\ q_[i] = Pill => q_[k] = Pill
    /\ (\E w \in Workers : wpc[w] = "exited") => \A i \in DOMAIN q_ : q_[i] = Pill

Awake(pcs, S) == {t \in DOMAIN pcs : pcs[t] \in S}

(* No lost wakeup in deq: while a worker sleeps on non_empty_c_, every     *)
(* queued job has a worker of its own that is awake to take it, so one     *)
(* blocked handler never holds up a job another thread could run.          *)
QueuedJobsHaveWorkers ==
    Awake(wpc, {"waiting"}) # {} => Len(q_) <= Cardinality(Awake(wpc, {"ready", "woken"}))

(* No lost wakeup in enq: while a thread sleeps on has_space_c_, every     *)
(* free place in the queue has a woken thread to fill it.                  *)
FreePlacesHaveAdders ==
    Awake(apc, {"waiting"}) # {} => max_ - Len(q_) <= Cardinality(Awake(apc, {"woken"}))

(* One signal for each element enq puts in and for each deq takes out is   *)
(* enough, whichever threads come first and whatever wakes up by itself.   *)
NoLostWakeup == QueuedJobsHaveWorkers /\ FreePlacesHaveAdders

(* ~ThrPool ends once the jobs it finds have been run.                     *)
DtorTerminates == (apc[Dtor] = "pilling") ~> (apc[Dtor] = "deleted")

(* A job that was accepted is run.                                         *)
AcceptedJobsRun == \A x \in Jobs : (x \notin todo \cup refused) ~> (\E i \in DOMAIN ran : ran[i] = x)
=============================================================================
