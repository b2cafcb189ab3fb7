--------------------------- MODULE ThrPoolProofs ---------------------------
(***************************************************************************)
(* Theorems about ThrPool for any finite sets of workers and adders, any   *)
(* jobs and any capacity.  The inductive invariant adds to the type        *)
(* invariant where adders and destructor can be and what they, the workers *)
(* and the queue hold then.                                                *)
(***************************************************************************)
EXTENDS ThrPool, Counting

(* The adders use addJob and nothing else; the destructor has a pill left  *)
(* for as long as it enqueues.                                             *)
AdderStates == /\ \A a \in Adders : apc[a] \in {"idle", "waiting", "woken"}
               /\ apc[Dtor] \in {"pilling", "waiting", "woken"} => pills > 0

(* ~ThrPool's comment: no adder is in addJob once it has started.          *)
DtorIsAlone == apc[Dtor] # "idle" => \A a \in Adders : apc[a] = "idle"

(* A blocked adder keeps its job, and a busy worker runs one.              *)
HandsHoldJobs == /\ \A a \in Adders : apc[a] \in {"waiting", "woken"} => e[a] \in Jobs
                 /\ \A w \in Workers : wpc[w] = "running" => j[w] \in Jobs

(* Only the destructor makes pills.                                        *)
PillsFromDtor == \/ apc[Dtor] # "idle"
                 \/ /\ \A i \in DOMAIN q_ : q_[i] # Pill
                    /\ \A w \in Workers : wpc[w] # "exited"

IInv == TypeOK /\ AdderStates /\ DtorIsAlone /\ HandsHoldJobs /\ PillsFromDtor /\ NoJobBehindPill

All == Adders \cup {Dtor}

Elements == Jobs \cup {Pill}

-----------------------------------------------------------------------------
(* pthread_cond_signal wakes one thread that waits, if there is one.       *)
LEMMA SignalWakes ==
    ASSUME NEW T, NEW P, "woken" \in P, NEW pcs \in [T -> P], NEW p \in Signal(pcs)
    PROVE  /\ p \in [T -> P]
           /\ \A t \in T : p[t] = pcs[t] \/ (pcs[t] = "waiting" /\ p[t] = "woken")
           /\ \/ p = pcs /\ Awake(pcs, {"waiting"}) = {}
              \/ \E t \in T : pcs[t] = "waiting" /\ p = [pcs EXCEPT ![t] = "woken"]
<1>1. CASE Awake(pcs, {"waiting"}) = {}
  BY <1>1 DEF Signal, Awake
<1>2. CASE Awake(pcs, {"waiting"}) # {}
  <2>1. PICK t \in T : pcs[t] = "waiting" /\ p = [pcs EXCEPT ![t] = "woken"]
    BY <1>2 DEF Signal, Awake
  <2> QED BY <2>1
<1> QED BY <1>1, <1>2

(* A signal on non_empty_c_ wakes one waiting worker, if there is one.     *)
LEMMA JobSignalWakes ==
    ASSUME TypeOK, NEW p \in JobSignal
    PROVE  /\ p \in [Workers -> WorkerPCs]
           /\ \A w \in Workers : p[w] = wpc[w] \/ (wpc[w] = "waiting" /\ p[w] = "woken")
           /\ \/ p = wpc /\ Awake(wpc, {"waiting"}) = {}
              \/ \E w \in Workers : wpc[w] = "waiting" /\ p = [wpc EXCEPT ![w] = "woken"]
<1>1. wpc \in [Workers -> WorkerPCs] /\ "woken" \in WorkerPCs /\ p \in Signal(wpc)
  BY DEF JobSignal, TypeOK, WorkerPCs
<1> QED BY <1>1, SignalWakes

(* A signal on has_space_c_ wakes one waiting adder, if there is one.      *)
LEMMA SpaceSignalWakes ==
    ASSUME TypeOK, NEW p \in SpaceSignal
    PROVE  /\ p \in [All -> AdderPCs]
           /\ \A a \in All : p[a] = apc[a] \/ (apc[a] = "waiting" /\ p[a] = "woken")
           /\ \/ p = apc /\ (max_ = 0 \/ Awake(apc, {"waiting"}) = {})
              \/ \E a \in All : apc[a] = "waiting" /\ p = [apc EXCEPT ![a] = "woken"]
<1>1. max_ # 0 => Len(q_) - 1 < max_
  BY MaxAssumption, LenProperties DEF TypeOK
<1>2. apc \in [All -> AdderPCs] /\ "woken" \in AdderPCs
  BY DEF TypeOK, AdderPCs, All
<1>3. CASE max_ = 0
  BY <1>2, <1>3 DEF SpaceSignal
<1>4. CASE max_ # 0
  <2>1. p \in Signal(apc)
    BY <1>1, <1>4 DEF SpaceSignal
  <2> QED BY <1>2, <2>1, SignalWakes
<1> QED BY <1>3, <1>4

(* The step relation split into one disjunct per stretch of code.          *)
LEMMA NextCases ==
    ASSUME [Next]_vars
    PROVE  \/ \E a \in Adders, x \in Jobs : addJob(a, x)
           \/ \E a \in Adders : addJob_resume(a)
           \/ dtor_start \/ dtor_pill \/ dtor_join
           \/ \E w \in Workers : takeJob(w) /\ DeqTake(w)
           \/ \E w \in Workers : takeJob(w) /\ DeqWait(w)
           \/ \E w \in Workers : do_worker(w)
           \/ spurious_wakeup
           \/ UNCHANGED vars
  BY DEF Next, takeJob

(* Appending x keeps the queue typed and within its capacity.              *)
LEMMA PutTypes ==
    ASSUME TypeOK, HasSpace, NEW x \in Elements
    PROVE  /\ Append(q_, x) \in Seq(Elements)
           /\ Len(Append(q_, x)) = Len(q_) + 1
           /\ max_ # 0 => Len(Append(q_, x)) <= max_
           /\ DOMAIN Append(q_, x) = 1 .. Len(q_) + 1
           /\ DOMAIN q_ = 1 .. Len(q_)
           /\ \A i \in 1 .. Len(q_) : Append(q_, x)[i] = q_[i]
           /\ Append(q_, x)[Len(q_) + 1] = x
           /\ Len(q_) \in Nat
<1>1. q_ \in Seq(Elements) /\ Len(q_) \in Nat /\ DOMAIN q_ = 1 .. Len(q_)
  BY LenProperties DEF TypeOK, Elements
<1>2. max_ # 0 => Len(q_) + 1 <= max_
  BY <1>1, MaxAssumption DEF HasSpace
<1>3. Append(q_, x) \in Seq(Elements) /\ Len(Append(q_, x)) = Len(q_) + 1
  BY <1>1, AppendProperties
<1>4. DOMAIN Append(q_, x) = 1 .. Len(q_) + 1
  BY <1>3, LenProperties
<1>5. Append(q_, x)[Len(q_) + 1] = x /\ \A i \in 1 .. Len(q_) : Append(q_, x)[i] = q_[i]
  BY <1>1, AppendProperties
<1> QED BY <1>1, <1>2, <1>3, <1>4, <1>5

(* Taking the front keeps it typed and within its capacity.                *)
LEMMA TakeTypes ==
    ASSUME TypeOK, q_ # <<>>
    PROVE  /\ Head(q_) \in Elements /\ Head(q_) = q_[1] /\ 1 \in DOMAIN q_
           /\ Tail(q_) \in Seq(Elements)
           /\ Len(Tail(q_)) = Len(q_) - 1
           /\ max_ # 0 => Len(Tail(q_)) <= max_
           /\ DOMAIN Tail(q_) = 1 .. Len(q_) - 1
           /\ DOMAIN q_ = 1 .. Len(q_)
           /\ \A i \in 1 .. Len(q_) - 1 : Tail(q_)[i] = q_[i + 1]
           /\ Len(q_) \in Nat /\ Len(q_) > 0
<1>1. q_ \in Seq(Elements) /\ Len(q_) \in Nat /\ DOMAIN q_ = 1 .. Len(q_) /\ Len(q_) > 0
  BY LenProperties, EmptySeq DEF TypeOK, Elements
<1>2. Head(q_) \in Elements /\ Tail(q_) \in Seq(Elements) /\ Len(Tail(q_)) = Len(q_) - 1
  BY <1>1, HeadTailProperties
<1>3. \A i \in 1 .. Len(q_) - 1 : Tail(q_)[i] = q_[i + 1]
  BY <1>1, <1>2, HeadTailProperties
<1>4. DOMAIN Tail(q_) = 1 .. Len(q_) - 1
  BY <1>2, LenProperties
<1>5. max_ # 0 => Len(Tail(q_)) <= max_
  BY <1>1, <1>2, MaxAssumption DEF TypeOK
<1>6. Head(q_) = q_[1] /\ 1 \in DOMAIN q_
  BY <1>1
<1> QED BY <1>1, <1>2, <1>3, <1>4, <1>5, <1>6
-----------------------------------------------------------------------------
(* The inductive invariant holds when the pool is made.                    *)
LEMMA InitIInv == Init => IInv
<1> SUFFICES ASSUME Init PROVE IInv
  OBVIOUS
<1>1. Cardinality(Workers) \in Nat
  BY FiniteThreads, FS_CardinalityType
<1>2. q_ = <<>> /\ DOMAIN q_ = {} /\ Len(q_) = 0 /\ q_ \in Seq(Jobs \cup {Pill}) /\ ran \in Seq(Jobs)
  BY EmptySeq DEF Init
<1> QED
  BY <1>1, <1>2, MaxAssumption
     DEF Init, IInv, TypeOK, AdderStates, DtorIsAlone, HandsHoldJobs, PillsFromDtor,
         NoJobBehindPill, AdderPCs, WorkerPCs

(* enq of a job by an adder that found space: the destructor is idle.      *)
LEMMA PutJob ==
    ASSUME IInv, NEW a \in Adders, NEW x \in Jobs,
           apc[Dtor] = "idle", EnqPut(a, x, "idle"),
           todo' \in SUBSET Jobs, UNCHANGED <<blockadd_, j, refused, ran, pills>>
    PROVE  IInv'
<1> USE DtorAssumption, PillAssumption DEF IInv, EnqPut
<1>1. wpc' \in [Workers -> WorkerPCs]
      /\ \A w \in Workers : wpc'[w] = wpc[w] \/ (wpc[w] = "waiting" /\ wpc'[w] = "woken")
  BY JobSignalWakes
<1>2. TypeOK'
  BY <1>1, PutTypes DEF TypeOK, AdderPCs, Elements
<1>3. AdderStates' /\ DtorIsAlone'
  BY DEF TypeOK, AdderStates, DtorIsAlone
<1>4. HandsHoldJobs'
  BY <1>1 DEF TypeOK, HandsHoldJobs
<1>5. PillsFromDtor' /\ NoJobBehindPill'
  BY <1>1, PutTypes DEF TypeOK, PillsFromDtor, NoJobBehindPill, Elements
<1> QED BY <1>2, <1>3, <1>4, <1>5

(* Every step preserves the inductive invariant.                           *)
LEMMA NextIInv == IInv /\ [Next]_vars => IInv'
<1> SUFFICES ASSUME IInv, [Next]_vars PROVE IInv'
  OBVIOUS
<1> USE DtorAssumption, PillAssumption
<1>1. ASSUME NEW a \in Adders, NEW x \in Jobs, addJob(a, x)
      PROVE  IInv'
  <2>1. CASE EnqPut(a, x, "idle") /\ UNCHANGED refused
    BY <1>1, <2>1, PutJob DEF addJob, IInv, TypeOK
  <2>2. CASE EnqWait(a, x) /\ UNCHANGED refused
    BY <1>1, <2>2 DEF addJob, EnqWait, IInv, TypeOK, AdderStates, DtorIsAlone, HandsHoldJobs,
                      PillsFromDtor, NoJobBehindPill, AdderPCs
  <2>3. CASE EnqRefuse(a) /\ refused' = refused \cup {x}
    BY <1>1, <2>3 DEF addJob, EnqRefuse, IInv, TypeOK, AdderStates, DtorIsAlone, HandsHoldJobs,
                      PillsFromDtor, NoJobBehindPill, AdderPCs
  <2> QED BY <1>1, <2>1, <2>2, <2>3 DEF addJob
<1>2. ASSUME NEW a \in Adders, addJob_resume(a)
      PROVE  IInv'
  <2>1. e[a] \in Jobs /\ apc[Dtor] = "idle"
    BY <1>2 DEF addJob_resume, IInv, HandsHoldJobs, DtorIsAlone
  <2>2. CASE EnqPut(a, e[a], "idle")
    BY <1>2, <2>1, <2>2, PutJob DEF addJob_resume, IInv, TypeOK
  <2>3. CASE EnqWait(a, e[a])
    BY <1>2, <2>1, <2>3 DEF addJob_resume, EnqWait, IInv, TypeOK, AdderStates, DtorIsAlone,
                            HandsHoldJobs, PillsFromDtor, NoJobBehindPill, AdderPCs
  <2> QED BY <1>2, <2>2, <2>3 DEF addJob_resume
<1>3. CASE dtor_start
  BY <1>3 DEF dtor_start, IInv, TypeOK, AdderStates, DtorIsAlone, HandsHoldJobs, PillsFromDtor,
              NoJobBehindPill, AdderPCs
<1>4. CASE dtor_pill
  <2>1. Cardinality(Workers) \in Nat
    BY FiniteThreads, FS_CardinalityType
  <2>2. CASE EnqWait(Dtor, Pill) /\ UNCHANGED pills
    BY <1>4, <2>2 DEF dtor_pill, EnqWait, IInv, TypeOK, AdderStates, DtorIsAlone, HandsHoldJobs,
                      PillsFromDtor, NoJobBehindPill, AdderPCs
  <2>3. CASE /\ EnqPut(Dtor, Pill, IF pills = 1 THEN "joining" ELSE "pilling")
             /\ pills' = pills - 1
    <3> USE <1>4, <2>3 DEF IInv, dtor_pill, EnqPut
    <3>1. wpc' \in [Workers -> WorkerPCs]
          /\ \A w \in Workers : wpc'[w] = wpc[w] \/ (wpc[w] = "waiting" /\ wpc'[w] = "woken")
      BY JobSignalWakes
    <3>2. TypeOK'
      BY <2>1, <3>1, PutTypes DEF TypeOK, AdderStates, AdderPCs, Elements
    <3>3. AdderStates' /\ DtorIsAlone'
      BY <2>1 DEF TypeOK, AdderStates, DtorIsAlone
    <3>4. HandsHoldJobs'
      BY <3>1 DEF TypeOK, HandsHoldJobs
    <3>5. PillsFromDtor' /\ NoJobBehindPill'
      BY <3>1, PutTypes DEF TypeOK, PillsFromDtor, NoJobBehindPill, Elements
    <3> QED BY <3>2, <3>3, <3>4, <3>5
  <2> QED BY <1>4, <2>2, <2>3 DEF dtor_pill
<1>5. CASE dtor_join
  BY <1>5 DEF dtor_join, IInv, TypeOK, AdderStates, DtorIsAlone, HandsHoldJobs, PillsFromDtor,
              NoJobBehindPill, AdderPCs
<1>6. ASSUME NEW w \in Workers, takeJob(w), DeqTake(w)
      PROVE  IInv'
  <2> USE <1>6 DEF IInv, takeJob, DeqTake
  <2>1. apc' \in [All -> AdderPCs]
        /\ \A a \in All : apc'[a] = apc[a] \/ (apc[a] = "waiting" /\ apc'[a] = "woken")
    BY SpaceSignalWakes
  <2>2. TypeOK'
    BY <2>1, TakeTypes DEF TypeOK, WorkerPCs, Elements, All
  <2>3. AdderStates' /\ DtorIsAlone'
    BY <2>1 DEF TypeOK, AdderStates, DtorIsAlone, All
  <2>4. HandsHoldJobs'
    BY <2>1, TakeTypes DEF TypeOK, HandsHoldJobs, Elements, All
  <2>5. NoJobBehindPill'
    BY TakeTypes DEF TypeOK, NoJobBehindPill
  <2>6. PillsFromDtor'
    BY <2>1, TakeTypes DEF TypeOK, PillsFromDtor, All
  <2> QED BY <2>2, <2>3, <2>4, <2>5, <2>6
<1>7. ASSUME NEW w \in Workers, takeJob(w), DeqWait(w)
      PROVE  IInv'
  BY <1>7 DEF takeJob, DeqWait, IInv, TypeOK, AdderStates, DtorIsAlone, HandsHoldJobs,
              PillsFromDtor, NoJobBehindPill, WorkerPCs
<1>8. ASSUME NEW w \in Workers, do_worker(w)
      PROVE  IInv'
  <2>1. Append(ran, j[w]) \in Seq(Jobs)
    BY <1>8, AppendProperties DEF do_worker, IInv, TypeOK, HandsHoldJobs
  <2> QED
    BY <1>8, <2>1 DEF do_worker, IInv, TypeOK, AdderStates, DtorIsAlone, HandsHoldJobs,
                      PillsFromDtor, NoJobBehindPill, WorkerPCs
<1>9. CASE spurious_wakeup
  BY <1>9 DEF spurious_wakeup, IInv, TypeOK, AdderStates, DtorIsAlone, HandsHoldJobs,
              PillsFromDtor, NoJobBehindPill, AdderPCs, WorkerPCs
<1>10. CASE UNCHANGED vars
  BY <1>10 DEF vars, IInv, TypeOK, AdderStates, DtorIsAlone, HandsHoldJobs, PillsFromDtor,
               NoJobBehindPill
<1> QED
  BY <1>1, <1>2, <1>3, <1>4, <1>5, <1>6, <1>7, <1>8, <1>9, <1>10, NextCases

(* The pool's variables keep their types, and the queue its capacity.      *)
THEOREM TypeCorrect == Spec => []TypeOK
<1>1. IInv => TypeOK
  BY DEF IInv
<1> QED
  BY <1>1, InitIInv, NextIInv, PTL DEF Spec

(* However many jobs and workers there are, the pills go last.             *)
THEOREM PillsGoLast == Spec => []NoJobBehindPill
<1>1. IInv => NoJobBehindPill
  BY DEF IInv
<1> QED
  BY <1>1, InitIInv, NextIInv, PTL DEF Spec

-----------------------------------------------------------------------------
(* The workers that can take a job, when one worker's state changes.       *)
LEMMA ReadyWorkers ==
    ASSUME TypeOK, NEW w \in Workers, NEW v \in WorkerPCs, wpc' = [wpc EXCEPT ![w] = v]
    PROVE  LET n == Cardinality(Awake(wpc, {"ready", "woken"}))
               m == Cardinality(Awake(wpc', {"ready", "woken"}))
           IN  /\ n \in Nat /\ m \in Nat
               /\ wpc[w] \notin {"ready", "woken"} /\ v \in {"ready", "woken"} => m = n + 1
               /\ wpc[w] \in {"ready", "woken"} /\ v \notin {"ready", "woken"} => m = n - 1
<1> DEFINE A == Awake(wpc, {"ready", "woken"})
           B == Awake(wpc', {"ready", "woken"})
<1>1. A \subseteq Workers /\ B \subseteq Workers /\ A \ {w} = B \ {w}
  BY DEF TypeOK, Awake
<1>2. (w \in A <=> wpc[w] \in {"ready", "woken"}) /\ (w \in B <=> v \in {"ready", "woken"})
  BY DEF TypeOK, Awake
<1> HIDE DEF A, B
<1>3. /\ Cardinality(A) \in Nat /\ Cardinality(B) \in Nat
      /\ w \notin A /\ w \in B => Cardinality(B) = Cardinality(A) + 1
      /\ w \in A /\ w \notin B => Cardinality(B) = Cardinality(A) - 1
  BY <1>1, FiniteThreads, OneMoreOrLess
<1> QED BY <1>2, <1>3 DEF A, B

(* The threads about to try enq again, when one thread's state changes.    *)
LEMMA WokenAdders ==
    ASSUME TypeOK, NEW a \in All, NEW v \in AdderPCs, apc' = [apc EXCEPT ![a] = v]
    PROVE  LET n == Cardinality(Awake(apc, {"woken"}))
               m == Cardinality(Awake(apc', {"woken"}))
           IN  /\ n \in Nat /\ m \in Nat
               /\ apc[a] # "woken" /\ v = "woken" => m = n + 1
               /\ apc[a] = "woken" /\ v # "woken" => m = n - 1
               /\ (apc[a] = "woken" <=> v = "woken") => m = n
<1> DEFINE A == Awake(apc, {"woken"})
           B == Awake(apc', {"woken"})
<1>1. A \subseteq All /\ B \subseteq All /\ A \ {a} = B \ {a}
  BY DEF TypeOK, Awake, All
<1>2. (a \in A <=> apc[a] = "woken") /\ (a \in B <=> v = "woken")
  BY DEF TypeOK, Awake, All
<1>3. IsFiniteSet(All)
  BY FiniteThreads, FS_AddElement DEF All
<1> HIDE DEF A, B
<1>4. /\ Cardinality(A) \in Nat /\ Cardinality(B) \in Nat
      /\ a \notin A /\ a \in B => Cardinality(B) = Cardinality(A) + 1
      /\ a \in A /\ a \notin B => Cardinality(B) = Cardinality(A) - 1
      /\ (a \in A <=> a \in B) => Cardinality(B) = Cardinality(A)
  BY <1>1, <1>3, OneMoreOrLess
<1> QED BY <1>2, <1>4 DEF A, B

(* enq signals once for the element it puts in the queue.                  *)
LEMMA PutKeepsWorkers ==
    ASSUME TypeOK, QueuedJobsHaveWorkers, wpc' \in JobSignal,
           Len(q_') = Len(q_) + 1, Len(q_) \in Nat
    PROVE  QueuedJobsHaveWorkers'
<1>1. CASE wpc' = wpc /\ Awake(wpc, {"waiting"}) = {}
  BY <1>1 DEF QueuedJobsHaveWorkers
<1>2. ASSUME NEW w \in Workers, wpc[w] = "waiting", wpc' = [wpc EXCEPT ![w] = "woken"]
      PROVE  QueuedJobsHaveWorkers'
  <2> DEFINE n == Cardinality(Awake(wpc, {"ready", "woken"}))
  <2>1. Cardinality(Awake(wpc', {"ready", "woken"})) = n + 1 /\ n \in Nat
    BY <1>2, ReadyWorkers DEF WorkerPCs
  <2>2. w \in Awake(wpc, {"waiting"})
    BY <1>2 DEF Awake, TypeOK
  <2>3. Len(q_) <= n
    BY <2>2 DEF QueuedJobsHaveWorkers
  <2>4. Len(q_') <= Cardinality(Awake(wpc', {"ready", "woken"}))
    BY <2>1, <2>3
  <2> QED BY <2>4 DEF QueuedJobsHaveWorkers
<1> QED BY <1>1, <1>2, JobSignalWakes

(* A woken thread that fills a place is no longer needed for it, and one   *)
(* that finds none sleeps while there is none.                             *)
LEMMA EnqKeepsAdders ==
    ASSUME TypeOK, FreePlacesHaveAdders, NEW a \in All,
           NEW pc2 \in AdderPCs \ {"waiting", "woken"}, NEW x \in Elements,
           apc[a] # "waiting",
           \/ EnqPut(a, x, pc2) \/ EnqWait(a, x)
    PROVE  FreePlacesHaveAdders'
<1> DEFINE n == Cardinality(Awake(apc, {"woken"}))
           m == Cardinality(Awake(apc', {"woken"}))
<1>1. IsFiniteSet(All)
  BY FiniteThreads, FS_AddElement DEF All
<1>2. apc \in [All -> AdderPCs] /\ Len(q_) \in Nat
  BY LenProperties DEF TypeOK, All
<1>3. CASE EnqPut(a, x, pc2)
  <2>0. apc' = [apc EXCEPT ![a] = pc2] /\ pc2 \in AdderPCs /\ pc2 # "woken"
    BY <1>3 DEF EnqPut
  <2>1. n \in Nat /\ m >= n - 1 /\ m \in Nat
    <3>1. CASE apc[a] = "woken"
      <4>1. n \in Nat /\ m \in Nat /\ m = n - 1
        BY <2>0, <3>1, WokenAdders
      <4> HIDE DEF n, m
      <4> QED BY <4>1
    <3>2. CASE apc[a] # "woken"
      <4>1. n \in Nat /\ m = n
        BY <2>0, <3>2, WokenAdders
      <4> HIDE DEF n, m
      <4> QED BY <4>1
    <3> QED BY <3>1, <3>2
  <2>2. Len(q_') = Len(q_) + 1
    BY <1>3, PutTypes DEF EnqPut
  <2>3. Awake(apc', {"waiting"}) = Awake(apc, {"waiting"})
    BY <1>2, <1>3 DEF EnqPut, Awake
  <2>4. Awake(apc, {"waiting"}) # {} => max_ - Len(q_') <= m
    BY <1>2, <2>1, <2>2, MaxAssumption DEF FreePlacesHaveAdders
  <2> QED BY <2>3, <2>4 DEF FreePlacesHaveAdders
<1>4. CASE EnqWait(a, x)
  <2>1. m \in Nat
    <3>1. Awake(apc', {"woken"}) \in SUBSET All
      BY <1>2, <1>4 DEF EnqWait, Awake
    <3> QED BY <1>1, <3>1, FS_Subset, FS_CardinalityType
  <2>2. max_ - Len(q_') <= 0
    BY <1>2, <1>4, MaxAssumption DEF EnqWait, HasSpace
  <2>3. max_ - Len(q_') <= m
    BY <1>2, <1>4, <2>1, <2>2, MaxAssumption DEF EnqWait
  <2> QED BY <2>3 DEF FreePlacesHaveAdders
<1> QED BY <1>3, <1>4

(* No step loses a wakeup on either condition variable.                    *)
LEMMA NextNoLostWakeup == IInv /\ NoLostWakeup /\ [Next]_vars => NoLostWakeup'
<1> SUFFICES ASSUME IInv, NoLostWakeup, [Next]_vars PROVE NoLostWakeup'
  OBVIOUS
<1>0. TypeOK /\ QueuedJobsHaveWorkers /\ FreePlacesHaveAdders
  BY DEF IInv, NoLostWakeup
<1>q. Len(q_) \in Nat
  BY <1>0, LenProperties DEF TypeOK
<1>a. ASSUME NEW a \in All, NEW x \in Elements, apc[a] # "waiting",
             NEW pc2 \in AdderPCs \ {"waiting", "woken"},
             EnqPut(a, x, pc2) \/ EnqWait(a, x)
      PROVE  NoLostWakeup'
  <2>1. FreePlacesHaveAdders'
    BY <1>0, <1>a, EnqKeepsAdders
  <2>2. CASE EnqPut(a, x, pc2)
    <3>1. Len(q_') = Len(q_) + 1
      BY <1>0, <2>2, PutTypes DEF EnqPut
    <3> QED BY <1>0, <1>q, <2>1, <2>2, <3>1, PutKeepsWorkers DEF EnqPut, NoLostWakeup
  <2>3. CASE EnqWait(a, x)
    BY <1>0, <2>1, <2>3 DEF EnqWait, NoLostWakeup, QueuedJobsHaveWorkers
  <2> QED BY <1>a, <2>2, <2>3
<1>1. ASSUME NEW a \in Adders, NEW x \in Jobs, addJob(a, x)
      PROVE  NoLostWakeup'
  <2>1. CASE EnqPut(a, x, "idle") \/ EnqWait(a, x)
    BY <1>1, <1>a, <2>1 DEF addJob, All, Elements, AdderPCs
  <2>2. CASE EnqRefuse(a)
    <3>1. apc' = apc
      BY <1>0, <1>1, <2>2 DEF addJob, EnqRefuse, TypeOK
    <3> QED
      BY <1>0, <2>2, <3>1 DEF EnqRefuse, NoLostWakeup, QueuedJobsHaveWorkers, FreePlacesHaveAdders
  <2> QED BY <1>1, <2>1, <2>2 DEF addJob
<1>2. ASSUME NEW a \in Adders, addJob_resume(a)
      PROVE  NoLostWakeup'
  <2>1. a \in All /\ e[a] \in Elements /\ apc[a] # "waiting"
    BY <1>0, <1>2 DEF addJob_resume, All, Elements, TypeOK
  <2>2. "idle" \in AdderPCs \ {"waiting", "woken"}
    BY DEF AdderPCs
  <2>3. EnqPut(a, e[a], "idle") \/ EnqWait(a, e[a])
    BY <1>2 DEF addJob_resume
  <2> QED BY <1>a, <2>1, <2>2, <2>3
<1>3. CASE dtor_start
  <2>1. Awake(apc', {"waiting"}) = {}
    BY <1>0, <1>3 DEF dtor_start, Awake, TypeOK
  <2> QED
    BY <1>0, <1>3, <2>1 DEF dtor_start, NoLostWakeup, QueuedJobsHaveWorkers, FreePlacesHaveAdders
<1>4. CASE dtor_pill
  <2>1. Dtor \in All /\ apc[Dtor] # "waiting" /\ Pill \in Elements
    BY <1>4 DEF dtor_pill, All, Elements
  <2>2. (IF pills = 1 THEN "joining" ELSE "pilling") \in AdderPCs \ {"waiting", "woken"}
    BY DEF AdderPCs
  <2> QED BY <1>4, <1>a, <2>1, <2>2 DEF dtor_pill
<1>5. CASE dtor_join
  <2>1. Awake(apc', {"waiting"}) = Awake(apc, {"waiting"}) /\ Awake(apc', {"woken"}) = Awake(apc, {"woken"})
    BY <1>0, <1>5 DEF dtor_join, Awake, TypeOK
  <2> QED
    BY <1>0, <1>5, <2>1 DEF dtor_join, NoLostWakeup, QueuedJobsHaveWorkers, FreePlacesHaveAdders
<1>6. ASSUME NEW w \in Workers, takeJob(w), DeqTake(w)
      PROVE  NoLostWakeup'
  <2>1. Len(q_') = Len(q_) - 1
    BY <1>0, <1>6, TakeTypes DEF DeqTake
  <2>2. QueuedJobsHaveWorkers'
    <3> DEFINE n == Cardinality(Awake(wpc, {"ready", "woken"}))
               m == Cardinality(Awake(wpc', {"ready", "woken"}))
    <3>1. wpc \in [Workers -> WorkerPCs] /\ wpc[w] \in {"ready", "woken"}
      BY <1>0, <1>6 DEF takeJob, TypeOK
    <3>2. n \in Nat /\ m = n - 1
      BY <1>0, <1>6, <3>1, ReadyWorkers DEF DeqTake, WorkerPCs
    <3>3. Awake(wpc', {"waiting"}) = Awake(wpc, {"waiting"})
      BY <1>6, <3>1 DEF DeqTake, Awake
    <3>4. Awake(wpc, {"waiting"}) # {} => Len(q_') <= m
      BY <1>0, <1>q, <2>1, <3>2 DEF QueuedJobsHaveWorkers
    <3> QED BY <3>3, <3>4 DEF QueuedJobsHaveWorkers
  <2>3. FreePlacesHaveAdders'
    <3> DEFINE n == Cardinality(Awake(apc, {"woken"}))
               m == Cardinality(Awake(apc', {"woken"}))
    <3>1. IsFiniteSet(All) /\ apc \in [All -> AdderPCs]
      BY <1>0, FiniteThreads, FS_AddElement DEF All, TypeOK
    <3>2. CASE apc' = apc /\ (max_ = 0 \/ Awake(apc, {"waiting"}) = {})
      <4>1. n \in Nat
        <5>1. Awake(apc, {"woken"}) \in SUBSET All
          BY <3>1 DEF Awake
        <5> QED BY <3>1, <5>1, FS_Subset, FS_CardinalityType
      <4>2. max_ = 0 => max_ - Len(q_') <= n
        BY <1>0, <1>6, <2>1, <4>1, TakeTypes DEF DeqTake
      <4> QED BY <3>2, <4>2 DEF FreePlacesHaveAdders
    <3>3. ASSUME NEW a \in All, apc[a] = "waiting", apc' = [apc EXCEPT ![a] = "woken"]
          PROVE  FreePlacesHaveAdders'
      <4>1. n \in Nat /\ m = n + 1
        BY <1>0, <3>3, WokenAdders DEF AdderPCs
      <4>2. a \in Awake(apc, {"waiting"})
        BY <3>1, <3>3 DEF Awake
      <4>3. max_ - Len(q_') <= m
        BY <1>0, <1>q, <2>1, <4>1, <4>2, MaxAssumption DEF FreePlacesHaveAdders
      <4> QED BY <4>3 DEF FreePlacesHaveAdders
    <3>4. apc' \in SpaceSignal
      BY <1>6 DEF DeqTake
    <3> QED BY <1>0, <3>2, <3>3, <3>4, SpaceSignalWakes
  <2> QED BY <2>2, <2>3 DEF NoLostWakeup
<1>7. ASSUME NEW w \in Workers, takeJob(w), DeqWait(w)
      PROVE  NoLostWakeup'
  <2>1. Cardinality(Awake(wpc', {"ready", "woken"})) \in Nat
    BY <1>0, <1>7, ReadyWorkers DEF DeqWait, WorkerPCs
  <2>2. Len(q_') = 0
    BY <1>7 DEF DeqWait
  <2> QED
    BY <1>0, <1>7, <2>1, <2>2 DEF DeqWait, NoLostWakeup, QueuedJobsHaveWorkers, FreePlacesHaveAdders
<1>b. ASSUME NEW w \in Workers, wpc[w] \notin {"ready", "woken"}, NEW v \in {"ready", "woken"},
             wpc' = [wpc EXCEPT ![w] = v], UNCHANGED <<q_, apc>>
      PROVE  NoLostWakeup'
  <2> DEFINE n == Cardinality(Awake(wpc, {"ready", "woken"}))
             m == Cardinality(Awake(wpc', {"ready", "woken"}))
  <2>1. n \in Nat /\ m = n + 1
    BY <1>0, <1>b, ReadyWorkers DEF WorkerPCs
  <2>2. Awake(wpc', {"waiting"}) \subseteq Awake(wpc, {"waiting"})
    BY <1>0, <1>b DEF Awake, TypeOK
  <2>3. Awake(wpc', {"waiting"}) # {} => Len(q_') <= m
    <3>1. Awake(wpc, {"waiting"}) # {} => Len(q_) <= n
      BY <1>0 DEF QueuedJobsHaveWorkers
    <3>2. Len(q_') = Len(q_)
      BY <1>b
    <3>3. Awake(wpc', {"waiting"}) # {} => Awake(wpc, {"waiting"}) # {}
      BY <2>2
    <3> HIDE DEF n, m
    <3> QED BY <1>q, <2>1, <3>1, <3>2, <3>3
  <2> QED
    BY <1>0, <1>b, <2>3 DEF NoLostWakeup, QueuedJobsHaveWorkers, FreePlacesHaveAdders
<1>8. ASSUME NEW w \in Workers, do_worker(w)
      PROVE  NoLostWakeup'
  BY <1>8, <1>b DEF do_worker
<1>9. CASE spurious_wakeup
  <2>1. ASSUME NEW w \in Workers, wpc[w] = "waiting", wpc' = [wpc EXCEPT ![w] = "woken"], UNCHANGED apc
        PROVE  NoLostWakeup'
    BY <1>9, <1>b, <2>1 DEF spurious_wakeup
  <2>2. ASSUME NEW a \in All, apc[a] = "waiting", apc' = [apc EXCEPT ![a] = "woken"], UNCHANGED wpc
        PROVE  NoLostWakeup'
    <3> DEFINE n == Cardinality(Awake(apc, {"woken"}))
               m == Cardinality(Awake(apc', {"woken"}))
    <3>1. IsFiniteSet(All) /\ apc \in [All -> AdderPCs]
      BY <1>0, FiniteThreads, FS_AddElement DEF All, TypeOK
    <3>2. n \in Nat /\ m = n + 1
      BY <1>0, <2>2, WokenAdders DEF AdderPCs
    <3>3. Awake(apc, {"waiting"}) # {}
      BY <2>2, <3>1 DEF Awake
    <3>4. max_ - Len(q_) <= m
      BY <1>0, <1>q, <3>2, <3>3, MaxAssumption DEF FreePlacesHaveAdders
    <3> QED
      BY <1>0, <1>9, <2>2, <3>4
         DEF spurious_wakeup, NoLostWakeup, QueuedJobsHaveWorkers, FreePlacesHaveAdders
  <2> QED BY <1>9, <2>1, <2>2 DEF spurious_wakeup, All
<1>10. CASE UNCHANGED vars
  BY <1>0, <1>10 DEF vars, NoLostWakeup, QueuedJobsHaveWorkers, FreePlacesHaveAdders
<1> QED
  BY <1>1, <1>2, <1>3, <1>4, <1>5, <1>6, <1>7, <1>8, <1>9, <1>10, NextCases

(* One signal per element is enough in enq and in deq, for any number of   *)
(* threads and any capacity, newcomers and spurious wakeups included.      *)
THEOREM WakeupNotLost == Spec => []NoLostWakeup
<1>1. Init => NoLostWakeup
  <2> SUFFICES ASSUME Init PROVE NoLostWakeup
    OBVIOUS
  <2>1. Awake(wpc, {"waiting"}) = {} /\ Awake(apc, {"waiting"}) = {}
    BY DEF Init, Awake
  <2> QED BY <2>1 DEF NoLostWakeup, QueuedJobsHaveWorkers, FreePlacesHaveAdders
<1> QED
  BY <1>1, InitIInv, NextIInv, NextNoLostWakeup, PTL DEF Spec

-----------------------------------------------------------------------------
(* A thread blocked in enq has job x in its hands; a worker runs it.       *)
InHand(a, x) == apc[a] \in {"waiting", "woken"} /\ e[a] = x

AtWork(w, x) == wpc[w] = "running" /\ j[w] = x

Held(x) == Cardinality({a \in Adders : InHand(a, x)})

Busy(x) == Cardinality({w \in Workers : AtWork(w, x)})

(* A job waits to be added or has been refused, not both.                  *)
TodoNotRefused == todo \cap refused = {}

(* The places of a job are those in the queue, in the hands of adders and  *)
(* of workers, and in the history.                                         *)
LEMMA PlacesSplit ==
    ASSUME NEW x
    PROVE  /\ Places(x) = Count(q_, {x}) + Held(x) + Busy(x) + Count(ran, {x})
           /\ Places(x)' = Count(q_', {x}) + Held(x)' + Busy(x)' + Count(ran', {x})
<1>1. /\ {i \in DOMAIN q_ : q_[i] = x} = {i \in DOMAIN q_ : q_[i] \in {x}}
      /\ {i \in DOMAIN ran : ran[i] = x} = {i \in DOMAIN ran : ran[i] \in {x}}
  OBVIOUS
<1>2. /\ {i \in DOMAIN q_' : q_'[i] = x} = {i \in DOMAIN q_' : q_'[i] \in {x}}
      /\ {i \in DOMAIN ran' : ran'[i] = x} = {i \in DOMAIN ran' : ran'[i] \in {x}}
  OBVIOUS
<1> QED
  BY <1>1, <1>2, Zenon DEF Places, Count, Held, Busy, InHand, AtWork

(* The adders that hold x when one thread's hands change.                  *)
LEMMA HeldStep ==
    ASSUME NEW x, NEW a \in Adders,
           \A b \in Adders \ {a} : InHand(b, x)' <=> InHand(b, x)
    PROVE  /\ Held(x) \in Nat /\ Held(x)' \in Nat
           /\ ~InHand(a, x) /\ InHand(a, x)' => Held(x)' = Held(x) + 1
           /\ InHand(a, x) /\ ~InHand(a, x)' => Held(x)' = Held(x) - 1
           /\ (InHand(a, x) <=> InHand(a, x)') => Held(x)' = Held(x)
<1> DEFINE A == {b \in Adders : InHand(b, x)}
           B == {b \in Adders : InHand(b, x)'}
<1>1. A \subseteq Adders /\ B \subseteq Adders /\ A \ {a} = B \ {a}
      /\ (a \in A <=> InHand(a, x)) /\ (a \in B <=> InHand(a, x)')
  OBVIOUS
<1>2. Held(x) = Cardinality(A) /\ Held(x)' = Cardinality(B)
  BY DEF Held
<1> HIDE DEF A, B
<1>3. /\ Cardinality(A) \in Nat
      /\ Cardinality(B) \in Nat
      /\ a \notin A /\ a \in B => Cardinality(B) = Cardinality(A) + 1
      /\ a \in A /\ a \notin B => Cardinality(B) = Cardinality(A) - 1
      /\ (a \in A <=> a \in B) => Cardinality(B) = Cardinality(A)
  BY <1>1, OneMoreOrLess, FiniteThreads
<1> QED BY <1>1, <1>2, <1>3

(* The workers that run x when one of them begins or ends a job.           *)
LEMMA BusyStep ==
    ASSUME NEW x, NEW w \in Workers,
           \A b \in Workers \ {w} : AtWork(b, x)' <=> AtWork(b, x)
    PROVE  /\ Busy(x) \in Nat /\ Busy(x)' \in Nat
           /\ ~AtWork(w, x) /\ AtWork(w, x)' => Busy(x)' = Busy(x) + 1
           /\ AtWork(w, x) /\ ~AtWork(w, x)' => Busy(x)' = Busy(x) - 1
           /\ (AtWork(w, x) <=> AtWork(w, x)') => Busy(x)' = Busy(x)
<1> DEFINE A == {b \in Workers : AtWork(b, x)}
           B == {b \in Workers : AtWork(b, x)'}
<1>1. A \subseteq Workers /\ B \subseteq Workers /\ A \ {w} = B \ {w}
      /\ (w \in A <=> AtWork(w, x)) /\ (w \in B <=> AtWork(w, x)')
  OBVIOUS
<1>2. Busy(x) = Cardinality(A) /\ Busy(x)' = Cardinality(B)
  BY DEF Busy
<1> HIDE DEF A, B
<1>3. /\ Cardinality(A) \in Nat
      /\ Cardinality(B) \in Nat
      /\ w \notin A /\ w \in B => Cardinality(B) = Cardinality(A) + 1
      /\ w \in A /\ w \notin B => Cardinality(B) = Cardinality(A) - 1
      /\ (w \in A <=> w \in B) => Cardinality(B) = Cardinality(A)
  BY <1>1, OneMoreOrLess, FiniteThreads
<1> QED BY <1>1, <1>2, <1>3

(* Counts that a step leaves alone.                                        *)
LEMMA HeldSame ==
    ASSUME NEW x, \A b \in Adders : InHand(b, x)' <=> InHand(b, x)
    PROVE  Held(x)' = Held(x)
<1>1. {b \in Adders : InHand(b, x)} = {b \in Adders : InHand(b, x)'}
  OBVIOUS
<1> QED BY <1>1 DEF Held

LEMMA BusySame ==
    ASSUME NEW x, \A b \in Workers : AtWork(b, x)' <=> AtWork(b, x)
    PROVE  Busy(x)' = Busy(x)
<1>1. {b \in Workers : AtWork(b, x)} = {b \in Workers : AtWork(b, x)'}
  OBVIOUS
<1> QED BY <1>1 DEF Busy

(* The counts are numbers.                                                 *)
LEMMA CountsAreNumbers ==
    ASSUME TypeOK, NEW x
    PROVE  /\ Count(q_, {x}) \in Nat /\ Count(ran, {x}) \in Nat
           /\ Held(x) \in Nat /\ Busy(x) \in Nat
<1>1. Count(q_, {x}) \in Nat /\ Count(ran, {x}) \in Nat
  BY CountNat DEF TypeOK
<1>2. {a \in Adders : InHand(a, x)} \in SUBSET Adders /\ {w \in Workers : AtWork(w, x)} \in SUBSET Workers
  OBVIOUS
<1>3. Held(x) \in Nat /\ Busy(x) \in Nat
  BY <1>2, FiniteThreads, FS_Subset, FS_CardinalityType DEF Held, Busy
<1> QED BY <1>1, <1>3

(* enq moves an element from the hands of thread a into the queue; workers *)
(* go on with what they run.                                               *)
LEMMA PutCounts ==
    ASSUME IInv, NEW a \in All, NEW y \in Elements, NEW pc2 \in {"idle", "pilling", "joining"},
           EnqPut(a, y, pc2), UNCHANGED <<j, ran>>, NEW x \in Jobs
    PROVE  /\ Count(q_', {x}) = Count(q_, {x}) + (IF y = x THEN 1 ELSE 0)
           /\ Busy(x)' = Busy(x) /\ Count(ran', {x}) = Count(ran, {x})
           /\ Held(x)' = IF a \in Adders /\ InHand(a, x) THEN Held(x) - 1 ELSE Held(x)
<1>1. TypeOK /\ q_ \in Seq(Elements) /\ q_' = Append(q_, y)
  BY DEF IInv, TypeOK, EnqPut, Elements
<1>2. Count(q_', {x}) = Count(q_, {x}) + (IF y = x THEN 1 ELSE 0)
  BY <1>1, CountAppend
<1>3. Busy(x)' = Busy(x)
  <2>1. \A w \in Workers : wpc'[w] = wpc[w] \/ (wpc[w] = "waiting" /\ wpc'[w] = "woken")
    BY <1>1, JobSignalWakes DEF EnqPut
  <2>2. \A w \in Workers : AtWork(w, x)' <=> AtWork(w, x)
    BY <2>1 DEF AtWork
  <2> QED BY <2>2, BusySame
<1>4. apc \in [All -> AdderPCs] /\ e \in [All -> Elements]
  BY <1>1 DEF TypeOK, All, Elements
<1>5. \A b \in Adders \ {a} : InHand(b, x)' <=> InHand(b, x)
  BY <1>4 DEF EnqPut, InHand, All
<1>6. ~InHand(a, x)'
  BY <1>4 DEF EnqPut, InHand
<1>7. CASE a \in Adders
  BY <1>2, <1>3, <1>5, <1>6, <1>7, HeldStep DEF EnqPut
<1>8. CASE a \notin Adders
  <2>1. \A b \in Adders : InHand(b, x)' <=> InHand(b, x)
    BY <1>5, <1>8
  <2> QED BY <1>2, <1>3, <1>8, <2>1, HeldSame
<1> QED BY <1>2, <1>3, <1>7, <1>8

(* Going to sleep in enq puts the element in the thread's hands.           *)
LEMMA WaitCounts ==
    ASSUME IInv, NEW a \in All, NEW y \in Elements, EnqWait(a, y), UNCHANGED <<j, ran>>, NEW x \in Jobs
    PROVE  /\ Count(q_', {x}) = Count(q_, {x})
           /\ Busy(x)' = Busy(x) /\ Count(ran', {x}) = Count(ran, {x})
           /\ a \notin Adders => Held(x)' = Held(x)
           /\ a \in Adders /\ (InHand(a, x) <=> y = x) => Held(x)' = Held(x)
           /\ a \in Adders /\ ~InHand(a, x) /\ y = x => Held(x)' = Held(x) + 1
<1>1. apc \in [All -> AdderPCs] /\ e \in [All -> Elements]
  BY DEF IInv, TypeOK, All, Elements
<1>2. q_' = q_ /\ ran' = ran
  BY DEF EnqWait
<1>3. \A w \in Workers : AtWork(w, x)' <=> AtWork(w, x)
  BY DEF EnqWait, AtWork
<1>4. \A b \in Adders \ {a} : InHand(b, x)' <=> InHand(b, x)
  BY <1>1 DEF EnqWait, InHand, All
<1>5. InHand(a, x)' <=> y = x
  BY <1>1 DEF EnqWait, InHand
<1>6. Busy(x)' = Busy(x)
  BY <1>3, BusySame
<1>7. CASE a \in Adders
  BY <1>2, <1>4, <1>5, <1>6, <1>7, HeldStep
<1>8. CASE a \notin Adders
  <2>1. \A b \in Adders : InHand(b, x)' <=> InHand(b, x)
    BY <1>4, <1>8
  <2> QED BY <1>2, <1>6, <1>8, <2>1, HeldSame
<1> QED BY <1>7, <1>8

(* Every step moves jobs from one place to the next, one at a time.        *)
LEMMA NextJobs == IInv /\ JobsConserved /\ TodoNotRefused /\ [Next]_vars
                    => JobsConserved' /\ TodoNotRefused'
<1> SUFFICES ASSUME IInv, JobsConserved, TodoNotRefused, [Next]_vars
             PROVE  JobsConserved' /\ TodoNotRefused'
  OBVIOUS
<1> USE DtorAssumption, PillAssumption
<1>0. TypeOK /\ apc \in [All -> AdderPCs] /\ e \in [All -> Elements] /\ q_ \in Seq(Elements)
      /\ wpc \in [Workers -> WorkerPCs] /\ j \in [Workers -> Elements] /\ ran \in Seq(Jobs)
  BY DEF IInv, TypeOK, All, Elements
<1>1. TodoNotRefused'
  BY NextCases
     DEF TodoNotRefused, addJob, addJob_resume, dtor_start, dtor_pill, dtor_join, takeJob, do_worker,
         spurious_wakeup, vars
<1> SUFFICES ASSUME NEW x \in Jobs
             PROVE  Places(x)' = IF x \in todo' \cup refused' THEN 0 ELSE 1
  BY <1>1 DEF JobsConserved
<1> DEFINE q == Count(q_, {x})   r == Count(ran, {x})   h == Held(x)   b == Busy(x)
           q2 == Count(q_', {x}) r2 == Count(ran', {x}) h2 == Held(x)' b2 == Busy(x)'
<1>2. q \in Nat /\ r \in Nat /\ h \in Nat /\ b \in Nat
  BY <1>0, CountsAreNumbers
<1>3. Places(x) = q + h + b + r /\ Places(x)' = q2 + h2 + b2 + r2
  BY PlacesSplit
<1>4. q + h + b + r = IF x \in todo \cup refused THEN 0 ELSE 1
  BY <1>3 DEF JobsConserved
<1> HIDE DEF q, r, h, b, q2, r2, h2, b2
<1>s. ASSUME q2 + h2 + b2 + r2 = q + h + b + r, UNCHANGED <<todo, refused>>
      PROVE  Places(x)' = IF x \in todo' \cup refused' THEN 0 ELSE 1
  BY <1>3, <1>4, <1>s
<1>5. ASSUME NEW a \in Adders, NEW y \in Jobs, addJob(a, y)
      PROVE  Places(x)' = IF x \in todo' \cup refused' THEN 0 ELSE 1
  <2>1. ~InHand(a, x) /\ y \in todo /\ todo' = todo \ {y} /\ y \notin refused
    BY <1>5 DEF addJob, InHand, TodoNotRefused
  <2>2. a \in All /\ y \in Elements /\ UNCHANGED <<j, ran>>
    BY <1>5 DEF addJob, All, Elements
  <2>3. CASE EnqPut(a, y, "idle") /\ UNCHANGED refused
    <3>1. q2 = q + (IF y = x THEN 1 ELSE 0) /\ h2 = h /\ b2 = b /\ r2 = r
      BY <2>1, <2>2, <2>3, PutCounts DEF q, r, h, b, q2, r2, h2, b2
    <3> QED BY <1>2, <1>3, <1>4, <2>1, <2>3, <3>1
  <2>4. CASE EnqWait(a, y) /\ UNCHANGED refused
    <3>1. q2 = q /\ h2 = h + (IF y = x THEN 1 ELSE 0) /\ b2 = b /\ r2 = r
      <4>1. h \in Nat
        BY <1>2
      <4>2. CASE y = x
        BY <2>1, <2>2, <2>4, <4>2, WaitCounts DEF q, r, h, b, q2, r2, h2, b2
      <4>3. CASE y # x
        <5>1. q2 = q /\ h2 = h /\ b2 = b /\ r2 = r
          BY <2>1, <2>2, <2>4, <4>3, WaitCounts DEF q, r, h, b, q2, r2, h2, b2
        <5> QED BY <4>1, <4>3, <5>1
      <4> QED BY <4>2, <4>3
    <3> QED BY <1>2, <1>3, <1>4, <2>1, <2>4, <3>1
  <2>5. CASE EnqRefuse(a) /\ refused' = refused \cup {y}
    <3>1. apc' = apc /\ e' = e /\ wpc' = wpc /\ q_' = q_
      BY <1>0, <1>5, <2>5 DEF addJob, EnqRefuse, All
    <3>2. q2 = q /\ h2 = h /\ b2 = b /\ r2 = r
      BY <2>2, <3>1 DEF q, r, h, b, q2, r2, h2, b2, Held, Busy, InHand, AtWork
    <3> QED BY <1>2, <1>3, <1>4, <2>1, <2>5, <3>2
  <2> QED BY <1>5, <2>3, <2>4, <2>5 DEF addJob
<1>6. ASSUME NEW a \in Adders, addJob_resume(a)
      PROVE  Places(x)' = IF x \in todo' \cup refused' THEN 0 ELSE 1
  <2>1. InHand(a, x) <=> e[a] = x
    BY <1>6 DEF addJob_resume, InHand
  <2>2. a \in All /\ e[a] \in Elements /\ UNCHANGED <<j, ran, todo, refused>>
    BY <1>0, <1>6 DEF addJob_resume, All
  <2>3. CASE EnqPut(a, e[a], "idle")
    <3>1. /\ q2 = q + (IF e[a] = x THEN 1 ELSE 0) /\ b2 = b /\ r2 = r
          /\ h2 = IF e[a] = x THEN h - 1 ELSE h
      BY <2>1, <2>2, <2>3, PutCounts DEF q, r, h, b, q2, r2, h2, b2
    <3> QED BY <1>2, <1>s, <2>2, <3>1
  <2>4. CASE EnqWait(a, e[a])
    <3>1. q2 = q /\ h2 = h /\ b2 = b /\ r2 = r
      BY <2>1, <2>2, <2>4, WaitCounts DEF q, r, h, b, q2, r2, h2, b2
    <3> QED BY <1>s, <2>2, <3>1
  <2> QED BY <1>6, <2>3, <2>4 DEF addJob_resume
<1>7. CASE dtor_start \/ dtor_join
  <2>1. q_' = q_ /\ ran' = ran /\ UNCHANGED <<todo, refused, wpc, j, e>>
    BY <1>7 DEF dtor_start, dtor_join
  <2>2. \A a \in Adders : apc'[a] = apc[a]
    BY <1>0, <1>7 DEF dtor_start, dtor_join, All
  <2>3. \A a \in Adders : InHand(a, x)' <=> InHand(a, x)
    BY <2>1, <2>2 DEF InHand
  <2>4. \A w \in Workers : AtWork(w, x)' <=> AtWork(w, x)
    BY <2>1 DEF AtWork
  <2>5. q2 = q /\ h2 = h /\ b2 = b /\ r2 = r
    BY <2>1, <2>3, <2>4, HeldSame, BusySame DEF q, r, h, b, q2, r2, h2, b2
  <2> QED BY <1>s, <2>1, <2>5
<1>8. CASE dtor_pill
  <2>1. Dtor \in All /\ Pill \in Elements /\ Pill # x /\ UNCHANGED <<j, ran, todo, refused>>
    BY <1>8 DEF dtor_pill, All, Elements
  <2>2. CASE EnqPut(Dtor, Pill, IF pills = 1 THEN "joining" ELSE "pilling")
    <3>1. q2 = q + 0 /\ h2 = h /\ b2 = b /\ r2 = r
      BY <2>1, <2>2, PutCounts DEF q, r, h, b, q2, r2, h2, b2
    <3> QED BY <1>2, <1>s, <2>1, <3>1
  <2>3. CASE EnqWait(Dtor, Pill)
    <3>1. q2 = q /\ h2 = h /\ b2 = b /\ r2 = r
      BY <2>1, <2>3, WaitCounts DEF q, r, h, b, q2, r2, h2, b2
    <3> QED BY <1>s, <2>1, <3>1
  <2> QED BY <1>8, <2>2, <2>3 DEF dtor_pill
<1>9. ASSUME NEW w \in Workers, takeJob(w), DeqTake(w)
      PROVE  Places(x)' = IF x \in todo' \cup refused' THEN 0 ELSE 1
  <2>1. q_ # <<>> /\ q_' = Tail(q_) /\ UNCHANGED <<ran, todo, refused, e>>
    BY <1>9 DEF takeJob, DeqTake
  <2>2. q = q2 + (IF Head(q_) = x THEN 1 ELSE 0)
    BY <1>0, <2>1, CountTail DEF q, q2
  <2>3. q2 \in Nat
    BY <1>0, <2>1, CountNat, HeadTailProperties DEF q2
  <2>4. \A a \in Adders : InHand(a, x)' <=> InHand(a, x)
    <3>1. \A a \in All : apc'[a] = apc[a] \/ (apc[a] = "waiting" /\ apc'[a] = "woken")
      BY <1>0, <1>9, SpaceSignalWakes DEF DeqTake
    <3> QED BY <2>1, <3>1 DEF InHand, All
  <2>5. \A v \in Workers \ {w} : AtWork(v, x)' <=> AtWork(v, x)
    BY <1>0, <1>9 DEF AtWork, DeqTake
  <2>6. ~AtWork(w, x) /\ (AtWork(w, x)' <=> Head(q_) = x)
    BY <1>0, <1>9 DEF AtWork, DeqTake, takeJob
  <2>7. h2 = h /\ r2 = r
    BY <2>1, <2>4, HeldSame DEF h, h2, r, r2
  <2>8. b2 = IF Head(q_) = x THEN b + 1 ELSE b
    BY <2>5, <2>6, BusyStep DEF b, b2
  <2> QED BY <1>2, <1>s, <2>1, <2>2, <2>3, <2>7, <2>8
<1>10. ASSUME NEW w \in Workers, takeJob(w), DeqWait(w)
       PROVE  Places(x)' = IF x \in todo' \cup refused' THEN 0 ELSE 1
  <2>1. q_' = q_ /\ UNCHANGED <<ran, todo, refused, e, apc, j>>
    BY <1>10 DEF takeJob, DeqWait
  <2>2. \A v \in Workers : AtWork(v, x)' <=> AtWork(v, x)
    BY <1>0, <1>10 DEF AtWork, DeqWait, takeJob
  <2>3. \A a \in Adders : InHand(a, x)' <=> InHand(a, x)
    BY <2>1 DEF InHand
  <2>4. q2 = q /\ h2 = h /\ b2 = b /\ r2 = r
    BY <2>1, <2>2, <2>3, HeldSame, BusySame DEF q, r, h, b, q2, r2, h2, b2
  <2> QED BY <1>s, <2>1, <2>4
<1>11. ASSUME NEW w \in Workers, do_worker(w)
       PROVE  Places(x)' = IF x \in todo' \cup refused' THEN 0 ELSE 1
  <2>1. q_' = q_ /\ ran' = Append(ran, j[w]) /\ UNCHANGED <<todo, refused, e, apc>> /\ j[w] \in Jobs
    BY <1>11 DEF do_worker, IInv, HandsHoldJobs
  <2>2. \A v \in Workers \ {w} : AtWork(v, x)' <=> AtWork(v, x)
    BY <1>0, <1>11 DEF AtWork, do_worker
  <2>3. ~AtWork(w, x)' /\ (AtWork(w, x) <=> j[w] = x)
    BY <1>0, <1>11 DEF AtWork, do_worker
  <2>4. \A a \in Adders : InHand(a, x)' <=> InHand(a, x)
    BY <2>1 DEF InHand
  <2>5. q2 = q /\ h2 = h
    BY <2>1, <2>4, HeldSame DEF q, q2, h, h2
  <2>6. r2 = r + (IF j[w] = x THEN 1 ELSE 0)
    BY <1>0, <2>1, CountAppend DEF r, r2
  <2>7. b2 = IF j[w] = x THEN b - 1 ELSE b
    BY <2>2, <2>3, BusyStep DEF b, b2
  <2> QED BY <1>2, <1>s, <2>1, <2>5, <2>6, <2>7
<1>12. CASE spurious_wakeup
  <2>1. q_' = q_ /\ UNCHANGED <<ran, todo, refused, e, j>>
    BY <1>12 DEF spurious_wakeup
  <2>2. \A v \in Workers : wpc'[v] = wpc[v] \/ (wpc[v] = "waiting" /\ wpc'[v] = "woken")
    BY <1>0, <1>12 DEF spurious_wakeup
  <2>3. \A a \in Adders : apc'[a] = apc[a] \/ (apc[a] = "waiting" /\ apc'[a] = "woken")
    BY <1>0, <1>12 DEF spurious_wakeup, All
  <2>4. /\ \A a \in Adders : InHand(a, x)' <=> InHand(a, x)
        /\ \A v \in Workers : AtWork(v, x)' <=> AtWork(v, x)
    BY <2>1, <2>2, <2>3 DEF InHand, AtWork
  <2>5. q2 = q /\ h2 = h /\ b2 = b /\ r2 = r
    BY <2>1, <2>4, HeldSame, BusySame DEF q, r, h, b, q2, r2, h2, b2
  <2> QED BY <1>s, <2>1, <2>5
<1>13. CASE UNCHANGED vars
  <2>1. q2 = q /\ h2 = h /\ b2 = b /\ r2 = r /\ UNCHANGED <<todo, refused>>
    BY <1>13 DEF vars, q, r, h, b, q2, r2, h2, b2, Held, Busy, InHand, AtWork
  <2> QED BY <1>s, <2>1
<1> QED
  BY <1>5, <1>6, <1>7, <1>8, <1>9, <1>10, <1>11, <1>12, <1>13, NextCases

(* Whatever blocks, wakes or is refused, no job is lost and none runs      *)
(* twice, and a job that addJob refused never runs.                        *)
THEOREM NoJobLost == Spec => []JobsConserved
<1>1. Init => JobsConserved /\ TodoNotRefused
  <2> SUFFICES ASSUME Init, NEW x \in Jobs PROVE Places(x) = 0 /\ TodoNotRefused /\ x \in todo
    BY DEF JobsConserved, Init, TodoNotRefused
  <2>1. Count(q_, {x}) = 0 /\ Count(ran, {x}) = 0
    BY CountEmpty DEF Init
  <2>2. {a \in Adders : InHand(a, x)} = {} /\ {w \in Workers : AtWork(w, x)} = {}
    BY DEF Init, InHand, AtWork
  <2>3. Held(x) = 0 /\ Busy(x) = 0
    BY <2>2, FS_EmptySet DEF Held, Busy
  <2> QED BY <2>1, <2>3, PlacesSplit DEF Init, TodoNotRefused
<1> QED
  BY <1>1, InitIInv, NextIInv, NextJobs, PTL DEF Spec

=============================================================================
